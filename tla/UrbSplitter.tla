----------------------------- MODULE UrbSplitter -----------------------------
(***************************************************************************)
(* The USB side of the bulk-in endpoint (usbthing.c, urb_splitter): the    *)
(* host asks for transfers of lengths of its own choosing, and the         *)
(* splitter cuts the camera's bulk-in buffer so that no transfer holds     *)
(* bytes of two PTP containers. It remembers the rest of the container it  *)
(* is in the middle of in last_length - a static variable, one for all the *)
(* cameras of the process.                                                 *)
(*                                                                         *)
(* Lengths are counted in 4-byte words: the first word of a container is   *)
(* its length field. Cameras answer each command with a data container and *)
(* a response, as in module Responder.                                     *)
(***************************************************************************)
EXTENDS Integers, Sequences, SequencesExt, FiniteSetsExt

CONSTANTS
    Cams,         \* the cameras attached to the process
    MaxPacket,    \* wMaxPacketSize, 128 words in the code
    Lens,         \* transfer lengths hosts ask for
    DataLens,     \* lengths of data containers
    RespLen,      \* length of a response container
    GarbageLens,  \* what an uninitialised host buffer may hold as a length
    Garbage,      \* a word of the host's buffer that was not written
    MaxTrans,     \* bound: transactions per camera
    Concurrent    \* hosts of two cameras may be in a transaction at once

\* Containers and transfers have at least one word, and garbage is no word of
\* a container.
ASSUME SplitterAssumption ==
    /\ MaxPacket \in Nat \ {0}
    /\ Lens \subseteq Nat \ {0}
    /\ DataLens \subseteq Nat \ {0}
    /\ RespLen \in Nat \ {0}
    /\ GarbageLens \subseteq Nat \ {0}
    /\ MaxTrans \in Nat
    /\ Concurrent \in BOOLEAN
    /\ Garbage \notin [cam : Cams, n : Nat, k : Nat, len : Nat]

VARIABLES
    inbulk,       \* inbulk[c]: the bulk-in buffer of camera c, word by word
    last_length,  \* words left of the container being sent, for all cameras
    answers,      \* answers[c]: lengths of the containers c has produced
    transfers,    \* transfers[c]: what each bulk-in transfer brought to c's host
    waiting       \* waiting[c]: the host of c has not seen a whole response yet

splitter_vars == <<inbulk, last_length, answers, transfers, waiting>>

-----------------------------------------------------------------------------

\* The n-th container of camera c, len words long.
ContainerWords(c, n, len) ==
    [k \in 1 .. len |-> [cam |-> c, n |-> n, k |-> k, len |-> len]]

\* The host sends a command; the camera answers into its bulk-in buffer.
Transact(c, len) ==
    LET n == Len(answers[c])
    IN  /\ ~waiting[c]
        /\ Concurrent \/ \A d \in Cams : ~waiting[d]
        /\ n < 2 * MaxTrans
        /\ inbulk' = [inbulk EXCEPT ![c] =
              @ \o ContainerWords(c, n + 1, len) \o ContainerWords(c, n + 2, RespLen)]
        /\ answers' = [answers EXCEPT ![c] = @ \o <<len, RespLen>>]
        /\ waiting' = [waiting EXCEPT ![c] = TRUE]
        /\ UNCHANGED <<last_length, transfers>>

\* vcam_read copies what there is, up to n words; the splitter takes the
\* transfer for complete, so the words it did not get are the host's own.
vcam_read(buf, n) ==
    [words |-> [k \in 1 .. n |-> IF k <= Len(buf) THEN buf[k] ELSE Garbage],
     rest  |-> SubSeq(buf, n + 1, Len(buf))]

max_packet(len) == IF len > MaxPacket THEN len ELSE MaxPacket

\* The length the splitter reads when it is at a container boundary. What it
\* takes for a length field after a loss of synchronisation may be anything.
HeaderLengths(buf) ==
    IF buf # <<>> /\ buf[1].k = 1 THEN {buf[1].len} ELSE GarbageLens

\* Mutant: the length field is not counted as part of the container.
urb_splitter_skips_header(c, len) ==
    \E length \in IF last_length = 0 THEN HeaderLengths(inbulk[c]) ELSE {last_length} :
        LET max == Min({length, max_packet(len), len})
            r == vcam_read(inbulk[c], max)
        IN  /\ transfers' = [transfers EXCEPT ![c] = Append(@, r.words)]
            /\ inbulk' = [inbulk EXCEPT ![c] = r.rest]
            /\ last_length' = IF last_length = 0 THEN length - max + 1 ELSE length - max

\* Mutant: a continued container gives its whole length again.
urb_splitter_rereads(c, len) ==
    \E length \in IF last_length = 0 THEN HeaderLengths(inbulk[c]) ELSE {last_length} :
        LET max == Min({length, max_packet(len), len})
            r == vcam_read(inbulk[c], max)
        IN  /\ transfers' = [transfers EXCEPT ![c] = Append(@, r.words)]
            /\ inbulk' = inbulk
            /\ last_length' = length - max

\* Mutant: what is left of a container is withheld when it fills no packet.
urb_splitter_no_short_packet(c, len) ==
    \E length \in IF last_length = 0 THEN HeaderLengths(inbulk[c]) ELSE {last_length} :
        LET max == Min({length, max_packet(len), len})
            r == vcam_read(inbulk[c], max)
        IN  /\ max >= MaxPacket
            /\ transfers' = [transfers EXCEPT ![c] = Append(@, r.words)]
            /\ inbulk' = [inbulk EXCEPT ![c] = r.rest]
            /\ last_length' = length - max

\* One bulk-in transfer of at most len words.
urb_splitter(c, len) ==
    \E length \in IF last_length = 0 THEN HeaderLengths(inbulk[c]) ELSE {last_length} :
        LET max == Min({length, max_packet(len), len})
            r == vcam_read(inbulk[c], max)
        IN  /\ transfers' = [transfers EXCEPT ![c] = Append(@, r.words)]
            /\ inbulk' = [inbulk EXCEPT ![c] = r.rest]
            /\ last_length' = length - max

\* The last word of a camera's latest response has arrived at its host.
ResponseEnd(c) ==
    [cam |-> c, n |-> Len(answers[c]), k |-> RespLen, len |-> RespLen]

\* The host reads until it has the response of its command.
BulkIn(c, len) ==
    /\ waiting[c]
    /\ urb_splitter(c, len)
    /\ waiting' = [waiting EXCEPT ![c] =
          ResponseEnd(c) \notin Range(Last(transfers'[c]))]
    /\ UNCHANGED answers

SplitterInit ==
    /\ inbulk = [c \in Cams |-> <<>>]
    /\ last_length = 0
    /\ answers = [c \in Cams |-> <<>>]
    /\ transfers = [c \in Cams |-> <<>>]
    /\ waiting = [c \in Cams |-> FALSE]

SplitterNext ==
    \/ \E c \in Cams, len \in DataLens : Transact(c, len)
    \/ \E c \in Cams, len \in Lens : BulkIn(c, len)

\* A host that waits for a response keeps submitting bulk-in transfers.
SplitterFairness == \A c \in Cams : WF_splitter_vars(\E len \in Lens : BulkIn(c, len))

SplitterSpec == SplitterInit /\ [][SplitterNext]_splitter_vars /\ SplitterFairness

-----------------------------------------------------------------------------
(* Properties *)

Word == [cam : Cams, n : Nat \ {0}, k : Nat \ {0}, len : Nat \ {0}]

\* Every variable keeps its type; the unsigned last_length never wraps below 0.
SplitterTypeOK ==
    /\ inbulk \in [Cams -> Seq(Word)]
    /\ last_length \in Nat
    /\ answers \in [Cams -> Seq(Nat)]
    /\ transfers \in [Cams -> Seq(Seq(Word \cup {Garbage}))]
    /\ waiting \in [Cams -> BOOLEAN]

\* "Force separate bulk transfers for each PTP phase" (urb_splitter): no
\* transfer mixes two containers or brings bytes no camera sent.
PhasesSeparate ==
    \A c \in Cams : \A i \in DOMAIN transfers[c] :
        \A w \in Range(transfers[c][i]) :
            w # Garbage /\ w.n = transfers[c][i][1].n

Produced(c) ==
    FlattenSeq([n \in 1 .. Len(answers[c]) |-> ContainerWords(c, n, answers[c][n])])

\* The transfers of a host, put together, are what its camera produced, from
\* its first word and without a gap, a repeat or a word of another camera.
StreamIntact ==
    \A c \in Cams :
        FlattenSeq(transfers[c]) \o inbulk[c] = Produced(c)

\* Between transactions the splitter is at a container boundary again, so the
\* next length field is read where there is one.
BoundaryRestored == (\A c \in Cams : ~waiting[c]) => last_length = 0

\* Whatever the transfer lengths, a host gets the response it waits for.
ResponseArrives == \A c \in Cams : waiting[c] ~> ~waiting[c]

\* Framing: one container per transfer, no stray bytes, and the splitter back at
\* a container boundary between transactions.
Framed == SplitterTypeOK /\ PhasesSeparate /\ BoundaryRestored

==============================================================================
