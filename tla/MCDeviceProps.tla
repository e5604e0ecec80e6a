--------------------------- MODULE MCDeviceProps ---------------------------
(* Camera bodies for model checking DeviceProps: rows of the model tables   *)
(* with the numbers scaled to ValueHalf = 4 (-4 .. 3).                      *)
EXTENDS DeviceProps

Plain(width, v) ==
    [width |-> width, rw |-> TRUE, form |-> "none", avail |-> <<>>,
     min |-> 0, max |-> 0, step |-> 1, value |-> v]

\* canon_1300d and eos_m: all properties have four bytes
Legacy == [vendor |-> "canon", props |-> ("CaptureDestination" :> Plain(4, 2) @@ "ISOSpeed" :> Plain(4, 5))]

\* a dump without the capture properties
Bare == [vendor |-> "canon", props |-> ("Aperture" :> Plain(4, 6))]

\* canon_5d3 and its like: the exposure settings have two bytes
Dump == [vendor |-> "canon", props |-> ("CaptureDestination" :> Plain(4, 1) @@ "ISOSpeed" :> Plain(2, 5))]

\* canon_200d: the table starts with captures going to memory
Rebel == [vendor |-> "canon", props |-> ("CaptureDestination" :> Plain(4, 4) @@ "ISOSpeed" :> Plain(2, 5))]

Nikon == [vendor |-> "nikon", props |->
    ("FNumber" :> Plain(2, 5) @@ "LiveViewStatus" :> [Plain(1, 0) EXCEPT !.rw = FALSE])]

\* 0xd20d: an enumeration whose order is not that of its numbers; 0x500a: an
\* empty enumeration
Shutter == [vendor |-> "sony", props |->
    ("ShutterSpeed" :> [Plain(4, 6) EXCEPT !.form = "enum", !.avail = <<4, 0, 6, 2, 5, 3>>]
     @@ "FocusMode" :> [Plain(2, 1) EXCEPT !.form = "enum"])]

\* 0xd218: "range:-1:1:100"
Battery == [vendor |-> "sony", props |->
    ("BatteryLevel" :> [Plain(1, 2) EXCEPT !.form = "range", !.min = -1, !.max = 3])]

\* 0xd20f: "range:2500:100:9900"
Kelvin == [vendor |-> "sony", props |->
    ("ColorTemp" :> [Plain(2, 2) EXCEPT !.form = "range", !.min = -4, !.step = 2, !.max = 2])]

\* 0xd214: "range:0:1:4294967295", four bytes
Wide == [vendor |-> "sony", props |->
    ("D214" :> [Plain(4, 3) EXCEPT !.form = "range", !.max = 7])]

TrueBodies == {Legacy, Bare, Nikon, Shutter, Battery, Kelvin, Wide}
DumpBodies == {Dump}
\* For PropsSound: README, section 6
SdramBodies == {Rebel}
=============================================================================
