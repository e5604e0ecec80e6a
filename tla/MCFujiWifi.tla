----------------------------- MODULE MCFujiWifi -----------------------------
(* For the import an empty card, one with files of one date, and one with   *)
(* more dates than MaxDates, not in order. The remote control does not look *)
(* at the card.                                                             *)
EXTENDS FujiWifi

SmallCards ==
    [import |-> {<<>>, <<2, 2>>, <<2, 3, 1, 3>>}, remote |-> {<<2>>}]

=============================================================================
