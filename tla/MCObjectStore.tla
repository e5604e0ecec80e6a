---------------------------- MODULE MCObjectStore ----------------------------
(***************************************************************************)
(* Instances of ObjectStore for TLC: an empty card, a card with DCIM and a *)
(* picture below it, and one with a picture and another file outside DCIM. *)
(***************************************************************************)
EXTENDS ObjectStore

Item(name, kind, parent) == [name |-> name, kind |-> kind, parent |-> parent]

MCCards ==
    {<<>>,
     <<Item("DCIM", "dir", 0), Item("A", "jpg", 1)>>,
     <<Item("A", "jpg", 0), Item("B", "other", 0)>>}

==============================================================================
