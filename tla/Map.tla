-------------------------------- MODULE Map --------------------------------
(***************************************************************************)
(* What the users of clib/dict.h, clib/map.h and clib/set.h rely on: a     *)
(* function from keys to values, which is set key by key and emptied       *)
(* altogether.  There is no deletion.                                      *)
(***************************************************************************)
CONSTANTS Key, Val, Nil

VARIABLE map

Init == map = [k \in Key |-> Nil]

Set(k, v) == map' = [map EXCEPT ![k] = v]

Trunc == map' = [k \in Key |-> Nil]

Next == Trunc \/ \E k \in Key, v \in Val : Set(k, v)

Spec == Init /\ [][Next]_map
=============================================================================
