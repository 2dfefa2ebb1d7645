---- MODULE MCThreads ----
(* Two threads beside the main one; one mapping has no room for a closure. *)
EXTENDS Threads

MCRoom == [m \in 1 .. 3 |-> CASE m = 1 -> 2 [] m = 2 -> 1 [] m = 3 -> 0]
====
