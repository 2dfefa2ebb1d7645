---- MODULE MCImage ----
(* Names, sizes and sessions for Image: a page holds nine instructions, two   *)
(* slots or nine of the smallest data, so that every section can be full.      *)
EXTENDS Image

MCNameLen == [n \in Names |-> IF n = "read" THEN 4 ELSE 5]

Main == <<1, FALSE>>
Byte == 1024
Cell == 3072

MCSessions ==
  { \* which words an entry reaches
    [ops |-> {"intrin", "interp", "recur"}, names |-> {}, data |-> {},
     signatures |-> {Main}, len |-> 9],
    \* slots of linked names, also after errors
    [ops |-> {"fail"}, names |-> {"read", "write"}, data |-> {},
     signatures |-> {Main}, len |-> 7],
    \* addresses of data, beside a linked name
    [ops |-> {}, names |-> {"write"}, data |-> {<<Byte, Byte>>, <<4 * Byte, Cell>>},
     signatures |-> {Main}, len |-> 6],
    \* entries which are none
    [ops |-> {}, names |-> {}, data |-> {}, signatures |-> {Main, <<1, TRUE>>, <<0, FALSE>>}, len |-> 9] }
====
