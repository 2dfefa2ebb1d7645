----------------------------- MODULE HashTable -----------------------------
(***************************************************************************)
(* The hash table under every dictionary, map and set of the compiler      *)
(* (clib/hash_table_common.c): open addressing, triangular probing, no     *)
(* tombstones, growth by rehashing into twice the capacity.                *)
(*                                                                         *)
(* A slot holds Nil where its bit is clear.  The C functions assert that   *)
(* there is room, and that no key is met twice in a rehash; a table for    *)
(* which an assertion fails has ok = FALSE here.                           *)
(*                                                                         *)
(* Sets (clib/set.c) probe by the same code, add and grow by their own; a  *)
(* slot in use holds InSet as its value.                                   *)
(***************************************************************************)
EXTENDS Integers, FiniteSets

CONSTANTS
  Key, Val,
  Nil,      \* no key, no value
  InSet,    \* what a member of a set has for its value
  Hash,     \* the hashes keys may have
  Width,    \* bits of Ind
  InitCap,  \* HASH_TABLE_INIT_CAP
  MaxCap    \* bound on the capacity, which Ind can hold

ASSUME TableAssumption ==
  /\ Nil \notin Key /\ Nil \notin Val \cup {InSet}
  /\ Hash \subseteq Nat /\ Width \in Nat
  /\ InitCap \in {2 ^ n : n \in 2 .. Width - 1}
  /\ MaxCap \in Nat /\ MaxCap < 2 ^ Width

VARIABLES
  hash,  \* the hash of each key
  kind,  \* what the table is used for
  tab    \* the table

vars == <<hash, kind, tab>>

Slots(t) == 0 .. t.cap - 1

\* hash_table_init.
New(cap) == [cap |-> cap, len |-> 0, ok |-> TRUE,
             keys |-> [s \in 0 .. cap - 1 |-> Nil],
             vals |-> [s \in 0 .. cap - 1 |-> Nil]]

-----------------------------------------------------------------------------
(* Probing *)

\* As Probe, plain squares.
ProbeSquares(i) == (i * i) % (2 ^ Width)

\* hash_table_probe: triangular numbers, in arithmetic modulo 2^Width.
Probe(i) == ((i * i + i) % (2 ^ Width)) \div 2

ProbeInd(t, k, i) == (hash[k] + Probe(i)) % t.cap

\* The first turn of a probing loop at which S is met, if any.
FirstTurn(t, k, S) ==
  {i \in Slots(t) : /\ t.keys[ProbeInd(t, k, i)] \in S
                    /\ \A j \in 0 .. i - 1 : t.keys[ProbeInd(t, k, j)] \notin S}

\* hash_table_matching_ind: it goes on after free slots.
MatchingInd(t, k) == {ProbeInd(t, k, i) : i \in FirstTurn(t, k, {k})}

\* As AvailableInd, by a loop which reuses the first slot it likes.
AvailableIndFree(t, k) == {ProbeInd(t, k, i) : i \in FirstTurn(t, k, {Nil})}

\* hash_table_available_ind.
AvailableInd(t, k) == {ProbeInd(t, k, i) : i \in FirstTurn(t, k, {k, Nil})}

-----------------------------------------------------------------------------
(* Setting *)

\* The second half of hash_table_set.
Put(t, k, v) ==
  IF AvailableInd(t, k) = {} \/ t.len >= t.cap THEN [t EXCEPT !.ok = FALSE]
  ELSE LET s == CHOOSE s \in AvailableInd(t, k) : TRUE IN
       [t EXCEPT !.keys[s] = k, !.vals[s] = v,
                 !.len = IF t.keys[s] = Nil THEN @ + 1 ELSE @]

\* As Loaded, a table which is filled to the last slot.
LoadedFull(t) == t.len > t.cap

\* hash_table_loaded: more than half full.
Loaded(t) == 2 * t.len > t.cap

\* As Rehash, by a smaller factor.
RehashByHalf(t) ==
  LET cap == t.cap + t.cap \div 2
      moved[n \in 0 .. t.cap] ==
        IF n = 0 THEN [New(cap) EXCEPT !.ok = t.ok]
        ELSE IF t.keys[n - 1] = Nil THEN moved[n - 1]
        ELSE Put(moved[n - 1], t.keys[n - 1], t.vals[n - 1])
  IN moved[t.cap]

\* The entry of slot s, if any, is put into the table new, where its key must be new.
Move(t, s, new) ==
  LET k == t.keys[s] IN
  IF k = Nil THEN new
  ELSE IF \E r \in AvailableInd(new, k) : new.keys[r] = k THEN [new EXCEPT !.ok = FALSE]
  ELSE Put(new, k, t.vals[s])

\* hash_table_rehash: the entries are moved in the order of their slots.
Rehash(t) ==
  LET moved[n \in 0 .. t.cap] ==
        IF n = 0 THEN [New(2 * t.cap) EXCEPT !.ok = t.ok] ELSE Move(t, n - 1, moved[n - 1])
  IN  moved[t.cap]

\* The first half of hash_table_set.
WithRoom(t) == IF t.cap = 0 THEN New(InitCap)
               ELSE IF Loaded(t) THEN Rehash(t) ELSE t

Set(k, v) ==
  /\ kind = "dict" /\ tab.ok
  /\ WithRoom(tab).cap <= MaxCap
  /\ tab' = Put(WithRoom(tab), k, v)
  /\ UNCHANGED <<hash, kind>>

\* hash_table_trunc.
Trunc ==
  /\ kind = "dict"
  /\ tab' = [New(tab.cap) EXCEPT !.ok = tab.ok]
  /\ UNCHANGED <<hash, kind>>

\* set_add_impl, with set_rehash: there are no values to copy.
Add(k) ==
  /\ kind = "set" /\ tab.ok
  /\ WithRoom(tab).cap <= MaxCap
  /\ tab' = Put(WithRoom(tab), k, InSet)
  /\ UNCHANGED <<hash, kind>>

Init ==
  /\ hash \in [Key -> Hash]
  /\ kind \in {"dict", "set"}
  /\ tab = New(0)

Next ==
  \/ Trunc
  \/ \E k \in Key : Add(k) \/ \E v \in Val : Set(k, v)

Spec == Init /\ [][Next]_vars

-----------------------------------------------------------------------------
(* Properties *)

\* dict_get, map_get.
Get(k) == IF MatchingInd(tab, k) = {} THEN Nil
          ELSE tab.vals[CHOOSE s \in MatchingInd(tab, k) : TRUE]

\* Whatever the hashes and the order of insertion, growth and truncation, the
\* table is a map: what was set last is what is found, and nothing else.  A set
\* is a map to InSet.
Abstract == INSTANCE Map WITH Val <- Val \cup {InSet}, map <- [k \in Key |-> Get(k)]
IsMap == Abstract!Spec

\* The probes of a key reach every slot of a table, for every capacity up to
\* half of what Ind can hold, although Ind overflows on the way.
ProbesReachAll ==
  \A k \in Key : \A n \in 0 .. Width - 1 :
    {(hash[k] + Probe(i)) % (2 ^ n) : i \in 0 .. 2 ^ n - 1} = 0 .. 2 ^ n - 1

\* The assertions of the code hold, a capacity is a power of two, as modulo2
\* requires, the length counts the entries, and a slot is always left free, so
\* that the probing of hash_table_available_ind ends.
RoomLeft ==
  /\ tab.ok
  /\ tab.cap \in {0} \cup {2 ^ n : n \in 0 .. Width - 1}
  /\ tab.len = Cardinality({s \in Slots(tab) : tab.keys[s] # Nil})
  /\ tab.cap > 0 => tab.len < tab.cap
=============================================================================
