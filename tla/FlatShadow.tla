----------------------------- MODULE FlatShadow -----------------------------
(***************************************************************************)
(* What the shadow memory promises to the rest of Derivgrind: for every    *)
(* layer one flat array with a shadow byte for each byte of the program's  *)
(* memory, initially zero, from and to which ranges of any alignment are   *)
(* copied in one step, in one layer or in several.                         *)
(***************************************************************************)
EXTENDS Integers, Sequences

CONSTANTS
  Layers,
  Address,
  Byte,
  MaxSize   \* bytes per access

VARIABLES
  mem,   \* the shadow byte of every address in every layer
  last   \* the last access: its kind, address, size, and bytes by layer

\* An access returns or brings exactly as many bytes as it was asked for.
IsAccess(e) ==
  /\ e.op \in {"Get", "Set"}
  /\ e.addr \in Address
  /\ e.size \in 1 .. MaxSize
  /\ DOMAIN e.data \subseteq Layers /\ DOMAIN e.data # {}
  /\ \A l \in DOMAIN e.data : e.data[l] \in [1 .. e.size -> Byte]

\* The byte the access e has for address a of layer l.
Covers(e, l, a) ==
  l \in DOMAIN e.data /\ a - e.addr + 1 \in DOMAIN e.data[l]

ByteOf(e, l, a) == e.data[l][a - e.addr + 1]

Init ==
  /\ mem = [l \in Layers |-> [a \in Address |-> 0]]
  /\ last = [op |-> "None"]

shadowSet ==
  /\ last'.op = "Set"
  /\ mem' = [l \in Layers |-> [a \in Address |->
               IF Covers(last', l, a) THEN ByteOf(last', l, a) ELSE mem[l][a]]]

shadowGet ==
  /\ last'.op = "Get"
  /\ \A l \in Layers, a \in Address :
       Covers(last', l, a) => ByteOf(last', l, a) = mem[l][a]
  /\ UNCHANGED mem

Next == IsAccess(last') /\ (shadowSet \/ shadowGet)

Spec == Init /\ [][Next]_<<mem, last>>
=============================================================================
