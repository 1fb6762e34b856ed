---------------------------- MODULE ShadowMemory ----------------------------
(***************************************************************************)
(* The shadow memory: bar/dg_bar_shadow.cpp with the layers Lo and Hi, and *)
(* dot/dg_dot_shadow.cpp with a single layer, on top of the tree of leaves *)
(* of the library flexible-shadow.  A leaf shadows LEAF-many consecutive   *)
(* bytes.  Addresses that were never written share the distinguished leaf. *)
(*                                                                         *)
(* Get and Set handle the part of a range that lies in the first leaf and  *)
(* call themselves for the rest.  One step is one such call; variable call *)
(* holds the arguments of the recursive call that comes next.              *)
(***************************************************************************)
EXTENDS Integers, Sequences

CONSTANTS
  Layers,   \* {"Lo", "Hi"} in recording mode, one layer in forward mode
  LEAF,     \* bytes per leaf (2^18, or 2^14 in 32-bit builds)
  LEAVES,   \* bound: number of leaves of the address space
  MaxSize,  \* bound: bytes per request (at most 32 in the code, a V256)
  Byte,     \* values of a shadow byte
  NoLeaf,   \* entry of the tree that points to the distinguished leaf
  Idle      \* no call is in progress

ASSUME ShadowAssumption ==
  /\ LEAF \in Nat \ {0} /\ LEAVES \in Nat
  /\ MaxSize \in Nat
  /\ Byte \subseteq Nat /\ 0 \in Byte

VARIABLES
  leaves,         \* the tree: the leaf of each range of LEAF-many addresses
  distinguished,  \* contents of the distinguished leaf
  call,           \* arguments of the call in progress
  last            \* history: the last Set, or the last Get with its result

vars == <<leaves, distinguished, call, last>>

Address == 0 .. LEAVES * LEAF - 1

\* Contents of a leaf: its bytes, layer by layer.
Leaf == [Layers -> [0 .. LEAF - 1 -> Byte]]

\* The contents of a buffer of the caller.
Bytes == UNION {[1 .. n -> Byte] : n \in 0 .. MaxSize}

\* The buffers of the layers whose pointer is not NULL.
LayerData == UNION {[S -> Bytes] : S \in (SUBSET Layers) \ {{}}}

\* Arguments of a call of Get or Set, req being the range of the first call.
Call == [op : {"Get", "Set"}, addr : Address, size : 1 .. MaxSize,
         data : LayerData, req : [addr : Address, size : 1 .. MaxSize]]

\* The two marks are no leaf and no call.
ASSUME MarkAssumption == NoLeaf \notin Leaf /\ Idle \notin Call

Min(a, b) == IF a <= b THEN a ELSE b

-----------------------------------------------------------------------------
(* The library flexible-shadow.                                            *)

leafNo(addr) == addr \div LEAF

index(addr) == addr % LEAF

\* Bytes from addr to the end of its leaf.
contiguousElements(addr) == LEAF - index(addr)

leaf_for_read(addr) ==
  IF leaves[leafNo(addr)] = NoLeaf THEN distinguished ELSE leaves[leafNo(addr)]

\* Faulty variant: uses leaf_for_read, so unwritten addresses stay together.
StoreSharedLeaf(addr, contents) ==
  IF leaves[leafNo(addr)] = NoLeaf
  THEN distinguished' = contents /\ UNCHANGED leaves
  ELSE /\ leaves' = [leaves EXCEPT ![leafNo(addr)] = contents]
       /\ UNCHANGED distinguished

\* The leaves after leaf_for_write(addr), which copies the distinguished
\* leaf if there is no other, and a store of contents to the leaf.
StoreLeaf(addr, contents) ==
  /\ leaves' = [leaves EXCEPT ![leafNo(addr)] = contents]
  /\ UNCHANGED distinguished

-----------------------------------------------------------------------------
(* A call c of Get or Set.  The domain of c.data are the layers whose      *)
(* pointer is not NULL, with the bytes still to be written or already      *)
(* read; c.req is the range of the first call.                             *)

\* Bytes of the call that lie in the leaf of its address.
Here(c) == Min(contiguousElements(c.addr), c.size)

\* Faulty variant: the size stays as it is.
FollowingSameSize(c, data) ==
  IF contiguousElements(c.addr) >= c.size THEN Idle
  ELSE [c EXCEPT !.addr = @ + contiguousElements(c.addr), !.data = data]

\* The call that follows c: all pointers move on, or the recursion ends.
Following(c, data) ==
  IF contiguousElements(c.addr) >= c.size THEN Idle
  ELSE [c EXCEPT !.addr = @ + contiguousElements(c.addr),
                 !.size = @ - contiguousElements(c.addr),
                 !.data = data]

\* A leaf with the first bytes of the call's data copied to it.
Overwritten(leaf, c) ==
  [l \in Layers |->
     IF l \in DOMAIN c.data
     THEN [i \in 0 .. LEAF - 1 |->
             IF i - index(c.addr) \in 0 .. Here(c) - 1
             THEN c.data[l][i - index(c.addr) + 1] ELSE leaf[l][i]]
     ELSE leaf[l]]

shadowSet(c) ==
  /\ StoreLeaf(c.addr, Overwritten(leaf_for_read(c.addr), c))
  /\ call' = Following(c, [l \in DOMAIN c.data |->
                             SubSeq(c.data[l], Here(c) + 1, Len(c.data[l]))])
  /\ last' = IF call = Idle
             THEN [op |-> "Set", addr |-> c.addr, size |-> c.size, data |-> c.data]
             ELSE last

shadowGet(c) ==
  LET leaf == leaf_for_read(c.addr)
      read == [l \in DOMAIN c.data |->
                 c.data[l] \o [k \in 1 .. Here(c) |-> leaf[l][index(c.addr) + k - 1]]]
  IN
  /\ call' = Following(c, read)
  /\ last' = IF call' = Idle
             THEN [op |-> "Get", addr |-> c.req.addr, size |-> c.req.size, data |-> read]
             ELSE last
  /\ UNCHANGED <<leaves, distinguished>>

\* The first call, made by the rest of Derivgrind.
Request(addr, layers, size) ==
  /\ call = Idle
  /\ \/ shadowGet([op |-> "Get", addr |-> addr, size |-> size,
                   data |-> [l \in layers |-> <<>>],
                   req |-> [addr |-> addr, size |-> size]])
     \/ \E data \in [layers -> [1 .. size -> Byte]] :
          shadowSet([op |-> "Set", addr |-> addr, size |-> size,
                     data |-> data, req |-> [addr |-> addr, size |-> size]])

\* A call that Get or Set makes of itself.
Recursion ==
  /\ call # Idle
  /\ \/ call.op = "Get" /\ shadowGet(call)
     \/ call.op = "Set" /\ shadowSet(call)

Init ==
  /\ leaves = [n \in 0 .. LEAVES - 1 |-> NoLeaf]
  /\ distinguished = [l \in Layers |-> [i \in 0 .. LEAF - 1 |-> 0]]
  /\ call = Idle
  /\ last = [op |-> "None"]

Next ==
  \/ \E addr \in Address, layers \in (SUBSET Layers) \ {{}} :
       \E size \in {n \in 1 .. MaxSize : addr + n - 1 \in Address} :
         Request(addr, layers, size)
  \/ Recursion

Spec == Init /\ [][Next]_vars

-----------------------------------------------------------------------------
(* Properties.                                                             *)

TypeOK ==
  /\ leaves \in [0 .. LEAVES - 1 -> Leaf \cup {NoLeaf}]
  /\ distinguished \in Leaf
  /\ call # Idle => /\ call.op \in {"Get", "Set"}
                    /\ call.size \in 1 .. MaxSize
                    /\ call.addr \in Address
                    /\ call.addr + call.size - 1 \in Address

\* The byte of layer l that the leaves hold for address a.
Held(l, a) == leaf_for_read(a)[l][index(a)]

\* The flat array: what the leaves hold, and what a Set in progress will write.
FlatMem ==
  [l \in Layers |-> [a \in Address |->
     IF call # Idle /\ call.op = "Set" /\ l \in DOMAIN call.data
        /\ a \in call.addr .. call.addr + call.size - 1
     THEN call.data[l][a - call.addr + 1]
     ELSE Held(l, a)]]

Flat == INSTANCE FlatShadow WITH mem <- FlatMem

(***************************************************************************)
(* The tree of leaves with its recursive Get and Set implements the flat   *)
(* array, for ranges across leaves and for requests of one layer too.      *)
(***************************************************************************)
ImplementsFlatShadow == Flat!Spec
=============================================================================
