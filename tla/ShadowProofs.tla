---------------------------- MODULE ShadowProofs ----------------------------
(***************************************************************************)
(* Proofs about module ShadowMemory, for every leaf size, every number of  *)
(* leaves and layers and requests up to MaxSize bytes: the tree of leaves  *)
(* with its recursive Get and Set implements the flat array of FlatShadow. *)
(***************************************************************************)
EXTENDS ShadowMemory, ModLemmas, SequenceTheorems

-----------------------------------------------------------------------------
(* The inductive invariant.                                                *)

\* A Set in progress still has as many bytes as its range.
SetInProgress ==
  call.op = "Set" => \A l \in DOMAIN call.data : Len(call.data[l]) = call.size

\* A Get in progress has read the memory from its first address to the current.
GetInProgress ==
  call.op = "Get" =>
    /\ call.addr + call.size = call.req.addr + call.req.size
    /\ \A l \in DOMAIN call.data :
         /\ Len(call.data[l]) = call.addr - call.req.addr
         /\ \A k \in 1 .. Len(call.data[l]) :
              call.data[l][k] = Held(l, call.req.addr + k - 1)

ShadowInv ==
  /\ TypeOK
  /\ call # Idle => call \in Call /\ SetInProgress /\ GetInProgress

-----------------------------------------------------------------------------
(* Addresses and leaves.                                                   *)

(* An address lies in a leaf of the tree, at a place of the leaf. *)
LEMMA AddressFacts ==
  ASSUME NEW a \in Address
  PROVE  /\ LEAF \in Nat \ {0} /\ LEAVES \in Nat /\ a \in Nat
         /\ leafNo(a) \in 0 .. LEAVES - 1
         /\ index(a) \in 0 .. LEAF - 1
         /\ contiguousElements(a) \in 1 .. LEAF
<1>1. LEAF \in Nat \ {0} /\ LEAVES \in Nat
  BY ShadowAssumption
<1>2. LEAVES * LEAF \in Nat
  BY <1>1
<1>3. a \in Nat /\ a < LEAVES * LEAF
  BY <1>2 DEF Address
<1>4. leafNo(a) \in 0 .. LEAVES - 1
  BY <1>1, <1>3, DivBelowProduct DEF leafNo
<1>5. index(a) \in 0 .. LEAF - 1
  BY <1>1, <1>3, ModDiv DEF index
<1>6. contiguousElements(a) \in 1 .. LEAF
  BY <1>1, <1>5 DEF contiguousElements
<1>7. QED
  BY <1>1, <1>3, <1>4, <1>5, <1>6

(* Numbers between two addresses are addresses. *)
LEMMA AddressRange ==
  ASSUME NEW a \in Address, NEW b \in Address, NEW x \in Int, a <= x, x <= b
  PROVE  x \in Address
<1>1. LEAVES * LEAF \in Nat
  BY ShadowAssumption
<1>2. QED
  BY <1>1 DEF Address

(***************************************************************************)
(* A call: what every call of Get or Set satisfies, first or recursive.    *)
(***************************************************************************)
IsCall(c) == c \in Call /\ c.addr + c.size - 1 \in Address

\* The call c of Set has a byte for every address of its range.
HasBytes(c) == \A l \in DOMAIN c.data : Len(c.data[l]) = c.size

(* The buffers of a call. *)
LEMMA BufferFacts ==
  ASSUME NEW d \in LayerData
  PROVE  /\ DOMAIN d \subseteq Layers /\ DOMAIN d # {}
         /\ \A l \in DOMAIN d : /\ d[l] \in Seq(Byte)
                                /\ Len(d[l]) \in 0 .. MaxSize
                                /\ d[l] \in [1 .. Len(d[l]) -> Byte]
<1>1. PICK S \in (SUBSET Layers) \ {{}} : d \in [S -> Bytes]
  BY DEF LayerData
<1>2. ASSUME NEW b \in Bytes
      PROVE  b \in Seq(Byte) /\ Len(b) \in 0 .. MaxSize /\ b \in [1 .. Len(b) -> Byte]
  <2>1. PICK n \in 0 .. MaxSize : b \in [1 .. n -> Byte]
    BY DEF Bytes
  <2>2. n \in Nat
    BY ShadowAssumption
  <2>3. QED
    BY <2>1, <2>2
<1>3. QED
  BY <1>1, <1>2

(* The converse: buffers make a call's data. *)
LEMMA BufferType ==
  ASSUME NEW S \in SUBSET Layers, S # {}, NEW d, d = [l \in S |-> d[l]],
         \A l \in S : d[l] \in Seq(Byte) /\ Len(d[l]) <= MaxSize
  PROVE  d \in LayerData /\ DOMAIN d = S
<1>1. ASSUME NEW l \in S PROVE d[l] \in Bytes
  <2>1. d[l] \in [1 .. Len(d[l]) -> Byte] /\ Len(d[l]) \in Nat
    BY LenProperties
  <2>2. Len(d[l]) \in 0 .. MaxSize
    BY <2>1, ShadowAssumption
  <2>3. QED
    BY <2>1, <2>2 DEF Bytes
<1>2. d \in [S -> Bytes]
  BY <1>1
<1>3. S \in (SUBSET Layers) \ {{}}
  OBVIOUS
<1>4. QED
  BY <1>2, <1>3 DEF LayerData

(* The part of a call in its first leaf. *)
LEMMA HereFacts ==
  ASSUME NEW c, IsCall(c)
  PROVE  /\ c.op \in {"Get", "Set"} /\ c.addr \in Address /\ c.size \in 1 .. MaxSize
         /\ c.data \in LayerData /\ MaxSize \in Nat
         /\ c.req \in [addr : Address, size : 1 .. MaxSize]
         /\ Here(c) \in 1 .. c.size /\ Here(c) <= LEAF - index(c.addr)
         /\ contiguousElements(c.addr) >= c.size => Here(c) = c.size
         /\ ~(contiguousElements(c.addr) >= c.size) =>
              Here(c) = contiguousElements(c.addr) /\ Here(c) < c.size
<1>1. /\ c.op \in {"Get", "Set"} /\ c.addr \in Address /\ c.size \in 1 .. MaxSize
      /\ c.data \in LayerData /\ c.req \in [addr : Address, size : 1 .. MaxSize]
  BY DEF IsCall, Call
<1>2. contiguousElements(c.addr) \in 1 .. LEAF /\ LEAF \in Nat /\ MaxSize \in Nat
      /\ index(c.addr) \in Nat
  BY <1>1, AddressFacts, ShadowAssumption
<1>3. QED
  BY <1>1, <1>2 DEF Here, Min, contiguousElements

(* The call that follows c is a call of the rest of its range. *)
LEMMA FollowingFacts ==
  ASSUME NEW c, IsCall(c), NEW d \in LayerData,
         ~(contiguousElements(c.addr) >= c.size)
  PROVE  /\ Following(c, d) \in Call /\ Following(c, d) # Idle
         /\ IsCall(Following(c, d))
         /\ Following(c, d).op = c.op /\ Following(c, d).req = c.req
         /\ Following(c, d).data = d
         /\ Following(c, d).addr = c.addr + Here(c)
         /\ Following(c, d).size = c.size - Here(c)
<1> DEFINE h == Here(c)
           f == [c EXCEPT !.addr = @ + contiguousElements(c.addr),
                          !.size = @ - contiguousElements(c.addr),
                          !.data = d]
<1>1. /\ c.addr \in Address /\ c.size \in 1 .. MaxSize /\ MaxSize \in Nat
      /\ h \in 1 .. c.size /\ h = contiguousElements(c.addr) /\ h < c.size
  BY HereFacts
<1>2. c.addr \in Nat /\ c.addr + c.size - 1 \in Address
  BY <1>1, AddressFacts DEF IsCall
<1>3. f = Following(c, d)
  BY DEF Following
<1> HIDE DEF h
<1>4. /\ c.addr + h \in Int /\ c.addr <= c.addr + h
      /\ c.addr + h <= c.addr + c.size - 1 /\ c.size - h \in 1 .. MaxSize
      /\ (c.addr + h) + (c.size - h) - 1 = c.addr + c.size - 1
  BY <1>1, <1>2
<1>5. c.addr + h \in Address
  BY <1>1, <1>2, <1>4, AddressRange
<1>6. c \in Call
  BY DEF IsCall
<1>7. /\ f.addr = c.addr + h /\ f.size = c.size - h /\ f.data = d
      /\ f.op = c.op /\ f.req = c.req /\ f \in Call
  BY <1>1, <1>4, <1>5, <1>6 DEF Call
<1>8. f # Idle
  BY <1>7, MarkAssumption
<1> HIDE DEF f
<1>9. IsCall(f)
  BY <1>2, <1>4, <1>7 DEF IsCall
<1>10. QED
  BY <1>3, <1>7, <1>8, <1>9 DEF h

-----------------------------------------------------------------------------
(* What one call does to the memory.                                       *)

\* The tree and the distinguished leaf have their types.
TreeOK ==
  /\ leaves \in [0 .. LEAVES - 1 -> Leaf \cup {NoLeaf}]
  /\ distinguished \in Leaf

(* Reading always finds a leaf, whose bytes are bytes. *)
LEMMA ReadLeaf ==
  ASSUME TreeOK, NEW a \in Address
  PROVE  /\ leaf_for_read(a) \in Leaf
         /\ \A l \in Layers : Held(l, a) \in Byte
<1>1. leafNo(a) \in 0 .. LEAVES - 1 /\ index(a) \in 0 .. LEAF - 1
  BY AddressFacts
<1>2. leaf_for_read(a) \in Leaf
  BY <1>1 DEF leaf_for_read, TreeOK
<1>3. QED
  BY <1>1, <1>2 DEF Held, Leaf

(* A leaf that the first bytes of a call have been copied to is a leaf. *)
LEMMA OverwrittenType ==
  ASSUME NEW c, IsCall(c), HasBytes(c), NEW leaf \in Leaf
  PROVE  Overwritten(leaf, c) \in Leaf
<1>1. /\ Here(c) \in 1 .. c.size /\ c.size \in Nat /\ c.data \in LayerData
      /\ index(c.addr) \in Nat /\ LEAF \in Nat
  BY HereFacts, AddressFacts
<1>2. ASSUME NEW l \in Layers, l \in DOMAIN c.data, NEW i \in 0 .. LEAF - 1,
             i - index(c.addr) \in 0 .. Here(c) - 1
      PROVE  c.data[l][i - index(c.addr) + 1] \in Byte
  <2>1. c.data[l] \in [1 .. c.size -> Byte]
    BY <1>1, <1>2, BufferFacts DEF HasBytes
  <2>2. i - index(c.addr) + 1 \in 1 .. c.size
    BY <1>1, <1>2
  <2>3. QED
    BY <2>1, <2>2
<1>3. ASSUME NEW l \in Layers PROVE Overwritten(leaf, c)[l] \in [0 .. LEAF - 1 -> Byte]
  BY <1>2, <1>3 DEF Overwritten, Leaf
<1>4. QED
  BY <1>3 DEF Overwritten, Leaf

(* After a store the memory has the bytes of the call in its first leaf    *)
(* and is what it was everywhere else, in the other layers, too.           *)
LEMMA StoreEffect ==
  ASSUME TreeOK, NEW c, IsCall(c), HasBytes(c),
         StoreLeaf(c.addr, Overwritten(leaf_for_read(c.addr), c))
  PROVE  /\ TreeOK'
         /\ \A l \in Layers, a \in Address :
              Held(l, a)' = IF /\ l \in DOMAIN c.data
                               /\ a \in c.addr .. c.addr + Here(c) - 1
                            THEN c.data[l][a - c.addr + 1] ELSE Held(l, a)
<1> DEFINE m == leafNo(c.addr)
           old == leaf_for_read(c.addr)
           new == Overwritten(old, c)
<1>1. /\ c.addr \in Address /\ c.addr \in Nat /\ Here(c) \in Nat
      /\ Here(c) <= LEAF - index(c.addr)
      /\ m \in 0 .. LEAVES - 1 /\ LEAF \in Nat \ {0} /\ index(c.addr) \in Nat
  BY HereFacts, AddressFacts
<1>2. old \in Leaf /\ new \in Leaf
  BY <1>1, ReadLeaf, OverwrittenType
<1>3. leaves' = [leaves EXCEPT ![m] = new] /\ distinguished' = distinguished
  BY DEF StoreLeaf
<1>4. TreeOK'
  BY <1>1, <1>2, <1>3 DEF TreeOK, Leaf
<1>5. ASSUME NEW l \in Layers, NEW a \in Address, leafNo(a) # m
      PROVE  Held(l, a)' = Held(l, a) /\ a \notin c.addr .. c.addr + Here(c) - 1
  <2>1. leafNo(a) \in 0 .. LEAVES - 1 /\ a \in Nat
    BY AddressFacts
  <2>2. leaves'[leafNo(a)] = leaves[leafNo(a)]
    BY <1>3, <1>5, <2>1 DEF TreeOK
  <2>3. Held(l, a)' = Held(l, a)
    BY <1>3, <2>2 DEF Held, leaf_for_read, leafNo, index
  <2>4. ASSUME a \in c.addr .. c.addr + Here(c) - 1 PROVE FALSE
    <3>1. a - c.addr \in Nat /\ a - c.addr < LEAF - index(c.addr)
      BY <1>1, <2>1, <2>4
    <3>2. (c.addr + (a - c.addr)) \div LEAF = c.addr \div LEAF
      BY <1>1, <3>1, SameQuotient DEF index
    <3>3. c.addr + (a - c.addr) = a
      BY <1>1, <2>1
    <3>4. QED
      BY <1>5, <3>2, <3>3 DEF leafNo
  <2>5. QED
    BY <2>3, <2>4
<1>6. ASSUME NEW l \in Layers, NEW a \in Address, leafNo(a) = m
      PROVE  Held(l, a)' = IF /\ l \in DOMAIN c.data
                              /\ a \in c.addr .. c.addr + Here(c) - 1
                           THEN c.data[l][a - c.addr + 1] ELSE Held(l, a)
  <2>1. index(a) \in 0 .. LEAF - 1 /\ a \in Nat
    BY AddressFacts
  <2>2. index(a) - index(c.addr) = a - c.addr
    BY <1>1, <1>6, <2>1, OffsetDifference DEF leafNo, index
  <2>3. leaves'[m] = new /\ new # NoLeaf
    BY <1>1, <1>2, <1>3, MarkAssumption DEF TreeOK
  <2>4. Held(l, a)' = new[l][index(a)]
    BY <1>6, <2>3 DEF Held, leaf_for_read, leafNo, index
  <2>5. Held(l, a) = old[l][index(a)]
    BY <1>6 DEF Held, leaf_for_read
  <2>6. index(a) - index(c.addr) \in 0 .. Here(c) - 1
          <=> a \in c.addr .. c.addr + Here(c) - 1
    BY <1>1, <2>1, <2>2
  <2>7. new[l][index(a)] = IF /\ l \in DOMAIN c.data
                              /\ index(a) - index(c.addr) \in 0 .. Here(c) - 1
                           THEN c.data[l][index(a) - index(c.addr) + 1]
                           ELSE old[l][index(a)]
    <3> HIDE DEF old
    <3>1. QED
      BY <2>1 DEF Overwritten
  <2>8. QED
    BY <2>2, <2>4, <2>5, <2>6, <2>7
<1>7. QED
  BY <1>4, <1>5, <1>6

\* The memory once the call c of Set is done, if the leaves hold h(l, a).
Written(c, l, a, h) ==
  IF l \in DOMAIN c.data /\ a \in c.addr .. c.addr + c.size - 1
  THEN c.data[l][a - c.addr + 1] ELSE h

(* One call of Set: the leaves and the bytes that still have to be written *)
(* together make the memory that the whole call leaves behind.             *)
LEMMA SetEffect ==
  ASSUME TreeOK, NEW c, IsCall(c), HasBytes(c), c.op = "Set", shadowSet(c)
  PROVE  /\ TreeOK'
         /\ call' # Idle => IsCall(call') /\ HasBytes(call') /\ call'.op = "Set"
         /\ FlatMem' = [l \in Layers |-> [a \in Address |->
                          Written(c, l, a, Held(l, a))]]
<1> DEFINE h == Here(c)
           rest == [l \in DOMAIN c.data |->
                      SubSeq(c.data[l], h + 1, Len(c.data[l]))]
<1>1. /\ c.addr \in Address /\ c.addr \in Nat /\ c.size \in 1 .. MaxSize
      /\ MaxSize \in Nat /\ c.data \in LayerData /\ h \in 1 .. c.size
  BY HereFacts, AddressFacts
<1>2. /\ TreeOK'
      /\ \A l \in Layers, a \in Address :
           Held(l, a)' = IF l \in DOMAIN c.data /\ a \in c.addr .. c.addr + h - 1
                         THEN c.data[l][a - c.addr + 1] ELSE Held(l, a)
  BY StoreEffect DEF shadowSet
<1>3. call' = Following(c, rest)
  BY DEF shadowSet
<1>4. ASSUME NEW l \in DOMAIN c.data
      PROVE  /\ rest[l] \in Seq(Byte) /\ Len(rest[l]) = c.size - h
             /\ \A k \in 1 .. c.size - h : rest[l][k] = c.data[l][k + h]
  <2>1. c.data[l] \in Seq(Byte) /\ Len(c.data[l]) = c.size
    BY <1>1, BufferFacts DEF HasBytes
  <2>2. h + 1 \in 1 .. c.size + 1 /\ c.size \in h .. c.size
    BY <1>1
  <2>3. rest[l] = SubSeq(c.data[l], h + 1, c.size)
    BY <2>1
  <2> HIDE DEF rest, h
  <2>4. /\ SubSeq(c.data[l], h + 1, c.size) \in Seq(Byte)
        /\ Len(SubSeq(c.data[l], h + 1, c.size)) = c.size - h
        /\ \A k \in 1 .. c.size - h :
             SubSeq(c.data[l], h + 1, c.size)[k] = c.data[l][k + h]
    <3> DEFINE d == c.data[l]
               n == c.size
    <3>1. /\ d \in Seq(Byte) /\ h \in Int /\ n \in Int /\ h + 1 \in 1 .. Len(d) + 1
          /\ n \in (h + 1) - 1 .. Len(d) /\ n - (h + 1) + 1 = n - h
      BY <1>1, <2>1, <2>2, SMTT(40)
    <3> HIDE DEF d, n
    <3>2. /\ SubSeq(d, h + 1, n) \in Seq(Byte) /\ Len(SubSeq(d, h + 1, n)) = n - h
          /\ \A k \in 1 .. n - h : SubSeq(d, h + 1, n)[k] = d[(h + 1) + k - 1]
      BY <3>1, SubSeqProperties
    <3>3. \A k \in 1 .. n - h : (h + 1) + k - 1 = k + h
      BY <3>1
    <3>4. QED
      BY <3>2, <3>3 DEF d, n
  <2>5. QED
    BY <2>3, <2>4
<1>5. rest \in LayerData /\ DOMAIN rest = DOMAIN c.data
  <2>1. DOMAIN c.data \in SUBSET Layers /\ DOMAIN c.data # {}
    BY <1>1, BufferFacts
  <2>2. rest = [l \in DOMAIN c.data |-> rest[l]]
    OBVIOUS
  <2> HIDE DEF rest, h
  <2>3. \A l \in DOMAIN c.data : rest[l] \in Seq(Byte) /\ Len(rest[l]) <= MaxSize
    BY <1>1, <1>4
  <2>4. QED
    BY <2>1, <2>2, <2>3, BufferType
<1> HIDE DEF rest
<1>6. CASE contiguousElements(c.addr) >= c.size
  <2>1. call' = Idle /\ h = c.size
    BY <1>3, <1>6, HereFacts DEF Following
  <2>2. ASSUME NEW l \in Layers, NEW a \in Address
        PROVE  FlatMem'[l][a] = Written(c, l, a, Held(l, a))
    BY <1>2, <2>1 DEF FlatMem, Written
  <2>3. QED
    BY <1>2, <2>1, <2>2 DEF FlatMem
<1>7. CASE ~(contiguousElements(c.addr) >= c.size)
  <2>1. /\ call' # Idle /\ IsCall(call') /\ call'.op = "Set" /\ call'.data = rest
        /\ call'.addr = c.addr + h /\ call'.size = c.size - h /\ h < c.size
    BY <1>3, <1>5, <1>7, FollowingFacts, HereFacts
  <2>2. HasBytes(call')
    BY <1>4, <1>5, <2>1 DEF HasBytes
  <2>3. ASSUME NEW l \in Layers, NEW a \in Address
        PROVE  FlatMem'[l][a] = Written(c, l, a, Held(l, a))
    <3>0. a \in Nat
      BY AddressFacts
    <3>1. FlatMem'[l][a] = IF /\ l \in DOMAIN rest
                              /\ a \in call'.addr .. call'.addr + call'.size - 1
                           THEN rest[l][a - call'.addr + 1] ELSE Held(l, a)'
      BY <2>1 DEF FlatMem
    <3>2. call'.addr + call'.size - 1 = c.addr + c.size - 1
      BY <1>1, <2>1
    <3>3. CASE l \in DOMAIN c.data /\ a \in c.addr + h .. c.addr + c.size - 1
      <4>1. a - (c.addr + h) + 1 \in 1 .. c.size - h
            /\ (a - (c.addr + h) + 1) + h = a - c.addr + 1
            /\ a \in c.addr .. c.addr + c.size - 1
        BY <1>1, <3>0, <3>3
      <4>2. rest[l][a - (c.addr + h) + 1] = c.data[l][a - c.addr + 1]
        BY <1>4, <3>3, <4>1
      <4>3. QED
        BY <1>5, <2>1, <3>1, <3>2, <3>3, <4>1, <4>2 DEF Written
    <3>4. CASE ~(l \in DOMAIN c.data /\ a \in c.addr + h .. c.addr + c.size - 1)
      <4>1. FlatMem'[l][a] = Held(l, a)'
        BY <1>5, <2>1, <3>1, <3>2, <3>4
      <4>2. l \in DOMAIN c.data =>
              (a \in c.addr .. c.addr + h - 1 <=> a \in c.addr .. c.addr + c.size - 1)
        BY <1>1, <3>0, <3>4
      <4>3. QED
        BY <1>2, <4>1, <4>2 DEF Written
    <3>5. QED
      BY <3>3, <3>4
  <2>4. QED
    BY <1>2, <2>1, <2>2, <2>3 DEF FlatMem
<1>8. QED
  BY <1>6, <1>7

\* What the call c of Get has read so far is what the leaves hold.
HasRead(c) ==
  /\ c.addr + c.size = c.req.addr + c.req.size
  /\ \A l \in DOMAIN c.data :
       /\ Len(c.data[l]) = c.addr - c.req.addr
       /\ \A k \in 1 .. Len(c.data[l]) : c.data[l][k] = Held(l, c.req.addr + k - 1)

\* The buffers d hold the memory of the n bytes from address a.
Reads(d, a, n) ==
  \A l \in DOMAIN d : /\ d[l] \in [1 .. n -> Byte]
                      /\ \A k \in 1 .. n : d[l][k] = Held(l, a + k - 1)

(* One call of Get appends the bytes of its first leaf to what has been    *)
(* read, and answers the request when nothing is left to be read.          *)
LEMMA GetEffect ==
  ASSUME TreeOK, NEW c, IsCall(c), HasRead(c), c.op = "Get", shadowGet(c)
  PROVE  /\ UNCHANGED <<leaves, distinguished>>
         /\ call' # Idle => /\ IsCall(call') /\ HasRead(call') /\ call'.op = "Get"
                            /\ last' = last
         /\ call' = Idle => \E d \in LayerData :
              /\ Reads(d, c.req.addr, c.req.size)
              /\ last' = [op |-> "Get", addr |-> c.req.addr, size |-> c.req.size,
                          data |-> d]
<1> DEFINE h == Here(c)
           leaf == leaf_for_read(c.addr)
           part(l) == [k \in 1 .. h |-> leaf[l][index(c.addr) + k - 1]]
           read == [l \in DOMAIN c.data |-> c.data[l] \o part(l)]
           n == c.addr + h - c.req.addr
<1>1. /\ c.addr \in Address /\ c.addr \in Nat /\ c.size \in 1 .. MaxSize
      /\ MaxSize \in Nat /\ c.data \in LayerData /\ h \in 1 .. c.size
      /\ h <= LEAF - index(c.addr) /\ index(c.addr) \in Nat /\ LEAF \in Nat \ {0}
      /\ c.req.addr \in Address /\ c.req.addr \in Nat /\ c.req.size \in 1 .. MaxSize
      /\ DOMAIN c.data \in SUBSET Layers /\ DOMAIN c.data # {}
      /\ c.addr + c.size = c.req.addr + c.req.size
      /\ c.addr + c.size - 1 \in Address
  <2>1. /\ c.addr \in Address /\ c.data \in LayerData /\ c.size \in 1 .. MaxSize
        /\ c.req \in [addr : Address, size : 1 .. MaxSize]
    BY HereFacts
  <2>2. /\ h \in 1 .. c.size /\ h <= LEAF - index(c.addr) /\ MaxSize \in Nat
    BY HereFacts
  <2>3. c.req.addr \in Address /\ c.req.size \in 1 .. MaxSize
    BY <2>1
  <2>4. /\ c.addr \in Nat /\ index(c.addr) \in Nat /\ LEAF \in Nat \ {0}
        /\ c.req.addr \in Nat
    BY <2>1, <2>3, AddressFacts
  <2>5. DOMAIN c.data \in SUBSET Layers /\ DOMAIN c.data # {}
    BY <2>1, BufferFacts
  <2>6. QED
    BY <2>1, <2>2, <2>3, <2>4, <2>5 DEF HasRead, IsCall
<1>2. /\ call' = Following(c, read) /\ UNCHANGED <<leaves, distinguished>>
      /\ last' = IF call' = Idle
                 THEN [op |-> "Get", addr |-> c.req.addr, size |-> c.req.size,
                       data |-> read]
                 ELSE last
  BY DEF shadowGet
<1>3. ASSUME NEW l \in DOMAIN c.data, NEW k \in 1 .. h
      PROVE  part(l)[k] = Held(l, c.addr + k - 1) /\ part(l)[k] \in Byte
  <2>1. k - 1 \in Nat /\ k - 1 < LEAF - index(c.addr)
    BY <1>1
  <2>2. /\ (c.addr + (k - 1)) \div LEAF = c.addr \div LEAF
        /\ (c.addr + (k - 1)) % LEAF = (c.addr % LEAF) + (k - 1)
    BY <1>1, <2>1, SameQuotient DEF index
  <2>3. c.addr + (k - 1) = c.addr + k - 1 /\ index(c.addr) + (k - 1) = index(c.addr) + k - 1
    BY <1>1
  <2>4. leafNo(c.addr + k - 1) = leafNo(c.addr) /\ index(c.addr + k - 1) = index(c.addr) + k - 1
    BY <2>2, <2>3 DEF leafNo, index
  <2>5. c.addr + k - 1 \in Address
    BY <1>1, AddressRange
  <2>6. l \in Layers
    BY <1>1
  <2>7. part(l)[k] = leaf[l][index(c.addr) + k - 1]
    OBVIOUS
  <2> HIDE DEF part
  <2>8. part(l)[k] = Held(l, c.addr + k - 1)
    BY <2>4, <2>7 DEF Held, leaf_for_read
  <2>9. QED
    BY <2>5, <2>6, <2>8, ReadLeaf
<1>4. ASSUME NEW l \in DOMAIN c.data
      PROVE  part(l) \in Seq(Byte) /\ Len(part(l)) = h
  <2>1. part(l) \in [1 .. h -> Byte] /\ h \in Nat
    <3>1. part(l) = [k \in 1 .. h |-> part(l)[k]]
      OBVIOUS
    <3> HIDE DEF part, h
    <3>2. QED
      BY <1>1, <1>3, <3>1, SMTT(40)
  <2> HIDE DEF part, h
  <2>2. QED
    BY <2>1
<1>5. ASSUME NEW l \in DOMAIN c.data
      PROVE  /\ read[l] \in Seq(Byte) /\ Len(read[l]) = n /\ n \in 0 .. MaxSize
             /\ \A k \in 1 .. n : read[l][k] = Held(l, c.req.addr + k - 1)
  <2> DEFINE d == c.data[l]
             p == part(l)
  <2>1. /\ d \in Seq(Byte) /\ Len(d) = c.addr - c.req.addr
        /\ \A k \in 1 .. Len(d) : d[k] = Held(l, c.req.addr + k - 1)
    BY <1>1, BufferFacts DEF HasRead
  <2>2. p \in Seq(Byte) /\ Len(p) = h /\ \A k \in 1 .. h : p[k] = Held(l, c.addr + k - 1)
    <3> HIDE DEF part
    <3>1. QED
      BY <1>3, <1>4
  <2>3. read[l] = d \o p
    OBVIOUS
  <2>4. Len(d) \in Nat /\ Len(d) + h = n /\ n \in 0 .. MaxSize
    <3>1. Len(d) \in Nat
      BY <2>1, LenProperties
    <3> HIDE DEF d, p, read, h
    <3>0. h \in Int /\ c.addr \in Int /\ c.req.addr \in Int
      BY <1>1
    <3>b. Len(d) = c.addr - c.req.addr
      BY <2>1
    <3>2. Len(d) + h = n
      BY ONLY <3>0, <3>b
    <3>3. n <= c.req.size
      BY <1>1
    <3>a. h \in Nat /\ n \in Int /\ c.req.size <= MaxSize /\ c.req.size \in Nat
          /\ MaxSize \in Nat
      BY <1>1
    <3>4. n \in 0 .. MaxSize
      <4> HIDE DEF n
      <4>1. QED
        BY ONLY <3>a, <3>1, <3>2, <3>3
    <3>5. QED
      BY <3>1, <3>2, <3>4
  <2> HIDE DEF d, p, h, n, read
  <2>5. /\ d \o p \in Seq(Byte) /\ Len(d \o p) = Len(d) + h
        /\ \A k \in 1 .. Len(d) + h :
             (d \o p)[k] = IF k <= Len(d) THEN d[k] ELSE p[k - Len(d)]
    BY <2>1, <2>2, ConcatProperties
  <2>6. ASSUME NEW k \in 1 .. n PROVE read[l][k] = Held(l, c.req.addr + k - 1)
    <3>1. CASE k <= Len(d)
      <4>1. k \in 1 .. Len(d)
        BY <2>4, <3>1
      <4>2. QED
        BY <2>1, <2>3, <2>4, <2>5, <3>1, <4>1
    <3>2. CASE ~(k <= Len(d))
      <4>0. h \in Nat /\ n \in Nat /\ c.addr \in Nat /\ c.req.addr \in Nat
        BY <1>1, <2>4 DEF n
      <4>1. k - Len(d) \in 1 .. h /\ c.addr + (k - Len(d)) - 1 = c.req.addr + k - 1
        BY ONLY <4>0, <2>1, <2>4, <3>2, k \in 1 .. n, SMTT(40)
      <4>2. read[l][k] = p[k - Len(d)]
        BY <2>3, <2>4, <2>5, <3>2
      <4>3. QED
        BY <2>2, <4>1, <4>2
    <3>3. QED
      BY <3>1, <3>2
  <2>7. QED
    BY <2>3, <2>4, <2>5, <2>6
<1>6. read \in LayerData /\ DOMAIN read = DOMAIN c.data
  <2>1. read = [l \in DOMAIN c.data |-> read[l]]
    OBVIOUS
  <2> HIDE DEF read, n
  <2>2. \A l \in DOMAIN c.data : read[l] \in Seq(Byte) /\ Len(read[l]) <= MaxSize
    BY <1>1, <1>5, SMTT(40)
  <2>3. QED
    BY <1>1, <2>1, <2>2, BufferType
<1> HIDE DEF read
<1>7. CASE contiguousElements(c.addr) >= c.size
  <2>1. call' = Idle /\ h = c.size
    BY <1>2, <1>7, HereFacts DEF Following
  <2>2. n = c.req.size
    BY <1>1, <2>1
  <2> HIDE DEF n
  <2>3. \A l \in DOMAIN read : read[l] \in [1 .. Len(read[l]) -> Byte]
    BY <1>6, BufferFacts
  <2>4. Reads(read, c.req.addr, c.req.size)
    BY <1>5, <1>6, <2>2, <2>3 DEF Reads
  <2>5. QED
    BY <1>2, <1>6, <2>1, <2>4
<1>8. CASE ~(contiguousElements(c.addr) >= c.size)
  <2>1. /\ call' # Idle /\ IsCall(call') /\ call'.op = "Get" /\ call'.data = read
        /\ call'.addr = c.addr + h /\ call'.size = c.size - h /\ call'.req = c.req
    BY <1>2, <1>6, <1>8, FollowingFacts
  <2>2. /\ call'.addr + call'.size = call'.req.addr + call'.req.size
        /\ n = call'.addr - call'.req.addr
    BY <1>1, <2>1
  <2> HIDE DEF n
  <2>3. HasRead(call')
    BY <1>5, <1>6, <2>1, <2>2 DEF HasRead
  <2>4. QED
    BY <1>2, <2>1, <2>3
<1>9. QED
  BY <1>7, <1>8

-----------------------------------------------------------------------------
(* The refinement.                                                         *)

\* A step of the flat array, or one that changes nothing of it.
FlatStep == [Flat!Next]_<<FlatMem, last>>

(* Without a Set in progress the flat array is what the leaves hold. *)
LEMMA FlatIsHeld ==
  ASSUME call = Idle \/ call.op = "Get"
  PROVE  FlatMem = [l \in Layers |-> [a \in Address |-> Held(l, a)]]
  BY DEF FlatMem

(* The same after the step. *)
LEMMA FlatIsHeldAfter ==
  ASSUME call' = Idle \/ call'.op = "Get", UNCHANGED <<leaves, distinguished>>
  PROVE  FlatMem' = [l \in Layers |-> [a \in Address |-> Held(l, a)]]
  BY DEF FlatMem, Held, leaf_for_read, leafNo, index

(* The invariant after a step, from what is known about the call to come. *)
LEMMA InvAfter ==
  ASSUME TreeOK',
         call' # Idle => /\ IsCall(call')
                         /\ \/ call'.op = "Set" /\ HasBytes(call')
                            \/ /\ call'.op = "Get" /\ HasRead(call')
                               /\ UNCHANGED <<leaves, distinguished>>
  PROVE  ShadowInv'
<1>1. ASSUME call' # Idle
      PROVE  /\ call'.op \in {"Get", "Set"} /\ call'.size \in 1 .. MaxSize
             /\ call'.addr \in Address /\ call'.addr + call'.size - 1 \in Address
             /\ call' \in Call
  BY <1>1 DEF IsCall, Call
<1>2. TypeOK'
  BY <1>1 DEF TypeOK, TreeOK, Leaf, Address
<1>3. ASSUME call' # Idle, call'.op = "Set", HasBytes(call')
      PROVE  SetInProgress' /\ GetInProgress'
  BY <1>3 DEF SetInProgress, GetInProgress, HasBytes
<1>4. ASSUME call' # Idle, call'.op = "Get", HasRead(call'),
             UNCHANGED <<leaves, distinguished>>
      PROVE  SetInProgress' /\ GetInProgress'
  BY <1>4 DEF SetInProgress, GetInProgress, HasRead, Held, leaf_for_read, leafNo, index
<1>5. QED
  BY <1>1, <1>2, <1>3, <1>4 DEF ShadowInv, Call, LayerData, Bytes, Address

(* A call of Get, the first or a later one. *)
LEMMA GetStep ==
  ASSUME TreeOK, NEW c, IsCall(c), HasRead(c), c.op = "Get", shadowGet(c),
         call = Idle \/ call.op = "Get"
  PROVE  ShadowInv' /\ FlatStep
<1>1. /\ UNCHANGED <<leaves, distinguished>>
      /\ call' # Idle => /\ IsCall(call') /\ HasRead(call') /\ call'.op = "Get"
                         /\ last' = last
      /\ call' = Idle => \E d \in LayerData :
           /\ Reads(d, c.req.addr, c.req.size)
           /\ last' = [op |-> "Get", addr |-> c.req.addr, size |-> c.req.size,
                       data |-> d]
  BY GetEffect
<1>2. ShadowInv'
  <2>1. TreeOK'
    BY <1>1 DEF TreeOK, Leaf
  <2>2. QED
    BY <1>1, <2>1, InvAfter
<1>3. FlatMem' = FlatMem /\ FlatMem = [l \in Layers |-> [a \in Address |-> Held(l, a)]]
  BY <1>1, FlatIsHeld, FlatIsHeldAfter
<1>4. CASE call' # Idle
  BY <1>1, <1>2, <1>3, <1>4 DEF FlatStep
<1>5. CASE call' = Idle
  <2>1. PICK d \in LayerData :
          /\ Reads(d, c.req.addr, c.req.size)
          /\ last' = [op |-> "Get", addr |-> c.req.addr, size |-> c.req.size, data |-> d]
    BY <1>1, <1>5
  <2> DEFINE addr == c.req.addr
             size == c.req.size
  <2>2. addr \in Address /\ size \in 1 .. MaxSize /\ MaxSize \in Nat /\ addr \in Nat
    <3>1. c.req \in [addr : Address, size : 1 .. MaxSize] /\ MaxSize \in Nat
      BY HereFacts
    <3>2. QED
      BY <3>1, AddressFacts
  <2>3. DOMAIN d \subseteq Layers /\ DOMAIN d # {}
    BY BufferFacts
  <2>4. last'.op = "Get" /\ last'.addr = addr /\ last'.size = size /\ last'.data = d
    BY <2>1
  <2> HIDE DEF addr, size
  <2>5. \A l \in DOMAIN d : /\ d[l] \in [1 .. size -> Byte]
                            /\ \A k \in 1 .. size : d[l][k] = Held(l, addr + k - 1)
    BY <2>1 DEF Reads, addr, size
  <2>6. Flat!IsAccess(last')
    BY <2>2, <2>3, <2>4, <2>5 DEF Flat!IsAccess
  <2>7. ASSUME NEW l \in Layers, NEW a \in Address, Flat!Covers(last', l, a)
        PROVE  Flat!ByteOf(last', l, a) = FlatMem[l][a]
    <3>1. l \in DOMAIN d /\ a - addr + 1 \in 1 .. size /\ a \in Nat
      BY <2>4, <2>5, <2>7, AddressFacts DEF Flat!Covers
    <3>2. addr + (a - addr + 1) - 1 = a
      BY <2>2, <3>1
    <3>3. d[l][a - addr + 1] = Held(l, a)
      BY <2>5, <3>1, <3>2
    <3>4. QED
      BY <1>3, <2>4, <3>3 DEF Flat!ByteOf
  <2>8. Flat!Next
    BY <1>3, <2>4, <2>6, <2>7 DEF Flat!Next, Flat!shadowGet
  <2>9. QED
    BY <1>2, <2>8 DEF FlatStep
<1>6. QED
  BY <1>4, <1>5

(* The first call of Set writes the flat array in one step ... *)
LEMMA SetFirst ==
  ASSUME TreeOK, call = Idle, NEW c, IsCall(c), HasBytes(c), c.op = "Set", shadowSet(c)
  PROVE  ShadowInv' /\ FlatStep
<1>1. /\ TreeOK'
      /\ call' # Idle => IsCall(call') /\ HasBytes(call') /\ call'.op = "Set"
      /\ FlatMem' = [l \in Layers |-> [a \in Address |-> Written(c, l, a, Held(l, a))]]
  BY SetEffect
<1>2. ShadowInv'
  BY <1>1, InvAfter
<1>3. FlatMem = [l \in Layers |-> [a \in Address |-> Held(l, a)]]
  BY FlatIsHeld
<1>4. last' = [op |-> "Set", addr |-> c.addr, size |-> c.size, data |-> c.data]
  BY DEF shadowSet
<1>5. /\ c.addr \in Address /\ c.size \in 1 .. MaxSize /\ MaxSize \in Nat
      /\ c.addr \in Nat /\ c.data \in LayerData
  BY HereFacts, AddressFacts
<1>6. /\ DOMAIN c.data \subseteq Layers /\ DOMAIN c.data # {}
      /\ \A l \in DOMAIN c.data : c.data[l] \in [1 .. c.size -> Byte]
  BY <1>5, BufferFacts DEF HasBytes
<1>7. Flat!IsAccess(last')
  BY <1>4, <1>5, <1>6 DEF Flat!IsAccess
<1>8. ASSUME NEW l \in Layers, NEW a \in Address
      PROVE  Written(c, l, a, Held(l, a)) =
               IF Flat!Covers(last', l, a) THEN Flat!ByteOf(last', l, a) ELSE FlatMem[l][a]
  <2>1. a \in Nat
    BY AddressFacts
  <2>2. a - c.addr + 1 \in 1 .. c.size <=> a \in c.addr .. c.addr + c.size - 1
    BY <1>5, <2>1
  <2>3. Flat!Covers(last', l, a) <=>
          l \in DOMAIN c.data /\ a \in c.addr .. c.addr + c.size - 1
    BY <1>4, <1>6, <2>2 DEF Flat!Covers
  <2>4. QED
    BY <1>3, <1>4, <2>3 DEF Flat!ByteOf, Written
<1>9. Flat!shadowSet
  BY <1>1, <1>4, <1>8 DEF Flat!shadowSet
<1>10. QED
  BY <1>2, <1>7, <1>9 DEF FlatStep, Flat!Next

(* ... and the later ones leave it as it is. *)
LEMMA SetLater ==
  ASSUME TreeOK, call # Idle, IsCall(call), HasBytes(call), call.op = "Set",
         shadowSet(call)
  PROVE  ShadowInv' /\ FlatStep
<1>1. /\ TreeOK'
      /\ call' # Idle => IsCall(call') /\ HasBytes(call') /\ call'.op = "Set"
      /\ FlatMem' = [l \in Layers |-> [a \in Address |->
                       Written(call, l, a, Held(l, a))]]
  BY SetEffect
<1>2. ShadowInv'
  BY <1>1, InvAfter
<1>3. FlatMem = [l \in Layers |-> [a \in Address |-> Written(call, l, a, Held(l, a))]]
  BY DEF FlatMem, Written
<1>4. last' = last
  BY DEF shadowSet
<1>5. QED
  BY <1>1, <1>2, <1>3, <1>4 DEF FlatStep

(* A request of the rest of Derivgrind starts with a call. *)
LEMMA RequestStep ==
  ASSUME TreeOK, NEW addr \in Address, NEW layers \in (SUBSET Layers) \ {{}},
         NEW size \in 1 .. MaxSize, addr + size - 1 \in Address,
         Request(addr, layers, size)
  PROVE  ShadowInv' /\ FlatStep
<1>0. call = Idle /\ MaxSize \in Nat /\ addr \in Nat /\ size \in Nat
  BY ShadowAssumption, AddressFacts DEF Request
<1> DEFINE none == [l \in layers |-> <<>>]
           g == [op |-> "Get", addr |-> addr, size |-> size, data |-> none,
                 req |-> [addr |-> addr, size |-> size]]
<1>1. CASE shadowGet(g)
  <2>1. none \in LayerData /\ DOMAIN none = layers
    <3>1. none = [l \in layers |-> none[l]]
      OBVIOUS
    <3>2. \A l \in layers : none[l] \in Seq(Byte) /\ Len(none[l]) <= MaxSize
      BY <1>0
    <3> HIDE DEF none
    <3>3. QED
      BY <3>1, <3>2, BufferType
  <2>2. IsCall(g)
    <3> HIDE DEF none
    <3>1. QED
      BY <2>1 DEF IsCall, Call
  <2>3. HasRead(g)
    BY <1>0, <2>1 DEF HasRead
  <2>4. g.op = "Get"
    OBVIOUS
  <2> HIDE DEF g
  <2>5. QED
    BY <1>0, <1>1, <2>2, <2>3, <2>4, GetStep
<1>2. ASSUME NEW data \in [layers -> [1 .. size -> Byte]],
             shadowSet([op |-> "Set", addr |-> addr, size |-> size, data |-> data,
                        req |-> [addr |-> addr, size |-> size]])
      PROVE  ShadowInv' /\ FlatStep
  <2> DEFINE c == [op |-> "Set", addr |-> addr, size |-> size, data |-> data,
                   req |-> [addr |-> addr, size |-> size]]
  <2>1. \A l \in layers : data[l] \in Seq(Byte) /\ Len(data[l]) = size
    BY <1>0
  <2>2. data \in LayerData /\ DOMAIN data = layers
    <3>1. data = [l \in layers |-> data[l]]
      OBVIOUS
    <3>2. \A l \in layers : Len(data[l]) <= MaxSize
      BY <1>0, <2>1
    <3>3. QED
      BY <2>1, <3>1, <3>2, BufferType
  <2>3. IsCall(c) /\ HasBytes(c) /\ c.op = "Set"
    BY <2>1, <2>2 DEF IsCall, Call, HasBytes
  <2>4. shadowSet(c)
    BY <1>2
  <2> HIDE DEF c
  <2>5. QED
    BY <1>0, <2>3, <2>4, SetFirst
<1>3. QED
  BY <1>1, <1>2 DEF Request

(* Every step keeps the invariant and is a step of the flat array. *)
LEMMA ShadowStep == ShadowInv /\ [Next]_vars => ShadowInv' /\ FlatStep
<1> SUFFICES ASSUME ShadowInv, [Next]_vars PROVE ShadowInv' /\ FlatStep
  OBVIOUS
<1>1. TreeOK
  BY DEF ShadowInv, TypeOK, TreeOK
<1>2. ASSUME NEW addr \in Address, NEW layers \in (SUBSET Layers) \ {{}},
             NEW size \in {n \in 1 .. MaxSize : addr + n - 1 \in Address},
             Request(addr, layers, size)
      PROVE  ShadowInv' /\ FlatStep
  BY <1>1, <1>2, RequestStep
<1>3. ASSUME Recursion
      PROVE  ShadowInv' /\ FlatStep
  <2>1. call # Idle /\ IsCall(call) /\ SetInProgress /\ GetInProgress
    BY <1>3 DEF Recursion, ShadowInv, TypeOK, IsCall
  <2>2. CASE call.op = "Get" /\ shadowGet(call)
    <3>1. HasRead(call)
      BY <2>1, <2>2 DEF GetInProgress, HasRead
    <3>2. QED
      BY <1>1, <2>1, <2>2, <3>1, GetStep
  <2>3. CASE call.op = "Set" /\ shadowSet(call)
    <3>1. HasBytes(call)
      BY <2>1, <2>3 DEF SetInProgress, HasBytes
    <3>2. QED
      BY <1>1, <2>1, <2>3, <3>1, SetLater
  <2>4. QED
    BY <1>3, <2>2, <2>3 DEF Recursion
<1>4. CASE UNCHANGED vars
  <2>1. ShadowInv'
    BY <1>4 DEF vars, ShadowInv, TypeOK, Leaf, Address, SetInProgress, GetInProgress,
                Held, leaf_for_read, leafNo, index, Call, LayerData, Bytes
  <2>2. FlatMem' = FlatMem /\ last' = last
    BY <1>4 DEF vars, FlatMem, Held, leaf_for_read, leafNo, index
  <2>3. QED
    BY <2>1, <2>2 DEF FlatStep
<1>5. QED
  BY <1>2, <1>3, <1>4 DEF Next

(* Initially every address shares the distinguished leaf, which is zero. *)
LEMMA ShadowInit == Init => ShadowInv /\ Flat!Init
<1> SUFFICES ASSUME Init PROVE ShadowInv /\ Flat!Init
  OBVIOUS
<1>1. TypeOK /\ call = Idle
  BY ShadowAssumption DEF Init, TypeOK, Leaf
<1>2. ASSUME NEW l \in Layers, NEW a \in Address PROVE Held(l, a) = 0
  <2>1. leafNo(a) \in 0 .. LEAVES - 1 /\ index(a) \in 0 .. LEAF - 1
    BY AddressFacts
  <2>2. QED
    BY <2>1 DEF Held, leaf_for_read, Init
<1>3. FlatMem = [l \in Layers |-> [a \in Address |-> 0]]
  BY <1>1, <1>2, FlatIsHeld
<1>4. QED
  BY <1>1, <1>3 DEF ShadowInv, Init, Flat!Init

(***************************************************************************)
(* The tree, the distinguished leaf and the arguments of every recursive   *)
(* call of Get and Set keep their types; no call leaves its request.       *)
(***************************************************************************)
THEOREM ShadowTypes == Spec => []TypeOK
<1>1. ShadowInv => TypeOK
  BY DEF ShadowInv
<1>2. ShadowInv /\ [Next]_vars => ShadowInv'
  BY ShadowStep
<1>3. Init => ShadowInv
  BY ShadowInit
<1>4. QED
  BY <1>1, <1>2, <1>3, PTL DEF Spec

(***************************************************************************)
(* For every leaf size and number of leaves, any set of layers and         *)
(* requests up to MaxSize bytes: leaves created on demand, together        *)
(* with the recursive Get and Set, behave like one flat array per layer,   *)
(* also where a range crosses leaves or a layer's pointer is NULL.         *)
(***************************************************************************)
THEOREM FlatShadowImplemented == Spec => ImplementsFlatShadow
<1>1. ShadowInv /\ [Next]_vars => ShadowInv' /\ [Flat!Next]_<<FlatMem, last>>
  BY ShadowStep DEF FlatStep
<1>2. Init => ShadowInv /\ Flat!Init
  BY ShadowInit
<1>3. QED
  BY <1>1, <1>2, PTL DEF Spec, ImplementsFlatShadow, Flat!Spec
=============================================================================
