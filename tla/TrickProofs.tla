---------------------------- MODULE TrickProofs -----------------------------
(***************************************************************************)
(* Proofs about modules BitwiseHandlers and TrickFinder, for every width   *)
(* of a half, every set of variables, inputs and masks, and any number of  *)
(* operations.                                                             *)
(***************************************************************************)
EXTENDS TrickFinder, ModLemmas, SequenceTheorems

-----------------------------------------------------------------------------
(* Numbers.                                                                *)

Number(n) == [1 .. n -> Halves]

(* A half without its sign bit, and with the sign bit changed. *)
LEMMA HalfFacts ==
  ASSUME NEW h \in Halves
  PROVE  /\ SignBit \in AllBits /\ SignBit \in Nat
         /\ h \ {SignBit} \in Halves /\ BitOp("xor", h, {SignBit}) \in Halves
         /\ BitOp("xor", BitOp("xor", h, {SignBit}), {SignBit}) = h
         /\ SignBit \in BitOp("xor", h, {SignBit}) <=> SignBit \notin h
         /\ BitOp("xor", h, {SignBit}) \ {SignBit} = h \ {SignBit}
<1>1. SignBit \in AllBits /\ SignBit \in Nat
  BY BitwiseAssumption DEF SignBit, AllBits
<1>2. BitOp("xor", h, {SignBit}) = (h \ {SignBit}) \cup ({SignBit} \ h)
  BY DEF BitOp
<1>3. QED
  BY <1>1, <1>2 DEF Halves, BitOp

(* The fixed patterns, half by half. *)
LEMMA PatternFacts ==
  ASSUME NEW n \in 1 .. 2
  PROVE  /\ SignClear[n] \in Number(n) /\ Ones[n] \in Number(n)
         /\ SignOnly[n] \in Number(n) /\ Zeros[n] \in Number(n)
         /\ SignClear[n][n] = AllBits \ {SignBit} /\ Ones[n][n] = AllBits
         /\ SignOnly[n][n] = {SignBit} /\ Zeros[n][n] = {}
         /\ n = 2 => /\ SignClear[n][1] = AllBits /\ Ones[n][1] = AllBits
                     /\ SignOnly[n][1] = {} /\ Zeros[n][1] = {}
<1>1. AllBits \in Halves /\ AllBits \ {SignBit} \in Halves /\ {SignBit} \in Halves /\ {} \in Halves
  BY HalfFacts DEF Halves
<1>2. QED
  BY <1>1 DEF SignClear, Ones, SignOnly, Zeros, Pattern, Number

(* Numbers are equal if their halves are. *)
LEMMA SameHalves ==
  ASSUME NEW n \in 1 .. 2, NEW s \in Number(n), NEW t \in Number(n),
         s[n] = t[n], n = 2 => s[1] = t[1]
  PROVE  s = t
<1>1. \A i \in 1 .. n : s[i] = t[i]
  OBVIOUS
<1>2. QED
  BY <1>1 DEF Number

(* Sign, magnitude and negative of a number. *)
LEMMA NumberFacts ==
  ASSUME NEW n \in 1 .. 2, NEW s \in Number(n)
  PROVE  /\ Len(s) = n /\ s[n] \in Halves /\ s[1] \in Halves
         /\ Sign(s) <=> SignBit \in s[n]
         /\ Magnitude(s) \in Number(n) /\ Negate(s) \in Number(n)
         /\ Magnitude(s)[n] = s[n] \ {SignBit}
         /\ Negate(s)[n] = BitOp("xor", s[n], {SignBit})
         /\ n = 2 => Magnitude(s)[1] = s[1] /\ Negate(s)[1] = s[1]
<1>1. Len(s) = n /\ s[n] \in Halves /\ s[1] \in Halves
  BY DEF Number
<1>2. s[n] \ {SignBit} \in Halves /\ BitOp("xor", s[n], {SignBit}) \in Halves
  BY <1>1, HalfFacts
<1>3. Magnitude(s) = [s EXCEPT ![n] = s[n] \ {SignBit}]
  BY <1>1 DEF Magnitude
<1>4. Negate(s) = [s EXCEPT ![n] = BitOp("xor", s[n], {SignBit})]
  BY <1>1 DEF Negate
<1>5. QED
  BY <1>1, <1>2, <1>3, <1>4 DEF Number, Sign

(* A number is a magnitude or a negative if its halves say so. *)
LEMMA ByHalves ==
  ASSUME NEW n \in 1 .. 2, NEW s \in Number(n), NEW t \in Number(n), n = 2 => s[1] = t[1]
  PROVE  /\ t[n] = s[n] \ {SignBit} => Magnitude(s) = t
         /\ t[n] = BitOp("xor", s[n], {SignBit}) => Negate(s) = t
<1>1. /\ Magnitude(s) \in Number(n) /\ Negate(s) \in Number(n)
      /\ Magnitude(s)[n] = s[n] \ {SignBit}
      /\ Negate(s)[n] = BitOp("xor", s[n], {SignBit})
      /\ n = 2 => Magnitude(s)[1] = s[1] /\ Negate(s)[1] = s[1]
  BY NumberFacts
<1>2. QED
  BY <1>1, SameHalves

(* A number has one negative, with the other sign and the same magnitude. *)
LEMMA NegateFacts ==
  ASSUME NEW n \in 1 .. 2, NEW s \in Number(n)
  PROVE  /\ Negate(s) \in Number(n) /\ Negate(Negate(s)) = s
         /\ Sign(Negate(s)) <=> ~Sign(s)
         /\ Magnitude(Negate(s)) = Magnitude(s)
         /\ IsZero(Negate(s)) <=> IsZero(s)
         /\ IsNaN(Negate(s)) <=> IsNaN(s)
<1>1. Negate(s) \in Number(n) /\ Negate(Negate(s)) \in Number(n) /\ Magnitude(s) \in Number(n)
      /\ Magnitude(Negate(s)) \in Number(n) /\ s[n] \in Halves
      /\ Len(Negate(s)) = n /\ Len(s) = n
  BY NumberFacts
<1>a. /\ Negate(s)[n] = BitOp("xor", s[n], {SignBit})
      /\ Magnitude(s)[n] = s[n] \ {SignBit}
      /\ Sign(s) <=> SignBit \in s[n]
      /\ n = 2 => Negate(s)[1] = s[1] /\ Magnitude(s)[1] = s[1]
  BY NumberFacts, ZenonT(60)
<1>c. /\ Negate(Negate(s))[n] = BitOp("xor", Negate(s)[n], {SignBit})
      /\ Magnitude(Negate(s))[n] = Negate(s)[n] \ {SignBit}
      /\ Sign(Negate(s)) <=> SignBit \in Negate(s)[n]
      /\ n = 2 => /\ Negate(Negate(s))[1] = Negate(s)[1]
                  /\ Magnitude(Negate(s))[1] = Negate(s)[1]
  <2> DEFINE g == Negate(s)
  <2>1. g \in Number(n)
    BY <1>1
  <2> HIDE DEF g
  <2>2. /\ Negate(g)[n] = BitOp("xor", g[n], {SignBit})
        /\ Magnitude(g)[n] = g[n] \ {SignBit}
        /\ Sign(g) <=> SignBit \in g[n]
        /\ n = 2 => Negate(g)[1] = g[1] /\ Magnitude(g)[1] = g[1]
    BY <2>1, NumberFacts, ZenonT(60)
  <2>3. QED
    BY <2>2 DEF g
<1>b. /\ BitOp("xor", BitOp("xor", s[n], {SignBit}), {SignBit}) = s[n]
      /\ SignBit \in BitOp("xor", s[n], {SignBit}) <=> SignBit \notin s[n]
      /\ BitOp("xor", s[n], {SignBit}) \ {SignBit} = s[n] \ {SignBit}
  BY <1>1, HalfFacts
<1>2. Negate(Negate(s)) = s
  BY <1>1, <1>a, <1>b, <1>c, SameHalves
<1>3. Sign(Negate(s)) <=> ~Sign(s)
  BY <1>a, <1>b, <1>c
<1>4. Magnitude(Negate(s)) = Magnitude(s)
  BY <1>1, <1>a, <1>b, <1>c, SameHalves, ZenonT(60)
<1>5. QED
  BY <1>1, <1>2, <1>3, <1>4 DEF IsZero, IsNaN

(* The known masks, as numbers. *)
LEMMA MaskFacts ==
  ASSUME NEW n \in 1 .. 2
  PROVE  /\ ~Sign(SignClear[n]) /\ Sign(Ones[n]) /\ Sign(SignOnly[n]) /\ ~Sign(Zeros[n])
         /\ IsNaN(SignClear[n]) /\ IsNaN(Ones[n])
         /\ IsZero(SignOnly[n]) /\ IsZero(Zeros[n])
         /\ Negate(Zeros[n]) = SignOnly[n]
<1>0. SignBit \in AllBits
  BY HalfFacts DEF Halves
<1>1. /\ SignClear[n] \in Number(n) /\ Ones[n] \in Number(n)
      /\ SignOnly[n] \in Number(n) /\ Zeros[n] \in Number(n)
  BY PatternFacts
<1>p. /\ SignClear[n][n] = AllBits \ {SignBit} /\ Ones[n][n] = AllBits
      /\ SignOnly[n][n] = {SignBit} /\ Zeros[n][n] = {}
      /\ n = 2 => /\ SignClear[n][1] = AllBits /\ Ones[n][1] = AllBits
                  /\ SignOnly[n][1] = {} /\ Zeros[n][1] = {}
  BY PatternFacts
<1>2. /\ ~Sign(SignClear[n]) /\ Sign(Ones[n]) /\ Sign(SignOnly[n]) /\ ~Sign(Zeros[n])
  <2>1. /\ Sign(SignClear[n]) <=> SignBit \in SignClear[n][n]
        /\ Sign(Ones[n]) <=> SignBit \in Ones[n][n]
    BY <1>1, NumberFacts, Zenon
  <2>2. /\ Sign(SignOnly[n]) <=> SignBit \in SignOnly[n][n]
        /\ Sign(Zeros[n]) <=> SignBit \in Zeros[n][n]
    BY <1>1, NumberFacts, Zenon
  <2>3. QED
    BY <2>1, <2>2, <1>p, <1>0, Zenon
<1>3. Magnitude(SignClear[n]) = SignClear[n] /\ Magnitude(Ones[n]) = SignClear[n]
  <2>1. (AllBits \ {SignBit}) \ {SignBit} = AllBits \ {SignBit}
    OBVIOUS
  <2>2. QED
    BY <1>1, <1>p, <2>1, ByHalves
<1>4. Magnitude(SignOnly[n]) = Zeros[n] /\ Magnitude(Zeros[n]) = Zeros[n]
  <2>1. {SignBit} \ {SignBit} = {} /\ {} \ {SignBit} = {}
    OBVIOUS
  <2>2. QED
    BY <1>1, <1>p, <2>1, ByHalves, ZenonT(60)
<1>5. Negate(Zeros[n]) = SignOnly[n]
  <2>1. BitOp("xor", {}, {SignBit}) = {SignBit}
    BY DEF BitOp
  <2>2. QED
    BY <1>1, <1>p, <2>1, ByHalves, ZenonT(60)
<1>7. /\ Len(SignClear[n]) = n /\ Len(Ones[n]) = n
      /\ Len(SignOnly[n]) = n /\ Len(Zeros[n]) = n
  BY <1>1, NumberFacts, Zenon
<1>6. QED
  BY <1>2, <1>3, <1>4, <1>5, <1>7, Zenon DEF IsNaN, IsZero

(* A number is its magnitude with a sign. *)
LEMMA SignedMagnitude ==
  ASSUME NEW n \in 1 .. 2, NEW s \in Number(n)
  PROVE  Magnitude(s) = IF Sign(s) THEN Negate(s) ELSE s
<1>1. s[n] \in Halves /\ (Sign(s) <=> SignBit \in s[n])
  BY NumberFacts
<1>2. Negate(s) \in Number(n) /\ Negate(s)[n] = BitOp("xor", s[n], {SignBit})
      /\ (n = 2 => Negate(s)[1] = s[1])
  BY NumberFacts
<1>3. CASE Sign(s)
  <2>1. BitOp("xor", s[n], {SignBit}) = s[n] \ {SignBit}
    BY <1>1, <1>3 DEF BitOp
  <2>2. QED
    BY <1>2, <1>3, <2>1, ByHalves
<1>4. CASE ~Sign(s)
  <2>1. s[n] = s[n] \ {SignBit}
    BY <1>1, <1>4
  <2>2. QED
    BY <1>4, <2>1, ByHalves
<1>5. QED
  BY <1>3, <1>4

(* The masks are all the numbers whose magnitude is NaN, or 0. *)
LEMMA NeutralFacts ==
  ASSUME NEW n \in 1 .. 2, NEW m \in Number(n), NEW op \in {"and", "or", "xor"}
  PROVE  /\ Neutral(op, m) <=> m \in Masks(op, n)
         /\ IsNaN(m) <=> m \in Masks("and", n)
         /\ IsZero(m) => ~IsNaN(m)
<1>1. Len(m) = n /\ Negate(m) \in Number(n) /\ Negate(Negate(m)) = m
  BY NumberFacts, NegateFacts
<1>2. /\ SignClear[n] \in Number(n) /\ Ones[n] \in Number(n)
      /\ SignOnly[n] \in Number(n) /\ Zeros[n] \in Number(n)
      /\ SignClear[n] # Zeros[n]
  <2>1. AllBits \ {SignBit} # {}
    BY BitwiseAssumption DEF AllBits, SignBit
  <2>2. QED
    BY <2>1, PatternFacts
<1>3. Magnitude(m) = SignClear[n] <=> m \in {SignClear[n], Ones[n]}
  <2>1. ASSUME Magnitude(m) = SignClear[n] PROVE m \in {SignClear[n], Ones[n]}
    <3>1. CASE ~Sign(m)
      BY <2>1, <3>1, SignedMagnitude
    <3>2. CASE Sign(m)
      <4>1. Magnitude(Ones[n]) = SignClear[n] /\ Sign(Ones[n])
        <5>1. IsNaN(Ones[n]) /\ Sign(Ones[n]) /\ Len(Ones[n]) = n
          BY <1>2, MaskFacts, NumberFacts, Zenon
        <5>2. QED
          BY <5>1 DEF IsNaN
      <4>2. Negate(m) = SignClear[n] /\ Negate(Ones[n]) = SignClear[n]
        BY <2>1, <3>2, <4>1, <1>2, SignedMagnitude
      <4>3. Negate(Negate(Ones[n])) = Ones[n]
        BY <1>2, NegateFacts
      <4>4. QED
        BY <1>1, <4>2, <4>3
    <3>3. QED
      BY <3>1, <3>2
  <2>2. ASSUME m \in {SignClear[n], Ones[n]} PROVE Magnitude(m) = SignClear[n]
    BY <1>1, <2>2, MaskFacts DEF IsNaN
  <2>3. QED
    BY <2>1, <2>2
<1>4. Magnitude(m) = Zeros[n] <=> m \in {SignOnly[n], Zeros[n]}
  <2>1. ASSUME Magnitude(m) = Zeros[n] PROVE m \in {SignOnly[n], Zeros[n]}
    <3>1. CASE ~Sign(m)
      BY <2>1, <3>1, SignedMagnitude
    <3>2. CASE Sign(m)
      <4>1. Negate(m) = Zeros[n]
        BY <2>1, <3>2, SignedMagnitude
      <4>2. QED
        BY <1>1, <4>1, MaskFacts
    <3>3. QED
      BY <3>1, <3>2
  <2>2. ASSUME m \in {SignOnly[n], Zeros[n]} PROVE Magnitude(m) = Zeros[n]
    BY <1>1, <2>2, MaskFacts DEF IsZero
  <2>3. QED
    BY <2>1, <2>2
<1>5. IsNaN(m) <=> m \in Masks("and", n)
  BY <1>1, <1>3 DEF IsNaN, Masks
<1>6. IsZero(m) => ~IsNaN(m)
  BY <1>1, <1>2 DEF IsNaN, IsZero
<1>7. Neutral(op, m) <=> m \in Masks(op, n)
  <2>1. CASE op = "and"
    BY <2>1, <1>1, <1>3 DEF Neutral, Masks
  <2>2. CASE op = "or"
    BY <2>2, <1>1, <1>4 DEF Neutral, Masks
  <2>3. CASE op = "xor"
    <3>1. Sign(SignOnly[n]) /\ ~Sign(Zeros[n])
      BY MaskFacts
    <3>2. QED
      BY <2>3, <3>1, <1>1, <1>4 DEF Neutral, Masks
  <2>4. QED
    BY <2>1, <2>2, <2>3
<1>8. QED
  BY <1>5, <1>6, <1>7

Ops == {"and", "or", "xor"}

(* The bitwise operations work half by half, and are commutative. *)
LEMMA ApplyFacts ==
  ASSUME NEW n \in 1 .. 2, NEW s \in Number(n), NEW t \in Number(n), NEW op \in Ops
  PROVE  /\ Apply(op, s, t) \in Number(n)
         /\ Apply(op, s, t)[n] = BitOp(op, s[n], t[n])
         /\ n = 2 => Apply(op, s, t)[1] = BitOp(op, s[1], t[1])
         /\ Apply(op, s, t) = Apply(op, t, s)
<1>1. Len(s) = n /\ Len(t) = n /\ \A i \in 1 .. n : s[i] \in Halves /\ t[i] \in Halves
  BY DEF Number
<1>2. ASSUME NEW g \in Halves, NEW h \in Halves
      PROVE  BitOp(op, g, h) \in Halves /\ BitOp(op, g, h) = BitOp(op, h, g)
  <2>1. CASE op = "and"
    BY <2>1 DEF BitOp, Halves
  <2>2. CASE op = "or"
    BY <2>2 DEF BitOp, Halves
  <2>3. CASE op = "xor"
    BY <2>3 DEF BitOp, Halves
  <2>4. QED
    BY <2>1, <2>2, <2>3 DEF Ops
<1>3. /\ Apply(op, s, t) = [i \in 1 .. n |-> BitOp(op, s[i], t[i])]
      /\ Apply(op, t, s) = [i \in 1 .. n |-> BitOp(op, t[i], s[i])]
  BY <1>1 DEF Apply
<1>4. \A i \in 1 .. n : /\ BitOp(op, s[i], t[i]) \in Halves
                        /\ BitOp(op, s[i], t[i]) = BitOp(op, t[i], s[i])
  BY <1>1, <1>2
<1>5. QED
  BY <1>3, <1>4 DEF Number

\* A number s changes its sign under mask m.
Turned(op, m, s) == \/ op = "xor"
                    \/ op = "and" /\ ~Sign(m) /\ Sign(s)
                    \/ op = "or" /\ Sign(m) /\ ~Sign(s)

(* A mask leaves a number alone or changes its sign. *)
LEMMA Masked ==
  ASSUME NEW n \in 1 .. 2, NEW s \in Number(n), NEW op \in Ops, NEW m \in Masks(op, n)
  PROVE  Apply(op, m, s) = IF Turned(op, m, s) THEN Negate(s) ELSE s
<1>0. /\ SignClear[n] \in Number(n) /\ Ones[n] \in Number(n)
      /\ SignOnly[n] \in Number(n) /\ Zeros[n] \in Number(n)
      /\ SignClear[n][n] = AllBits \ {SignBit} /\ Ones[n][n] = AllBits
      /\ SignOnly[n][n] = {SignBit} /\ Zeros[n][n] = {}
      /\ n = 2 => /\ SignClear[n][1] = AllBits /\ Ones[n][1] = AllBits
                  /\ SignOnly[n][1] = {} /\ Zeros[n][1] = {}
  BY PatternFacts
<1>1. m \in Number(n)
  BY <1>0 DEF Masks, Ops
<1>2. /\ Apply(op, m, s) \in Number(n)
      /\ Apply(op, m, s)[n] = BitOp(op, m[n], s[n])
      /\ n = 2 => Apply(op, m, s)[1] = BitOp(op, m[1], s[1])
  BY <1>1, ApplyFacts
<1>3. /\ s[n] \subseteq AllBits /\ s[1] \subseteq AllBits
      /\ Sign(s) <=> SignBit \in s[n]
      /\ Negate(s) \in Number(n) /\ Negate(s)[n] = BitOp("xor", s[n], {SignBit})
      /\ n = 2 => Negate(s)[1] = s[1]
  BY NumberFacts DEF Halves
<1>4. ~Sign(SignClear[n]) /\ Sign(Ones[n]) /\ Sign(SignOnly[n]) /\ ~Sign(Zeros[n])
  BY MaskFacts
<1>5. /\ BitOp("and", AllBits \ {SignBit}, s[n]) =
            IF SignBit \in s[n] THEN BitOp("xor", s[n], {SignBit}) ELSE s[n]
      /\ BitOp("and", AllBits, s[n]) = s[n] /\ BitOp("and", AllBits, s[1]) = s[1]
      /\ BitOp("or", {}, s[n]) = s[n] /\ BitOp("or", {}, s[1]) = s[1]
      /\ BitOp("or", {SignBit}, s[n]) =
            IF SignBit \in s[n] THEN s[n] ELSE BitOp("xor", s[n], {SignBit})
      /\ BitOp("xor", {SignBit}, s[n]) = BitOp("xor", s[n], {SignBit})
      /\ BitOp("xor", {}, s[1]) = s[1]
  BY <1>3 DEF BitOp
<1> DEFINE r == IF Turned(op, m, s) THEN Negate(s) ELSE s
<1>b. /\ r \in Number(n) /\ r[n] = (IF Turned(op, m, s) THEN BitOp("xor", s[n], {SignBit}) ELSE s[n])
      /\ n = 2 => r[1] = s[1]
  BY <1>3
<1> HIDE DEF r
<1>c. BitOp(op, m[n], s[n]) = r[n] /\ (n = 2 => BitOp(op, m[1], s[1]) = s[1])
  <2>6. CASE op = "and" /\ m = SignClear[n]
    <3>1. Turned(op, m, s) <=> SignBit \in s[n]
      BY <2>6, <1>3, <1>4 DEF Turned
    <3>2. QED
      BY ONLY <3>1, <2>6, <1>0, <1>5, <1>b
  <2>7. CASE op = "and" /\ m = Ones[n]
    <3>1. ~Turned(op, m, s)
      BY <2>7, <1>3, <1>4 DEF Turned
    <3>2. QED
      BY ONLY <3>1, <2>7, <1>0, <1>5, <1>b
  <2>8. CASE op = "or" /\ m = SignOnly[n]
    <3>1. Turned(op, m, s) <=> SignBit \notin s[n]
      BY <2>8, <1>3, <1>4 DEF Turned
    <3>2. QED
      BY ONLY <3>1, <2>8, <1>0, <1>5, <1>b
  <2>9. CASE op = "or" /\ m = Zeros[n]
    <3>1. ~Turned(op, m, s)
      BY <2>9, <1>3, <1>4 DEF Turned
    <3>2. QED
      BY ONLY <3>1, <2>9, <1>0, <1>5, <1>b
  <2>10. CASE op = "xor" /\ m = SignOnly[n]
    <3>1. Turned(op, m, s)
      BY <2>10 DEF Turned
    <3>2. QED
      BY ONLY <3>1, <2>10, <1>0, <1>5, <1>b
  <2>11. QED
    BY <2>6, <2>7, <2>8, <2>9, <2>10 DEF Masks, Ops
<1>d. Apply(op, m, s) = r
  BY <1>2, <1>b, <1>c, SameHalves
<1>e. QED
  BY <1>d DEF r

(* What the reference says of the derivative under a mask. *)
LEMMA UnderFacts ==
  ASSUME NEW n \in 1 .. 2, NEW s \in Number(n), NEW op \in Ops, NEW m \in Masks(op, n), NEW D
  PROVE  UnderMask(op, m, s, D) = IF TakesAbs(op, m) /\ IsZero(s) THEN D \cup Minus(D)
                                  ELSE IF Turned(op, m, s) THEN Minus(D) ELSE D
<1>1. m \in Number(n)
  BY PatternFacts DEF Masks, Ops
<1>2. Neutral(op, m) /\ (op = "and" => ~IsZero(m))
  BY <1>1, NeutralFacts DEF Ops
<1>3. (Sign(Apply(op, m, s)) # Sign(s)) <=> Turned(op, m, s)
  BY Masked, NegateFacts DEF Sign
<1>4. QED
  BY <1>2, <1>3 DEF UnderMask, Absorbing

\* The handlers' decision to negate agrees with the effect of the mask.
Decides(neg, op, m, s) == (neg <=> Turned(op, m, s)) \/ (TakesAbs(op, m) /\ IsZero(s))

(* Then the derivative they arrive at is a right one, and so is the value. *)
LEMMA RightDecision ==
  ASSUME NEW n \in 1 .. 2, NEW s \in Number(n), NEW op \in Ops, NEW m \in Masks(op, n),
         NEW D \in SUBSET Int, NEW neg \in BOOLEAN, Decides(neg, op, m, s)
  PROVE  /\ \A v \in D : (IF neg THEN -v ELSE v) \in UnderMask(op, m, s, D)
         /\ SameNumber(IF neg THEN Negate(s) ELSE s, Apply(op, m, s))
<1>1. \A v \in D : -v \in Minus(D)
  BY DEF Minus
<1>2. ASSUME NEW v \in D PROVE (IF neg THEN -v ELSE v) \in UnderMask(op, m, s, D)
  BY <1>1, UnderFacts DEF Decides
<1>3. SameNumber(IF neg THEN Negate(s) ELSE s, Apply(op, m, s))
  <2>1. IsZero(Negate(s)) <=> IsZero(s)
    BY NegateFacts
  <2>2. QED
    BY <2>1, Masked DEF Decides, SameNumber
<1>4. QED
  BY <1>2, <1>3

-----------------------------------------------------------------------------
(* The reference, by the operand that the handlers take for the mask.      *)

(* The derivative under a mask is defined, constant or small if the other
   number's is. *)
LEMMA UnderRange ==
  ASSUME NEW n \in 1 .. 2, NEW s \in Number(n), NEW op \in Ops, NEW m \in Masks(op, n), NEW D
  PROVE  /\ D = {} <=> UnderMask(op, m, s, D) = {}
         /\ D = {0} => UnderMask(op, m, s, D) = {0}
         /\ 0 \in D => 0 \in UnderMask(op, m, s, D)
         /\ D \subseteq -2 .. 2 => UnderMask(op, m, s, D) \subseteq -2 .. 2
<1>1. UnderMask(op, m, s, D) \in {D \cup Minus(D), Minus(D), D}
  BY UnderFacts
<1>2. /\ D = {} <=> Minus(D) = {}
      /\ D = {0} => Minus(D) = {0}
      /\ 0 \in D => 0 \in Minus(D)
      /\ D \subseteq -2 .. 2 => Minus(D) \subseteq -2 .. 2
  BY DEF Minus
<1>3. QED
  BY <1>1, <1>2

(* An operand that is no mask either makes the result 0 or is not understood. *)
LEMMA UnderOther ==
  ASSUME NEW n \in 1 .. 2, NEW s, NEW op \in Ops, NEW m \in Number(n), m \notin Masks(op, n), NEW D
  PROVE  UnderMask(op, m, s, D) = IF op = "and" /\ IsZero(m) THEN {0} ELSE {}
<1>1. ~Neutral(op, m)
  BY NeutralFacts DEF Ops
<1>2. QED
  BY <1>1 DEF UnderMask, Absorbing

(* In an AND, the masks are NaN. *)
LEMMA IsMaskFacts ==
  ASSUME NEW n \in 1 .. 2, NEW x \in Number(n), NEW op \in Ops, NEW dx
  PROVE  /\ op # "and" => (IsMask(op, x, dx) <=> dx = {0})
         /\ op = "and" => (IsMask(op, x, dx) <=> dx = {0} \/ x \in Masks(op, n))
         /\ op = "and" => (IsNaN(x) <=> x \in Masks(op, n))
  BY NeutralFacts DEF IsMask, Ops

(* The first operand is taken for the mask. *)
LEMMA FirstIsMask ==
  ASSUME NEW n \in 1 .. 2, NEW x \in Number(n), NEW y \in Number(n), NEW op \in Ops,
         NEW dx, NEW dy, x \in Masks(op, n)
  PROVE  /\ op = "and" \/ dx = {0} =>
              \/ dx = {0} /\ dy = {0} /\ Reference(op, x, dx, y, dy) = {0}
              \/ Reference(op, x, dx, y, dy) = UnderMask(op, x, y, dy)
         /\ op # "and" /\ dx # {0} =>
              \/ Reference(op, x, dx, y, dy) = {}
              \/ /\ dy = {0} /\ y \in Masks(op, n)
                 /\ Reference(op, x, dx, y, dy) = UnderMask(op, y, x, dx)
<1>1. /\ op # "and" => (IsMask(op, x, dx) <=> dx = {0})
      /\ op = "and" => IsMask(op, x, dx) /\ IsNaN(x)
  BY IsMaskFacts
<1>2. op # "and" => (IsMask(op, y, dy) <=> dy = {0})
  BY IsMaskFacts
<1>3. op # "and" /\ y \notin Masks(op, n) => UnderMask(op, y, x, dx) = {}
  BY UnderOther
<1>4. QED
  BY <1>1, <1>2, <1>3 DEF Reference

(* The second operand is taken for the mask, since the first one is none. *)
LEMMA SecondIsMask ==
  ASSUME NEW n \in 1 .. 2, NEW x \in Number(n), NEW y \in Number(n), NEW op \in Ops,
         NEW dx, NEW dy, y \in Masks(op, n),
         x \notin Masks(op, n) \/ (op # "and" /\ dx # {0})
  PROVE  /\ op = "and" \/ dy = {0} =>
              \/ dx = {0} /\ dy = {0} /\ Reference(op, x, dx, y, dy) = {0}
              \/ Reference(op, x, dx, y, dy) = UnderMask(op, y, x, dx)
         /\ op # "and" /\ dy # {0} => Reference(op, x, dx, y, dy) = {}
<1>1. /\ op # "and" => (IsMask(op, x, dx) <=> dx = {0})
      /\ op = "and" => ~IsNaN(x)
  BY IsMaskFacts
<1>2. /\ op # "and" => (IsMask(op, y, dy) <=> dy = {0})
      /\ op = "and" => IsMask(op, y, dy)
  BY IsMaskFacts
<1>3. op # "and" /\ x \notin Masks(op, n) => UnderMask(op, x, y, dy) = {}
  BY UnderOther
<1>4. QED
  BY <1>1, <1>2, <1>3 DEF Reference

(* Neither operand is taken for a mask. *)
LEMMA NoneIsMask ==
  ASSUME NEW n \in 1 .. 2, NEW x \in Number(n), NEW y \in Number(n), NEW op \in Ops,
         NEW dx, NEW dy,
         x \notin Masks(op, n) \/ (op # "and" /\ dx # {0}),
         y \notin Masks(op, n) \/ (op # "and" /\ dy # {0})
  PROVE  \/ Reference(op, x, dx, y, dy) = {}
         \/ dx = {0} /\ dy = {0} /\ Reference(op, x, dx, y, dy) = {0}
         \/ /\ op = "and" /\ Reference(op, x, dx, y, dy) = {0}
            /\ \/ dx = {0} /\ dy # {0} /\ IsZero(x)
               \/ dy = {0} /\ dx # {0} /\ IsZero(y)
<1>1. /\ op # "and" => (IsMask(op, x, dx) <=> dx = {0})
      /\ op = "and" => (IsMask(op, x, dx) <=> dx = {0}) /\ ~IsNaN(x)
  BY IsMaskFacts
<1>2. /\ op # "and" => (IsMask(op, y, dy) <=> dy = {0})
      /\ op = "and" => (IsMask(op, y, dy) <=> dy = {0})
  BY IsMaskFacts
<1>3. x \notin Masks(op, n) => UnderMask(op, x, y, dy) = IF op = "and" /\ IsZero(x) THEN {0} ELSE {}
  BY UnderOther
<1>4. y \notin Masks(op, n) => UnderMask(op, y, x, dx) = IF op = "and" /\ IsZero(y) THEN {0} ELSE {}
  BY UnderOther
<1>5. QED
  BY <1>1, <1>2, <1>3, <1>4 DEF Reference

(* OR and XOR treat their operands alike. *)
LEMMA ReferenceSwap ==
  ASSUME NEW op \in Ops, op # "and", NEW x, NEW y, NEW dx, NEW dy
  PROVE  Reference(op, x, dx, y, dy) = Reference(op, y, dy, x, dx)
  BY DEF Reference, IsMask

\* D can be the set of derivatives of number s.
Ranged(s, D) == D \subseteq -2 .. 2 /\ (IsNaN(s) => D \in {{}, {0}})

(* So it is for the result of an operation, in brackets too. *)
LEMMA UnderRanged ==
  ASSUME NEW n \in 1 .. 2, NEW m \in Number(n), NEW s \in Number(n), NEW op \in Ops,
         NEW D, Ranged(s, D)
  PROVE  Ranged(Apply(op, m, s), UnderMask(op, m, s, D))
<1> DEFINE U == UnderMask(op, m, s, D)
           r == Apply(op, m, s)
<1>1. CASE m \in Masks(op, n)
  <2>1. IsNaN(r) <=> IsNaN(s)
    BY <1>1, Masked, NegateFacts
  <2>2. /\ D = {} <=> U = {}
        /\ D = {0} => U = {0}
        /\ D \subseteq -2 .. 2 => U \subseteq -2 .. 2
    BY <1>1, UnderRange
  <2> HIDE DEF U, r
  <2>3. Ranged(r, U)
    BY <2>1, <2>2 DEF Ranged
  <2>4. QED
    BY <2>3 DEF r, U
<1>2. CASE m \notin Masks(op, n)
  <2>1. U \in {{}, {0}}
    BY <1>2, UnderOther
  <2> HIDE DEF U, r
  <2>2. Ranged(r, U)
    BY <2>1 DEF Ranged
  <2>3. QED
    BY <2>2 DEF r, U
<1>3. QED
  BY <1>1, <1>2

LEMMA ReferenceRanged ==
  ASSUME NEW n \in 1 .. 2, NEW x \in Number(n), NEW y \in Number(n), NEW op \in Ops,
         NEW dx, NEW dy, Ranged(x, dx), Ranged(y, dy)
  PROVE  Ranged(Apply(op, x, y), Reference(op, x, dx, y, dy))
<1> DEFINE R == Reference(op, x, dx, y, dy)
           U == UnderMask(op, x, y, dy)
           V == UnderMask(op, y, x, dx)
           r == Apply(op, x, y)
<1>1. R = {} \/ R = {0} \/ R = U \/ R = V
  BY DEF Reference
<1>2. Ranged(r, U)
  BY UnderRanged, Zenon
<1>3. Apply(op, y, x) = r
  BY ApplyFacts
<1>4. Ranged(r, V)
  <2>1. Ranged(Apply(op, y, x), V)
    BY UnderRanged, Zenon
  <2>2. QED
    BY <1>3, <2>1, Zenon
<1>5. Ranged(r, {}) /\ Ranged(r, {0})
  BY DEF Ranged
<1> HIDE DEF R, U, V, r
<1>6. Ranged(r, R)
  BY <1>1, <1>2, <1>4, <1>5, Zenon
<1>7. QED
  BY <1>6 DEF r, R

-----------------------------------------------------------------------------
(* The tape.                                                               *)

\* Statements have one operand, an index that was assigned before.
TapeOK(t) == t \in Seq(Nat) /\ \A i \in 1 .. Len(t) : t[i] \in 1 .. NumInputs + i - 1

(* The evaluation of a tape obeys the rule by which it is defined. *)
LEMMA AlongRule ==
  ASSUME NEW t, TapeOK(t)
  PROVE  /\ Along(t) \in [IndicesOf(t) -> Int]
         /\ \A i \in IndicesOf(t) :
              Along(t)[i] = IF i <= NumInputs THEN i ELSE -Along(t)[t[i - NumInputs]]
<1> DEFINE n == NumInputs + Len(t)
           Rule(f, i) == IF i <= NumInputs THEN i ELSE -f[t[i - NumInputs]]
           R == [i \in 0 .. n |-> [f \in [0 .. n -> Int] |-> Rule(f, i)]]
<1>1. n \in Nat /\ Len(t) \in Nat /\ IndicesOf(t) = 0 .. n
  BY DEF TapeOK, NumInputs, IndicesOf
<1>2. \A i \in 0 .. n : ~(i <= NumInputs) => t[i - NumInputs] \in 1 .. i - 1
  BY <1>1 DEF TapeOK, NumInputs
<1>3. R \in [0 .. n -> [[0 .. n -> Int] -> Int]]
  <2> HIDE DEF n
  <2> SUFFICES ASSUME NEW i \in 0 .. n, NEW f \in [0 .. n -> Int]
               PROVE  Rule(f, i) \in Int
    BY Zenon
  <2>1. CASE i <= NumInputs
    BY <2>1
  <2>2. CASE ~(i <= NumInputs)
    <3>1. t[i - NumInputs] \in 0 .. n
      BY <2>2, <1>1, <1>2
    <3>2. QED
      BY <2>2, <3>1
  <2>3. QED
    BY <2>1, <2>2
<1>4. ASSUME NEW i \in 0 .. n, NEW f \in [0 .. n -> Int], NEW h \in [0 .. n -> Int],
             \A j \in 0 .. i - 1 : f[j] = h[j]
      PROVE  R[i][f] = R[i][h]
  <2>1. R[i][f] = Rule(f, i) /\ R[i][h] = Rule(h, i)
    BY Zenon
  <2>2. ~(i <= NumInputs) => f[t[i - NumInputs]] = h[t[i - NumInputs]]
    <3>1. ~(i <= NumInputs) => t[i - NumInputs] \in 0 .. i - 1
      BY <1>2
    <3>2. QED
      BY <1>4, <3>1
  <2>3. QED
    BY <2>1, <2>2, Zenon
<1>5. PICK f \in [0 .. n -> Int] : \A i \in 0 .. n : f[i] = R[i][f]
  <2> HIDE DEF R
  <2>1. 0 \in Int /\ n \in Int
    BY <1>1
  <2> HIDE DEF n
  <2>2. Causal(R, n, Int)
    BY <1>3, <1>4 DEF Causal
  <2>3. Solutions(R, n, Int) # {}
    BY <2>1, <2>2, RecursionExists, Zenon
  <2>4. QED
    BY <2>3 DEF Solutions
<1>6. f = [i \in IndicesOf(t) |-> Rule(f, i)]
  BY <1>1, <1>5
<1> DEFINE a[i \in IndicesOf(t)] == IF i <= NumInputs THEN i ELSE -a[t[i - NumInputs]]
<1>7. a = [i \in IndicesOf(t) |-> Rule(a, i)]
  BY <1>6, Zenon
<1>8. Along(t) = a
  BY DEF Along
<1> HIDE DEF a
<1>9. a = [i \in 0 .. n |-> Rule(a, i)]
  BY <1>1, <1>7
<1> DEFINE S == {i \in 0 .. n : a[i] \in Int}
<1> HIDE DEF n
<1>10. Inductive(S, n)
  <2> SUFFICES ASSUME NEW i \in 0 .. n, \A j \in 0 .. i - 1 : j \in S
               PROVE  a[i] \in Int
    BY DEF Inductive
  <2>1. a[i] = Rule(a, i)
    BY <1>9, Zenon
  <2>2. ~(i <= NumInputs) => t[i - NumInputs] \in 0 .. i - 1
    BY <1>2
  <2>3. ~(i <= NumInputs) => a[t[i - NumInputs]] \in Int
    BY <2>2
  <2>4. QED
    BY <2>1, <2>3
<1>11. \A i \in 0 .. n : a[i] \in Int
  <2>1. n \in Int
    BY <1>1
  <2>2. QED
    BY <2>1, <1>10, UpTo
<1>12. a \in [0 .. n -> Int]
  BY <1>9, <1>11
<1>13. QED
  BY <1>1, <1>8, <1>9, <1>12, Zenon

(* Only index 0 stands for data that does not depend on the inputs. *)
LEMMA AlongZero ==
  ASSUME NEW t, TapeOK(t)
  PROVE  \A i \in IndicesOf(t) : Along(t)[i] = 0 <=> i = 0
<1> DEFINE n == NumInputs + Len(t)
           a == Along(t)
           S == {i \in 0 .. n : a[i] = 0 <=> i = 0}
<1>1. /\ n \in Nat /\ Len(t) \in Nat /\ IndicesOf(t) = 0 .. n
      /\ \A i \in 0 .. n : ~(i <= NumInputs) => t[i - NumInputs] \in 1 .. i - 1
  BY DEF TapeOK, NumInputs, IndicesOf
<1>2. /\ a \in [0 .. n -> Int]
      /\ \A i \in 0 .. n : a[i] = IF i <= NumInputs THEN i ELSE -a[t[i - NumInputs]]
  BY <1>1, AlongRule
<1> HIDE DEF n, a
<1>3. Inductive(S, n)
  <2> SUFFICES ASSUME NEW i \in 0 .. n, \A j \in 0 .. i - 1 : j \in S
               PROVE  a[i] = 0 <=> i = 0
    BY DEF Inductive
  <2>1. CASE i <= NumInputs
    BY <2>1, <1>2
  <2>2. CASE ~(i <= NumInputs)
    <3>1. t[i - NumInputs] \in 1 .. i - 1
      BY <2>2, <1>1
    <3>2. PICK j \in 1 .. i - 1 : j = t[i - NumInputs]
      BY <3>1
    <3>3. a[j] # 0 /\ a[j] \in Int
      BY <1>2, <3>2
    <3>4. a[i] = -a[j]
      BY <2>2, <1>2, <3>2
    <3>5. QED
      BY <2>2, <3>3, <3>4 DEF NumInputs
  <2>3. QED
    BY <2>1, <2>2
<1>4. \A i \in 0 .. n : i \in S
  <2> HIDE DEF S
  <2>1. QED
    BY <1>1, <1>3, UpTo
<1>5. QED
  BY <1>1, <1>4 DEF a

(* A new statement leaves the derivatives of the indices before it alone. *)
LEMMA AlongAppend ==
  ASSUME NEW t, TapeOK(t), NEW j \in 1 .. NumInputs + Len(t)
  PROVE  /\ TapeOK(Append(t, j)) /\ Len(Append(t, j)) = Len(t) + 1
         /\ \A i \in IndicesOf(t) : i \in IndicesOf(Append(t, j))
         /\ \A i \in IndicesOf(t) : Along(Append(t, j))[i] = Along(t)[i]
         /\ NumInputs + Len(t) + 1 \in IndicesOf(Append(t, j))
         /\ Along(Append(t, j))[NumInputs + Len(t) + 1] = -Along(t)[j]
<1> DEFINE n == NumInputs + Len(t)
           u == Append(t, j)
           a == Along(t)
           b == Along(u)
           S == {i \in 0 .. n : b[i] = a[i]}
<1>1. /\ n \in Nat /\ Len(t) \in Nat /\ IndicesOf(t) = 0 .. n /\ t \in Seq(Nat)
      /\ \A i \in 0 .. n : ~(i <= NumInputs) => t[i - NumInputs] \in 1 .. i - 1
  BY DEF TapeOK, NumInputs, IndicesOf
<1>2. /\ u \in Seq(Nat) /\ Len(u) = Len(t) + 1 /\ u[Len(t) + 1] = j
      /\ \A i \in 1 .. Len(t) : u[i] = t[i]
  <2>1. j \in Nat
    BY <1>1
  <2>2. QED
    BY <1>1, <2>1
<1>3. TapeOK(u)
  BY <1>2 DEF TapeOK, NumInputs
<1>4. IndicesOf(u) = 0 .. n + 1
  BY <1>1, <1>2 DEF IndicesOf, NumInputs
<1>5. /\ a \in [0 .. n -> Int]
      /\ \A i \in 0 .. n : a[i] = IF i <= NumInputs THEN i ELSE -a[t[i - NumInputs]]
  BY <1>1, AlongRule
<1>6. /\ b \in [0 .. n + 1 -> Int]
      /\ \A i \in 0 .. n + 1 : b[i] = IF i <= NumInputs THEN i ELSE -b[u[i - NumInputs]]
  <2> HIDE DEF u
  <2>1. QED
    BY <1>3, <1>4, AlongRule
<1>7. \A i \in 0 .. n : ~(i <= NumInputs) => u[i - NumInputs] = t[i - NumInputs]
  BY <1>1, <1>2 DEF NumInputs
<1> HIDE DEF a, b, u
<1>8. Inductive(S, n)
  <2> SUFFICES ASSUME NEW i \in 0 .. n, \A k \in 0 .. i - 1 : k \in S
               PROVE  b[i] = a[i]
    BY DEF Inductive
  <2>0. i \in 0 .. n + 1
    BY <1>1
  <2>1. CASE i <= NumInputs
    BY <2>0, <2>1, <1>5, <1>6
  <2>2. CASE ~(i <= NumInputs)
    <3>1. u[i - NumInputs] = t[i - NumInputs] /\ t[i - NumInputs] \in 0 .. i - 1
      BY <2>2, <1>1, <1>7
    <3>2. a[i] = -a[t[i - NumInputs]] /\ b[i] = -b[t[i - NumInputs]]
      BY <2>0, <2>2, <1>5, <1>6, <3>1
    <3>3. QED
      BY <3>1, <3>2
  <2>3. QED
    BY <2>1, <2>2
<1>9. \A i \in 0 .. n : i \in S
  <2>1. n \in Int
    BY <1>1
  <2> HIDE DEF S, n
  <2>2. QED
    BY <2>1, <1>8, UpTo
<1>10. b[n + 1] = -b[j]
  <2>1. n + 1 \in 0 .. n + 1 /\ ~(n + 1 <= NumInputs) /\ (n + 1) - NumInputs = Len(t) + 1
    BY <1>1 DEF NumInputs
  <2> HIDE DEF n
  <2>2. b[n + 1] = -b[u[(n + 1) - NumInputs]]
    BY <2>1, <1>6, Zenon
  <2>3. QED
    BY <2>1, <2>2, <1>2
<1>11. b[j] = a[j]
  BY <1>9, <1>1
<1>12. QED
  BY <1>1, <1>2, <1>3, <1>4, <1>9, <1>10, <1>11 DEF a, b, u

-----------------------------------------------------------------------------
(* What the handlers of recording mode do with an index.                   *)

Recordable == Number(1) \cup Number(2)

\* The states st the handlers work on.
States == [out : [1 .. 2 -> Nat], tape : Seq(Nat), values : Seq(Recordable)]

StateOK(st) == /\ st \in States
               /\ TapeOK(st.tape)
               /\ Len(st.values) = Len(st.tape)
               /\ st.out \in [1 .. 2 -> IndicesOf(st.tape)]

\* The value recorded with index i, in being the inputs.
RecordedAs(in, vals, i) == IF i <= NumInputs THEN in[i] ELSE vals[i - NumInputs]

\* Indices that are assigned in state st have the same meaning in state st2.
Extends(st, st2) ==
  \A i \in IndicesOf(st.tape) :
    /\ i \in IndicesOf(st2.tape)
    /\ Along(st2.tape)[i] = Along(st.tape)[i]
    /\ \A in : RecordedAs(in, st2.values, i) = RecordedAs(in, st.values, i)

\* The handlers keep the index of y, or replace it by that of -y.
Move(st, neg, y, yi) == IF neg THEN AddMinus(st, y, yi) ELSE KeepIndex(st, yi)

(* The states that a move leads to are proper. *)
LEMMA KeepFacts ==
  ASSUME NEW st, StateOK(st), NEW yi \in IndicesOf(st.tape)
  PROVE  /\ StateOK(KeepIndex(st, yi))
         /\ KeepIndex(st, yi).out[1] = yi
         /\ KeepIndex(st, yi).out[2] = st.out[2]
         /\ KeepIndex(st, yi).tape = st.tape
         /\ KeepIndex(st, yi).values = st.values
<1>1. st \in States /\ st.out \in [1 .. 2 -> IndicesOf(st.tape)]
  BY DEF StateOK
<1>2. IndicesOf(st.tape) \subseteq Nat
  BY <1>1 DEF IndicesOf, NumInputs, States
<1>3. KeepIndex(st, yi) = [st EXCEPT !.out = [st.out EXCEPT ![1] = yi]]
  BY <1>1 DEF KeepIndex, States
<1>4. /\ KeepIndex(st, yi) \in States
      /\ KeepIndex(st, yi).out = [st.out EXCEPT ![1] = yi]
      /\ KeepIndex(st, yi).tape = st.tape /\ KeepIndex(st, yi).values = st.values
  BY <1>1, <1>2, <1>3 DEF States
<1>5. QED
  BY <1>1, <1>4 DEF StateOK

LEMMA AddFacts ==
  ASSUME dg_disable = 0, NEW st, StateOK(st), NEW yi \in IndicesOf(st.tape), yi # 0, NEW y \in Recordable
  PROVE  LET st2 == AddMinus(st, y, yi)
         IN  /\ StateOK(st2) /\ Extends(st, st2)
             /\ st2.out[1] = NumInputs + Len(st.tape) + 1
             /\ st2.out[2] = st.out[2]
             /\ st2.out[1] \in IndicesOf(st2.tape)
             /\ Along(st2.tape)[st2.out[1]] = -Along(st.tape)[yi]
             /\ \A in : RecordedAs(in, st2.values, st2.out[1]) = Negate(y)
<1> DEFINE u == Append(st.tape, yi)
           v == Append(st.values, Negate(y))
           k == NumInputs + Len(st.tape) + 1
           o == [st.out EXCEPT ![1] = k]
<1>1. /\ st \in States /\ TapeOK(st.tape) /\ Len(st.values) = Len(st.tape)
      /\ st.out \in [1 .. 2 -> IndicesOf(st.tape)]
      /\ st.tape \in Seq(Nat) /\ st.values \in Seq(Recordable) /\ Len(st.tape) \in Nat
  BY DEF StateOK, States
<1>2. Negate(y) \in Recordable
  BY NumberFacts DEF Recordable
<1>3. yi \in 1 .. NumInputs + Len(st.tape) /\ yi \in Nat
  BY <1>1 DEF IndicesOf, NumInputs
<1>4. /\ TapeOK(u) /\ Len(u) = Len(st.tape) + 1
      /\ \A i \in IndicesOf(st.tape) : i \in IndicesOf(u)
      /\ \A i \in IndicesOf(st.tape) : Along(u)[i] = Along(st.tape)[i]
      /\ k \in IndicesOf(u)
      /\ Along(u)[k] = -Along(st.tape)[yi]
  BY <1>1, <1>3, AlongAppend
<1>5. /\ v \in Seq(Recordable) /\ Len(v) = Len(st.values) + 1
      /\ v[Len(st.values) + 1] = Negate(y)
      /\ \A i \in 1 .. Len(st.values) : v[i] = st.values[i]
  BY <1>1, <1>2, AppendProperties
<1>6. u \in Seq(Nat) /\ k \in Nat /\ IndicesOf(u) \subseteq Nat
  BY <1>1, <1>3, <1>4 DEF NumInputs, IndicesOf, TapeOK
<1>7. o \in [1 .. 2 -> IndicesOf(u)] /\ o[1] = k /\ o[2] = st.out[2] /\ o \in [1 .. 2 -> Nat]
  <2> DEFINE I == IndicesOf(u)
  <2>1. st.out \in [1 .. 2 -> I] /\ k \in I /\ I \subseteq Nat
    BY <1>1, <1>4, <1>6
  <2> HIDE DEF u, k, I
  <2>2. o \in [1 .. 2 -> I] /\ o[1] = k /\ o[2] = st.out[2]
    BY <2>1
  <2>3. o \in [1 .. 2 -> Nat]
    BY <2>1, <2>2
  <2>4. QED
    BY <2>2, <2>3 DEF I
<1>8. AddMinus(st, y, yi) = [out |-> o, tape |-> u, values |-> v]
  BY DEF AddMinus
<1>9. \A in : RecordedAs(in, v, k) = Negate(y)
  <2>1. ~(k <= NumInputs) /\ k - NumInputs = Len(st.values) + 1
    BY <1>1 DEF NumInputs
  <2> HIDE DEF k
  <2>2. QED
    BY <2>1, <1>5 DEF RecordedAs
<1>10. \A i \in IndicesOf(st.tape) : \A in : RecordedAs(in, v, i) = RecordedAs(in, st.values, i)
  <2>1. \A i \in IndicesOf(st.tape) : ~(i <= NumInputs) => i - NumInputs \in 1 .. Len(st.values)
    BY <1>1 DEF IndicesOf, NumInputs
  <2>2. QED
    BY <2>1, <1>5 DEF RecordedAs
<1> HIDE DEF u, v, k, o
<1> DEFINE st2 == [out |-> o, tape |-> u, values |-> v]
<1>11. st2.out = o /\ st2.tape = u /\ st2.values = v /\ st2 \in States
  BY <1>5, <1>6, <1>7 DEF States
<1> HIDE DEF st2
<1>12. StateOK(st2)
  BY <1>1, <1>4, <1>5, <1>7, <1>11 DEF StateOK
<1>13. Extends(st, st2)
  BY <1>4, <1>10, <1>11 DEF Extends
<1>14. QED
  BY <1>4, <1>7, <1>8, <1>9, <1>11, <1>12, <1>13 DEF st2, k

(* A move leaves earlier indices alone; its result stands for y or -y. *)
LEMMA MoveFacts ==
  ASSUME dg_disable = 0, NEW st, StateOK(st), NEW yi \in IndicesOf(st.tape), NEW y \in Recordable,
         NEW neg \in BOOLEAN
  PROVE  LET st2 == Move(st, neg, y, yi)
         IN  /\ StateOK(st2) /\ Extends(st, st2)
             /\ st2.out[1] \in IndicesOf(st2.tape)
             /\ st2.out[1] = 0 <=> yi = 0
             /\ yi = 0 => st2.tape = st.tape /\ st2.values = st.values
             /\ Along(st2.tape)[st2.out[1]] =
                  IF neg THEN -Along(st.tape)[yi] ELSE Along(st.tape)[yi]
             /\ yi # 0 => \A in : RecordedAs(in, st2.values, st2.out[1]) =
                            IF neg THEN Negate(y) ELSE RecordedAs(in, st.values, yi)
<1>0. /\ TapeOK(st.tape) /\ 0 \in IndicesOf(st.tape) /\ Len(st.tape) \in Nat
  BY DEF StateOK, States, IndicesOf, NumInputs
<1>1. Along(st.tape)[0] = 0
  BY <1>0, AlongZero
<1>2. CASE neg /\ yi # 0
  <2>1. Move(st, neg, y, yi) = AddMinus(st, y, yi)
    BY <1>2 DEF Move
  <2>2. NumInputs + Len(st.tape) + 1 # 0
    BY <1>0 DEF NumInputs
  <2> DEFINE st2 == AddMinus(st, y, yi)
  <2>a. /\ StateOK(st2) /\ Extends(st, st2)
        /\ st2.out[1] = NumInputs + Len(st.tape) + 1
        /\ st2.out[1] \in IndicesOf(st2.tape)
        /\ Along(st2.tape)[st2.out[1]] = -Along(st.tape)[yi]
        /\ \A in : RecordedAs(in, st2.values, st2.out[1]) = Negate(y)
    BY <1>2, AddFacts
  <2> HIDE DEF st2
  <2>b. Move(st, neg, y, yi) = st2
    BY <2>1 DEF st2
  <2>3. QED
    BY <1>2, <2>b, <2>2, <2>a
<1>3. CASE ~(neg /\ yi # 0)
  <2>1. Move(st, neg, y, yi) = KeepIndex(st, yi)
    BY <1>3 DEF Move, AddMinus
  <2> DEFINE st2 == KeepIndex(st, yi)
  <2>2. /\ StateOK(st2) /\ st2.out[1] = yi /\ st2.tape = st.tape /\ st2.values = st.values
    BY KeepFacts
  <2> HIDE DEF st2
  <2>3. Extends(st, st2)
    BY <2>2 DEF Extends
  <2>4. neg => -Along(st.tape)[yi] = Along(st.tape)[yi]
    BY <1>1, <1>3
  <2>5. QED
    BY <1>3, <2>1, <2>2, <2>3, <2>4 DEF st2
<1>4. QED
  BY <1>2, <1>3

(* The first two also in a bracket, where -y gets index 0. *)
LEMMA MoveTypes ==
  ASSUME NEW st, StateOK(st), NEW yi \in IndicesOf(st.tape), NEW y \in Recordable,
         NEW neg \in BOOLEAN
  PROVE  /\ StateOK(Move(st, neg, y, yi)) /\ Extends(st, Move(st, neg, y, yi))
         /\ yi = 0 => Move(st, neg, y, yi).out[1] = 0
<1>1. CASE dg_disable = 0
  BY <1>1, MoveFacts
<1>2. CASE dg_disable # 0
  <2> DEFINE i == IF neg THEN 0 ELSE yi
             st2 == KeepIndex(st, i)
  <2>1. Move(st, neg, y, yi) = st2
    BY <1>2 DEF Move, AddMinus
  <2>2. 0 \in IndicesOf(st.tape)
    BY DEF StateOK, States, IndicesOf, NumInputs
  <2>3. i \in IndicesOf(st.tape) /\ (yi = 0 => i = 0)
    BY <2>2
  <2> HIDE DEF i
  <2>4. /\ StateOK(st2) /\ st2.out[1] = i /\ st2.tape = st.tape /\ st2.values = st.values
    BY <2>3, KeepFacts
  <2> HIDE DEF st2
  <2>5. Extends(st, st2)
    BY <2>4 DEF Extends
  <2>6. QED
    BY <2>1, <2>3, <2>4, <2>5
<1>3. QED
  BY <1>1, <1>2

-----------------------------------------------------------------------------
(* The index of a number, and what it says of the number.                  *)

\* Index i, in state st, belongs to number s whose derivative is in D.
Fine(in, st, s, i, D) ==
  /\ i \in IndicesOf(st.tape)
  /\ D \subseteq -2 .. 2
  /\ D # {} => Along(st.tape)[i] \in D /\ (i # 0 => SameNumber(RecordedAs(in, st.values, i), s))
  /\ IsNaN(s) => D \in {{}, {0}}

LEMMA FineExtends ==
  ASSUME NEW in, NEW st, NEW st2, NEW s, NEW i, NEW D, Fine(in, st, s, i, D), Extends(st, st2)
  PROVE  Fine(in, st2, s, i, D)
  BY DEF Fine, Extends

(* Constants have index 0, and only they. *)
LEMMA FineConstant ==
  ASSUME NEW in, NEW st, StateOK(st), NEW s, NEW i
  PROVE  /\ Fine(in, st, s, i, {0}) <=> i = 0
         /\ i \in IndicesOf(st.tape) => Fine(in, st, s, i, {})
         /\ \A D : Fine(in, st, s, 0, D) /\ D # {} => 0 \in D
<1>1. TapeOK(st.tape) /\ 0 \in IndicesOf(st.tape)
  BY DEF StateOK, States, IndicesOf, NumInputs
<1>2. \A j \in IndicesOf(st.tape) : Along(st.tape)[j] = 0 <=> j = 0
  BY <1>1, AlongZero
<1>3. {0} \subseteq -2 .. 2 /\ {} \subseteq -2 .. 2
  OBVIOUS
<1>4. QED
  BY <1>1, <1>2, <1>3 DEF Fine

LEMMA ConstantIndex ==
  ASSUME NEW in, NEW st, StateOK(st), NEW s, NEW i, NEW D, Fine(in, st, s, i, D), D = {0}
  PROVE  i = 0
<1>1. Fine(in, st, s, i, {0})
  OBVIOUS
<1>2. QED
  BY <1>1, FineConstant

(* A number under a mask, if the decision to negate was right. *)
LEMMA FineMove ==
  ASSUME dg_disable = 0, NEW n \in 1 .. 2, NEW y \in Number(n), NEW op \in Ops, NEW m \in Masks(op, n),
         NEW in, NEW st, StateOK(st), NEW yi, NEW D, Fine(in, st, y, yi, D),
         NEW neg \in BOOLEAN, IsNaN(y) \/ Decides(neg, op, m, y)
  PROVE  LET st2 == Move(st, neg, y, yi)
         IN  Fine(in, st2, Apply(op, m, y), st2.out[1], UnderMask(op, m, y, D))
<1> DEFINE st2 == Move(st, neg, y, yi)
           U == UnderMask(op, m, y, D)
           r == Apply(op, m, y)
<1>1. /\ D = {} <=> U = {}
      /\ D = {0} => U = {0}
      /\ 0 \in D => 0 \in U
      /\ D \subseteq -2 .. 2 => U \subseteq -2 .. 2
  BY UnderRange
<1>2. y \in Recordable /\ yi \in IndicesOf(st.tape) /\ D \subseteq -2 .. 2
  BY DEF Recordable, Fine
<1>3. /\ StateOK(st2) /\ st2.out[1] \in IndicesOf(st2.tape)
      /\ st2.out[1] = 0 <=> yi = 0
      /\ Along(st2.tape)[st2.out[1]] = (IF neg THEN -Along(st.tape)[yi] ELSE Along(st.tape)[yi])
      /\ yi # 0 => RecordedAs(in, st2.values, st2.out[1]) =
                     IF neg THEN Negate(y) ELSE RecordedAs(in, st.values, yi)
  BY <1>2, MoveFacts
<1>4. IsNaN(r) <=> IsNaN(y)
  BY Masked, NegateFacts
<1>5. CASE IsNaN(y)
  <2>1. D \in {{}, {0}} /\ U = D
    BY <1>1, <1>5 DEF Fine
  <2>2. D = {0} => yi = 0
    BY ConstantIndex, Zenon
  <2> HIDE DEF st2, U, r
  <2>3. Fine(in, st2, r, st2.out[1], U)
    BY <2>1, <2>2, <1>3, FineConstant, SMTT(40)
  <2>4. QED
    BY <2>3 DEF st2, U, r
<1>6. CASE ~IsNaN(y)
  <2>1. Decides(neg, op, m, y)
    BY <1>6
  <2>2. D \in SUBSET Int
    BY <1>2
  <2>3. /\ \A v \in D : (IF neg THEN -v ELSE v) \in U
        /\ SameNumber(IF neg THEN Negate(y) ELSE y, r)
    BY <2>1, <2>2, RightDecision
  <2>4. IsZero(Negate(y)) <=> IsZero(y)
    BY NegateFacts
  <2> HIDE DEF st2, U, r
  <2>5. ASSUME U # {} PROVE Along(st2.tape)[st2.out[1]] \in U
    BY <2>5, <2>3, <1>1, <1>3 DEF Fine
  <2>6. ASSUME U # {}, st2.out[1] # 0
        PROVE  SameNumber(RecordedAs(in, st2.values, st2.out[1]), r)
    BY <2>6, <2>3, <2>4, <1>1, <1>3 DEF Fine, SameNumber
  <2>7. Fine(in, st2, r, st2.out[1], U)
    BY <1>1, <1>2, <1>3, <1>4, <1>6, <2>5, <2>6 DEF Fine
  <2>8. QED
    BY <2>7 DEF st2, U, r
<1>7. QED
  BY <1>5, <1>6

\* The handlers' conditions for a change of sign.
BarTurns(op, m, y) == \/ op = "xor"
                      \/ op = "and" /\ ~Sign(m) /\ ~AtLeast0(y)
                      \/ op = "or" /\ Sign(m) /\ ~AtMost0(y)

DotTurns(op, m, y) == \/ op = "xor"
                      \/ op = "and" /\ ~Sign(m) /\ Below0(y)
                      \/ op = "or" /\ Sign(m) /\ Above0(y)

(* They decide right, unless the number is NaN. *)
LEMMA TurnsDecide ==
  ASSUME NEW op \in Ops, NEW m, NEW y, ~IsNaN(y)
  PROVE  /\ BarTurns(op, m, y) \in BOOLEAN /\ DotTurns(op, m, y) \in BOOLEAN
         /\ Decides(BarTurns(op, m, y), op, m, y)
         /\ Decides(DotTurns(op, m, y), op, m, y)
  BY DEF Decides, BarTurns, DotTurns, Turned, TakesAbs, AtLeast0, AtMost0, Below0, Above0, Ops

\* Operand x is taken for the mask; c says that its shadow is that of a constant.
Takes(op, n, x, c) == x \in Masks(op, n) /\ (op = "and" \/ c)

(* The handlers of recording mode, in one form for all operations. *)
LEMMA BarForm ==
  ASSUME NEW n \in 1 .. 2, NEW x \in Number(n), NEW op \in Ops,
         NEW st, NEW xi, NEW y, NEW yi
  PROVE  bar_HANDLE(op, st, x, xi, y, yi) =
           IF Takes(op, n, x, xi = 0) THEN <<Move(st, BarTurns(op, x, y), y, yi)>> ELSE <<>>
<1>1. Len(x) = n
  BY NumberFacts
<1>2. ~Sign(SignClear[n]) /\ Sign(Ones[n]) /\ Sign(SignOnly[n]) /\ ~Sign(Zeros[n])
  BY MaskFacts
<1>3. SignClear[n] # Ones[n] /\ SignOnly[n] # Zeros[n]
  BY <1>2
<1>4. CASE op = "and"
  <2>1. bar_HANDLE(op, st, x, xi, y, yi) = bar_HANDLE_AND(st, x, xi, y, yi)
    BY <1>4 DEF bar_HANDLE
  <2>2. QED
    BY <1>1, <1>2, <1>3, <1>4, <2>1 DEF bar_HANDLE_AND, Takes, Masks, Move, BarTurns
<1>5. CASE op = "or"
  <2>1. bar_HANDLE(op, st, x, xi, y, yi) = bar_HANDLE_OR(st, x, xi, y, yi)
    BY <1>5 DEF bar_HANDLE
  <2>2. QED
    BY <1>1, <1>2, <1>3, <1>5, <2>1 DEF bar_HANDLE_OR, Takes, Masks, Move, BarTurns
<1>6. CASE op = "xor"
  <2>1. bar_HANDLE(op, st, x, xi, y, yi) = bar_HANDLE_XOR(st, x, xi, y, yi)
    BY <1>6 DEF bar_HANDLE
  <2>2. QED
    BY <1>1, <1>6, <2>1 DEF bar_HANDLE_XOR, Takes, Masks, Move, BarTurns
<1>7. QED
  BY <1>4, <1>5, <1>6 DEF Ops

(* The first operand is the mask. *)
LEMMA FineFirst ==
  ASSUME dg_disable = 0, NEW n \in 1 .. 2, NEW x \in Number(n), NEW y \in Number(n), NEW op \in Ops,
         NEW in, NEW st, StateOK(st), NEW xi, NEW yi, NEW dx, NEW dy,
         Fine(in, st, x, xi, dx), Fine(in, st, y, yi, dy), Takes(op, n, x, xi = 0)
  PROVE  LET st2 == Move(st, BarTurns(op, x, y), y, yi)
         IN  Fine(in, st2, Apply(op, x, y), st2.out[1], Reference(op, x, dx, y, dy))
<1> DEFINE neg == BarTurns(op, x, y)
           st2 == Move(st, neg, y, yi)
           R == Reference(op, x, dx, y, dy)
<1>1. /\ x \in Masks(op, n) /\ (op = "and" \/ xi = 0) /\ y \in Recordable
      /\ yi \in IndicesOf(st.tape) /\ neg \in BOOLEAN
  BY DEF Takes, Fine, Recordable, BarTurns
<1>2. IsNaN(y) \/ Decides(neg, op, x, y)
  BY TurnsDecide
<1> HIDE DEF neg
<1>3. /\ StateOK(st2) /\ st2.out[1] \in IndicesOf(st2.tape)
      /\ st2.out[1] = 0 <=> yi = 0
      /\ yi = 0 => st2.tape = st.tape /\ st2.values = st.values
  BY <1>1, MoveFacts
<1>4. Fine(in, st2, Apply(op, x, y), st2.out[1], UnderMask(op, x, y, dy))
  BY <1>1, <1>2, FineMove
<1>5. dy = {0} => yi = 0
  BY ConstantIndex, Zenon
<1> HIDE DEF st2
<1>6. CASE op = "and" \/ dx = {0}
  <2>1. \/ dx = {0} /\ dy = {0} /\ R = {0}
        \/ R = UnderMask(op, x, y, dy)
    BY <1>1, <1>6, FirstIsMask
  <2>2. R = {0} /\ yi = 0 => Fine(in, st2, Apply(op, x, y), st2.out[1], R)
    BY <1>3, FineConstant
  <2>3. QED
    BY <1>4, <1>5, <2>1, <2>2 DEF st2, neg
<1>7. CASE op # "and" /\ dx # {0}
  <2>1. \/ R = {}
        \/ dy = {0} /\ y \in Masks(op, n) /\ R = UnderMask(op, y, x, dx)
    BY <1>1, <1>7, FirstIsMask
  <2>2. CASE R = {}
    <3>1. Fine(in, st2, Apply(op, x, y), st2.out[1], R)
      BY <2>2, <1>3, FineConstant
    <3>2. QED
      BY <3>1 DEF st2, neg
  <2>3. CASE dy = {0} /\ y \in Masks(op, n) /\ R = UnderMask(op, y, x, dx)
    <3> DEFINE t == Turned(op, y, x)
               st3 == Move(st, t, x, xi)
    <3>1. t \in BOOLEAN /\ Decides(t, op, y, x) /\ x \in Recordable /\ xi \in IndicesOf(st.tape)
      BY DEF Turned, Decides, Recordable, Fine
    <3> HIDE DEF t
    <3>2. Fine(in, st3, Apply(op, y, x), st3.out[1], UnderMask(op, y, x, dx))
      BY <2>3, <3>1, FineMove
    <3>3. st3.out[1] = 0 /\ st3.tape = st.tape /\ st3.values = st.values
      BY <1>1, <1>7, <3>1, MoveFacts
    <3>4. Apply(op, y, x) = Apply(op, x, y)
      BY ApplyFacts
    <3> HIDE DEF st3
    <3>5. Fine(in, st2, Apply(op, x, y), st2.out[1], R)
      BY <3>2, <3>3, <3>4, <2>3, <1>3, <1>5 DEF Fine
    <3>6. QED
      BY <3>5 DEF st2, neg
  <2>4. QED
    BY <2>1, <2>2, <2>3
<1>8. QED
  BY <1>6, <1>7

(* The second operand is the mask, after the first one was found to be none. *)
LEMMA FineSecond ==
  ASSUME dg_disable = 0, NEW n \in 1 .. 2, NEW x \in Number(n), NEW y \in Number(n), NEW op \in Ops,
         NEW in, NEW st, StateOK(st), NEW xi, NEW yi, NEW dx, NEW dy,
         Fine(in, st, x, xi, dx), Fine(in, st, y, yi, dy),
         ~Takes(op, n, x, xi = 0), Takes(op, n, y, yi = 0)
  PROVE  LET st2 == Move(st, BarTurns(op, y, x), x, xi)
         IN  Fine(in, st2, Apply(op, x, y), st2.out[1], Reference(op, x, dx, y, dy))
<1> DEFINE neg == BarTurns(op, y, x)
           st2 == Move(st, neg, x, xi)
           R == Reference(op, x, dx, y, dy)
<1>1. /\ y \in Masks(op, n) /\ x \in Recordable
      /\ xi \in IndicesOf(st.tape) /\ neg \in BOOLEAN
  BY DEF Takes, Fine, Recordable, BarTurns
<1>2. IsNaN(x) \/ Decides(neg, op, y, x)
  BY TurnsDecide
<1> HIDE DEF neg
<1>3. /\ StateOK(st2) /\ st2.out[1] \in IndicesOf(st2.tape)
      /\ st2.out[1] = 0 <=> xi = 0
  BY <1>1, MoveFacts
<1>4. Fine(in, st2, Apply(op, y, x), st2.out[1], UnderMask(op, y, x, dx))
  BY <1>1, <1>2, FineMove
<1>5. dx = {0} => xi = 0
  BY ConstantIndex, Zenon
<1>6. x \notin Masks(op, n) \/ (op # "and" /\ dx # {0})
  BY <1>5 DEF Takes
<1>7. Apply(op, y, x) = Apply(op, x, y)
  BY ApplyFacts
<1>8. \/ dx = {0} /\ R = {0}
      \/ R = UnderMask(op, y, x, dx)
      \/ R = {}
  BY <1>1, <1>6, SecondIsMask
<1> HIDE DEF st2
<1>9. Fine(in, st2, Apply(op, x, y), st2.out[1], R)
  <2>1. R = {0} /\ xi = 0 => Fine(in, st2, Apply(op, x, y), st2.out[1], R)
    BY <1>3, FineConstant
  <2>2. R = {} => Fine(in, st2, Apply(op, x, y), st2.out[1], R)
    BY <1>3, FineConstant
  <2>3. QED
    BY <1>4, <1>5, <1>7, <1>8, <2>1, <2>2
<1>10. QED
  BY <1>9 DEF st2, neg

\* There is no derivative, or it is 0 for one of these reasons.
NoneKnown(op, x, xi, dx, y, yi, dy) ==
  \/ Reference(op, x, dx, y, dy) = {}
  \/ /\ Reference(op, x, dx, y, dy) = {0}
     /\ \/ xi = 0 /\ yi = 0
        \/ op = "and" /\ dx = {0} /\ dy # {0} /\ IsZero(x)
        \/ op = "and" /\ dy = {0} /\ dx # {0} /\ IsZero(y)

(* Neither operand is a mask: no derivative, or none other than 0. *)
LEMMA FineNone ==
  ASSUME NEW n \in 1 .. 2, NEW x \in Number(n), NEW y \in Number(n), NEW op \in Ops,
         NEW in, NEW st, StateOK(st), NEW xi, NEW yi, NEW dx, NEW dy,
         Fine(in, st, x, xi, dx), Fine(in, st, y, yi, dy),
         ~Takes(op, n, x, xi = 0), ~Takes(op, n, y, yi = 0)
  PROVE  NoneKnown(op, x, xi, dx, y, yi, dy)
<1>1. dx = {0} => xi = 0
  BY ConstantIndex, Zenon
<1>2. dy = {0} => yi = 0
  BY ConstantIndex, Zenon
<1>3. x \notin Masks(op, n) \/ (op # "and" /\ dx # {0})
  BY <1>1 DEF Takes
<1>4. y \notin Masks(op, n) \/ (op # "and" /\ dy # {0})
  BY <1>2 DEF Takes
<1>5. QED
  BY <1>1, <1>2, <1>3, <1>4, NoneIsMask DEF NoneKnown

\* Index 0 for all halves.
Cleared(st) == [st EXCEPT !.out = <<0, 0>>]

LEMMA ClearedFacts ==
  ASSUME NEW st, StateOK(st)
  PROVE  /\ StateOK(Cleared(st)) /\ Extends(st, Cleared(st)) /\ Cleared(st).out[1] = 0
         /\ Cleared(st).tape = st.tape /\ Cleared(st).values = st.values
<1>1. /\ st \in States /\ TapeOK(st.tape) /\ Len(st.values) = Len(st.tape)
      /\ 0 \in IndicesOf(st.tape)
  BY DEF StateOK, States, IndicesOf, NumInputs
<1>2. /\ Cleared(st) \in States /\ Cleared(st).out = <<0, 0>>
      /\ Cleared(st).tape = st.tape /\ Cleared(st).values = st.values
  BY <1>1, SMTT(40) DEF Cleared, States
<1>3. <<0, 0>> \in [1 .. 2 -> IndicesOf(st.tape)]
  BY <1>1
<1>4. QED
  BY <1>1, <1>2, <1>3 DEF StateOK, Extends

(* dg_bar_bitwise32. *)
LEMMA Bar32Form ==
  ASSUME NEW x \in Number(1), NEW y \in Number(1), NEW op \in Ops, NEW st, NEW xi, NEW yi
  PROVE  dg_bar_bitwise32(op, st, x, xi, y, yi) =
           IF Takes(op, 1, x, xi = 0) THEN Move(st, BarTurns(op, x, y), y, yi)
           ELSE IF Takes(op, 1, y, yi = 0) THEN Move(st, BarTurns(op, y, x), x, xi)
           ELSE Cleared(st)
<1>1. bar_HANDLE(op, st, x, xi, y, yi) =
           IF Takes(op, 1, x, xi = 0) THEN <<Move(st, BarTurns(op, x, y), y, yi)>> ELSE <<>>
  BY BarForm
<1>2. bar_HANDLE(op, st, y, yi, x, xi) =
           IF Takes(op, 1, y, yi = 0) THEN <<Move(st, BarTurns(op, y, x), x, xi)>> ELSE <<>>
  BY BarForm
<1>3. QED
  BY <1>1, <1>2 DEF dg_bar_bitwise32, FirstOf, Cleared

(* It leads to a proper state, and gives constants and unknown masks index 0. *)
LEMMA Bar32Types ==
  ASSUME NEW x \in Number(1), NEW y \in Number(1), NEW op \in Ops, NEW st, StateOK(st),
         NEW xi \in IndicesOf(st.tape), NEW yi \in IndicesOf(st.tape)
  PROVE  LET st2 == dg_bar_bitwise32(op, st, x, xi, y, yi)
         IN  /\ StateOK(st2) /\ Extends(st, st2)
             /\ st2.out[1] \in IndicesOf(st2.tape)
             /\ xi = 0 /\ yi = 0 => st2.out[1] = 0
             /\ x \notin Masks(op, 1) /\ y \notin Masks(op, 1) => st2.out[1] = 0
<1> DEFINE n1 == BarTurns(op, x, y)
           n2 == BarTurns(op, y, x)
           s1 == Move(st, n1, y, yi)
           s2 == Move(st, n2, x, xi)
           s3 == Cleared(st)
<1>1. x \in Recordable /\ y \in Recordable /\ n1 \in BOOLEAN /\ n2 \in BOOLEAN
  BY DEF Recordable, BarTurns
<1>5. dg_bar_bitwise32(op, st, x, xi, y, yi) =
           IF Takes(op, 1, x, xi = 0) THEN s1 ELSE IF Takes(op, 1, y, yi = 0) THEN s2 ELSE s3
  BY Bar32Form
<1> HIDE DEF n1, n2
<1>2. StateOK(s1) /\ Extends(st, s1) /\ (yi = 0 => s1.out[1] = 0)
  BY <1>1, MoveTypes, Zenon
<1>3. StateOK(s2) /\ Extends(st, s2) /\ (xi = 0 => s2.out[1] = 0)
  BY <1>1, MoveTypes, Zenon
<1>4. StateOK(s3) /\ Extends(st, s3) /\ s3.out[1] = 0
  BY ClearedFacts
<1> HIDE DEF s1, s2, s3
<1>6. /\ s1.out[1] \in IndicesOf(s1.tape) /\ s2.out[1] \in IndicesOf(s2.tape)
      /\ s3.out[1] \in IndicesOf(s3.tape)
  BY <1>2, <1>3, <1>4 DEF StateOK
<1>7. CASE Takes(op, 1, x, xi = 0)
  BY <1>2, <1>5, <1>6, <1>7 DEF Takes
<1>8. CASE ~Takes(op, 1, x, xi = 0) /\ Takes(op, 1, y, yi = 0)
  BY <1>3, <1>5, <1>6, <1>8 DEF Takes
<1>9. CASE ~Takes(op, 1, x, xi = 0) /\ ~Takes(op, 1, y, yi = 0)
  BY <1>4, <1>5, <1>6, <1>9
<1>10. QED
  BY <1>7, <1>8, <1>9

(* The index it leaves belongs to the result. *)
LEMMA Bar32Fine ==
  ASSUME dg_disable = 0, NEW x \in Number(1), NEW y \in Number(1), NEW op \in Ops,
         NEW in, NEW st, StateOK(st), NEW xi, NEW yi, NEW dx, NEW dy,
         Fine(in, st, x, xi, dx), Fine(in, st, y, yi, dy)
  PROVE  LET st2 == dg_bar_bitwise32(op, st, x, xi, y, yi)
         IN  Fine(in, st2, Apply(op, x, y), st2.out[1], Reference(op, x, dx, y, dy))
<1> DEFINE s1 == Move(st, BarTurns(op, x, y), y, yi)
           s2 == Move(st, BarTurns(op, y, x), x, xi)
           s3 == Cleared(st)
           r == Apply(op, x, y)
           R == Reference(op, x, dx, y, dy)
           T1 == Takes(op, 1, x, xi = 0)
           T2 == Takes(op, 1, y, yi = 0)
<1>1. T1 => Fine(in, s1, r, s1.out[1], R)
  BY FineFirst
<1>2. ~T1 /\ T2 => Fine(in, s2, r, s2.out[1], R)
  BY FineSecond
<1>3. ~T1 /\ ~T2 => R \in {{}, {0}}
  BY FineNone, SMTT(40) DEF NoneKnown
<1>4. StateOK(s3) /\ s3.out[1] = 0
  BY ClearedFacts
<1>5. dg_bar_bitwise32(op, st, x, xi, y, yi) = IF T1 THEN s1 ELSE IF T2 THEN s2 ELSE s3
  BY Bar32Form
<1> HIDE DEF s1, s2, s3, r, R, T1, T2
<1>6. ~T1 /\ ~T2 => Fine(in, s3, r, s3.out[1], R)
  <2>1. Fine(in, s3, r, 0, {0}) /\ 0 \in IndicesOf(s3.tape)
    BY <1>4, FineConstant DEF Fine
  <2>2. Fine(in, s3, r, 0, {})
    BY <2>1, <1>4, FineConstant
  <2>3. QED
    BY <1>3, <1>4, <2>1, <2>2
<1>7. LET st2 == dg_bar_bitwise32(op, st, x, xi, y, yi)
      IN  Fine(in, st2, r, st2.out[1], R)
  BY <1>1, <1>2, <1>5, <1>6
<1>8. QED
  BY <1>7 DEF r, R

-----------------------------------------------------------------------------
(* Words.                                                                  *)

(* A half is a float. *)
LEMMA OneHalf ==
  ASSUME NEW h \in Halves
  PROVE  <<h>> \in Number(1) /\ <<h>>[1] = h /\ Len(<<h>>) = 1
  BY DEF Number

(* A word consists of two floats, and so does the result of an operation. *)
LEMMA TwoHalves ==
  ASSUME NEW x \in Number(2), NEW y \in Number(2), NEW op \in Ops, NEW e \in 1 .. 2
  PROVE  /\ x[e] \in Halves /\ <<x[e]>> \in Number(1) /\ <<x[e]>>[1] = x[e]
         /\ <<y[e]>> \in Number(1)
         /\ Apply(op, x, y) \in Number(2)
         /\ <<Apply(op, x, y)[e]>> = Apply(op, <<x[e]>>, <<y[e]>>)
<1>1. x[e] \in Halves /\ y[e] \in Halves /\ Len(x) = 2
  BY DEF Number
<1>2. <<x[e]>> \in Number(1) /\ <<y[e]>> \in Number(1) /\ <<x[e]>>[1] = x[e] /\ <<y[e]>>[1] = y[e]
  BY <1>1, OneHalf
<1>3. Apply(op, x, y) \in Number(2)
  BY ApplyFacts
<1>4. Apply(op, x, y)[e] = BitOp(op, x[e], y[e])
  BY <1>1 DEF Apply
<1>5. Apply(op, <<x[e]>>, <<y[e]>>) \in Number(1)
  BY <1>2, ApplyFacts
<1>6. Apply(op, <<x[e]>>, <<y[e]>>)[1] = BitOp(op, x[e], y[e])
  BY <1>2 DEF Apply
<1>7. <<BitOp(op, x[e], y[e])>> = Apply(op, <<x[e]>>, <<y[e]>>)
  BY <1>5, <1>6 DEF Number
<1>8. QED
  BY <1>1, <1>2, <1>3, <1>4, <1>7

LEMMA ExtendsTrans ==
  ASSUME NEW s1, NEW s2, NEW s3, Extends(s1, s2), Extends(s2, s3)
  PROVE  Extends(s1, s3)
  BY DEF Extends

\* The halves are handled one after the other, each in a proper state.
HalvesStep(op, st, x, xi, y, yi) ==
  LET upper == dg_bar_bitwise32(op, st, <<x[2]>>, xi[2], <<y[2]>>, yi[2])
      lower == dg_bar_bitwise32(op, upper, <<x[1]>>, xi[1], <<y[1]>>, yi[1])
      st2   == bar_HALVES(op, st, x, xi, y, yi)
  IN  /\ StateOK(upper) /\ Extends(st, upper)
      /\ xi[1] \in IndicesOf(upper.tape) /\ yi[1] \in IndicesOf(upper.tape)
      /\ StateOK(lower) /\ Extends(upper, lower) /\ Extends(st, lower)
      /\ StateOK(st2) /\ st2.tape = lower.tape /\ st2.values = lower.values
      /\ st2.out[1] = lower.out[1] /\ st2.out[2] = upper.out[1]

(* The index in the lower half survives the handler of the upper half. *)
LEMMA BarHalves ==
  ASSUME NEW x \in Number(2), NEW y \in Number(2), NEW op \in Ops, NEW st, StateOK(st),
         NEW xi \in [1 .. 2 -> IndicesOf(st.tape)], NEW yi \in [1 .. 2 -> IndicesOf(st.tape)]
  PROVE  HalvesStep(op, st, x, xi, y, yi)
<1> DEFINE x1 == <<x[1]>>
           y1 == <<y[1]>>
           x2 == <<x[2]>>
           y2 == <<y[2]>>
           u == dg_bar_bitwise32(op, st, x2, xi[2], y2, yi[2])
           l == dg_bar_bitwise32(op, u, x1, xi[1], y1, yi[1])
           st2 == [l EXCEPT !.out[2] = u.out[1]]
<1>1. x1 \in Number(1) /\ x2 \in Number(1) /\ y1 \in Number(1) /\ y2 \in Number(1)
  <2>1. x[1] \in Halves /\ x[2] \in Halves /\ y[1] \in Halves /\ y[2] \in Halves
    BY DEF Number
  <2>2. QED
    BY <2>1, OneHalf
<1>2. /\ xi[1] \in IndicesOf(st.tape) /\ xi[2] \in IndicesOf(st.tape)
      /\ yi[1] \in IndicesOf(st.tape) /\ yi[2] \in IndicesOf(st.tape)
  OBVIOUS
<1>3. bar_HALVES(op, st, x, xi, y, yi) = st2
  BY DEF bar_HALVES
<1> HIDE DEF x1, x2, y1, y2
<1>4. StateOK(u) /\ Extends(st, u) /\ u.out[1] \in IndicesOf(u.tape)
  BY <1>1, <1>2, Bar32Types
<1>5. xi[1] \in IndicesOf(u.tape) /\ yi[1] \in IndicesOf(u.tape)
  BY <1>2, <1>4 DEF Extends
<1> HIDE DEF u
<1>6. StateOK(l) /\ Extends(u, l)
  BY <1>1, <1>4, <1>5, Bar32Types, Zenon
<1>7. Extends(st, l) /\ u.out[1] \in IndicesOf(l.tape)
  BY <1>4, <1>6, ExtendsTrans DEF Extends
<1> HIDE DEF l
<1>8. StateOK(st2) /\ st2.tape = l.tape /\ st2.values = l.values
      /\ st2.out[1] = l.out[1] /\ st2.out[2] = u.out[1]
  <2>1. l \in States /\ l.out \in [1 .. 2 -> IndicesOf(l.tape)]
    BY <1>6 DEF StateOK
  <2>2. st2 = [l EXCEPT !.out = [l.out EXCEPT ![2] = u.out[1]]]
    BY <2>1 DEF States
  <2> DEFINE o == [l.out EXCEPT ![2] = u.out[1]]
             I == IndicesOf(l.tape)
  <2>3. I \subseteq Nat /\ u.out[1] \in I /\ l.out \in [1 .. 2 -> I]
    BY <1>7, <2>1 DEF IndicesOf, NumInputs, States
  <2> HIDE DEF I
  <2>4. o \in [1 .. 2 -> I] /\ o[1] = l.out[1] /\ o[2] = u.out[1]
    BY <2>3
  <2>5. o \in [1 .. 2 -> Nat]
    BY <2>3, <2>4
  <2> HIDE DEF o
  <2>6. st2 = [l EXCEPT !.out = o]
    BY <2>2 DEF o
  <2> HIDE DEF st2
  <2>7. st2 \in States /\ st2.out = o /\ st2.tape = l.tape /\ st2.values = l.values
    BY <2>1, <2>5, <2>6 DEF States
  <2>8. QED
    BY <1>6, <2>4, <2>7 DEF StateOK, I
<1>9. QED
  BY <1>3, <1>4, <1>5, <1>6, <1>7, <1>8 DEF HalvesStep, u, l, x1, x2, y1, y2

(* dg_bar_bitwise64. *)
LEMMA Bar64Form ==
  ASSUME NEW x \in Number(2), NEW y \in Number(2), NEW op \in Ops, NEW st, NEW xi, NEW yi
  PROVE  dg_bar_bitwise64(op, st, x, xi, y, yi) =
           IF Takes(op, 2, x, xi[1] = 0) THEN Move(st, BarTurns(op, x, y), y, yi[1])
           ELSE IF Takes(op, 2, y, yi[1] = 0) THEN Move(st, BarTurns(op, y, x), x, xi[1])
           ELSE bar_HALVES(op, st, x, xi, y, yi)
<1>1. bar_HANDLE(op, st, x, xi[1], y, yi[1]) =
        IF Takes(op, 2, x, xi[1] = 0) THEN <<Move(st, BarTurns(op, x, y), y, yi[1])>> ELSE <<>>
  BY BarForm
<1>2. bar_HANDLE(op, st, y, yi[1], x, xi[1]) =
        IF Takes(op, 2, y, yi[1] = 0) THEN <<Move(st, BarTurns(op, y, x), x, xi[1])>> ELSE <<>>
  BY BarForm
<1>3. QED
  BY <1>1, <1>2 DEF dg_bar_bitwise64, FirstOf

(* It leads to a proper state that extends the one before. *)
LEMMA Bar64Types ==
  ASSUME NEW x \in Number(2), NEW y \in Number(2), NEW op \in Ops, NEW st, StateOK(st),
         NEW xi \in [1 .. 2 -> IndicesOf(st.tape)], NEW yi \in [1 .. 2 -> IndicesOf(st.tape)]
  PROVE  LET st2 == dg_bar_bitwise64(op, st, x, xi, y, yi)
         IN  StateOK(st2) /\ Extends(st, st2)
<1> DEFINE n1 == BarTurns(op, x, y)
           n2 == BarTurns(op, y, x)
           s1 == Move(st, n1, y, yi[1])
           s2 == Move(st, n2, x, xi[1])
           s3 == bar_HALVES(op, st, x, xi, y, yi)
<1>h. HalvesStep(op, st, x, xi, y, yi)
  BY BarHalves, Zenon
<1>1. /\ x \in Recordable /\ y \in Recordable /\ n1 \in BOOLEAN /\ n2 \in BOOLEAN
      /\ xi[1] \in IndicesOf(st.tape) /\ yi[1] \in IndicesOf(st.tape)
  BY DEF Recordable, BarTurns
<1>2. dg_bar_bitwise64(op, st, x, xi, y, yi) =
           IF Takes(op, 2, x, xi[1] = 0) THEN s1 ELSE IF Takes(op, 2, y, yi[1] = 0) THEN s2 ELSE s3
  BY Bar64Form
<1> HIDE DEF n1, n2
<1>3. StateOK(s1) /\ Extends(st, s1)
  BY <1>1, MoveTypes, Zenon
<1>4. StateOK(s2) /\ Extends(st, s2)
  BY <1>1, MoveTypes, Zenon
<1>5. StateOK(s3) /\ Extends(st, s3)
  <2> DEFINE u == dg_bar_bitwise32(op, st, <<x[2]>>, xi[2], <<y[2]>>, yi[2])
             l == dg_bar_bitwise32(op, u, <<x[1]>>, xi[1], <<y[1]>>, yi[1])
  <2>1. StateOK(s3) /\ Extends(st, l) /\ s3.tape = l.tape /\ s3.values = l.values
    BY <1>h DEF HalvesStep
  <2> HIDE DEF l, s3
  <2>2. QED
    BY <2>1 DEF Extends
<1> HIDE DEF s1, s2, s3
<1>6. QED
  BY <1>2, <1>3, <1>4, <1>5

(* Two words of a double each: halves are looked at only if the reference has
   no derivative for the result, or 0, and then the index is 0. *)
LEMMA BarDouble ==
  ASSUME dg_disable = 0, NEW x \in Number(2), NEW y \in Number(2), NEW op \in Ops, NEW in, NEW st, StateOK(st),
         NEW xi \in [1 .. 2 -> IndicesOf(st.tape)], NEW yi \in [1 .. 2 -> IndicesOf(st.tape)],
         NEW dx, NEW dy, Fine(in, st, x, xi[1], dx), Fine(in, st, y, yi[1], dy),
         op = "and" /\ dx # {0} /\ x \notin Masks(op, 2) => <<x[1]>> \notin Masks(op, 1),
         op = "and" /\ dy # {0} /\ y \notin Masks(op, 2) => <<y[1]>> \notin Masks(op, 1)
  PROVE  LET st2 == dg_bar_bitwise64(op, st, x, xi, y, yi)
         IN  Fine(in, st2, Apply(op, x, y), st2.out[1], Reference(op, x, dx, y, dy))
<1> DEFINE s1 == Move(st, BarTurns(op, x, y), y, yi[1])
           s2 == Move(st, BarTurns(op, y, x), x, xi[1])
           s3 == bar_HALVES(op, st, x, xi, y, yi)
           r == Apply(op, x, y)
           R == Reference(op, x, dx, y, dy)
           T1 == Takes(op, 2, x, xi[1] = 0)
           T2 == Takes(op, 2, y, yi[1] = 0)
           u == dg_bar_bitwise32(op, st, <<x[2]>>, xi[2], <<y[2]>>, yi[2])
           l == dg_bar_bitwise32(op, u, <<x[1]>>, xi[1], <<y[1]>>, yi[1])
<1>h. HalvesStep(op, st, x, xi, y, yi)
  BY BarHalves, Zenon
<1>0. 2 \in 1 .. 2
  OBVIOUS
<1>1. T1 => Fine(in, s1, r, s1.out[1], R)
  BY <1>0, FineFirst
<1>2. ~T1 /\ T2 => Fine(in, s2, r, s2.out[1], R)
  BY <1>0, FineSecond
<1>3. ~T1 /\ ~T2 =>
        \/ R = {}
        \/ /\ R = {0}
           /\ \/ xi[1] = 0 /\ yi[1] = 0
              \/ op = "and" /\ dx = {0} /\ dy # {0} /\ IsZero(x)
              \/ op = "and" /\ dy = {0} /\ dx # {0} /\ IsZero(y)
  <2>1. ~T1 /\ ~T2 => NoneKnown(op, x, xi[1], dx, y, yi[1], dy)
    BY <1>0, FineNone, Zenon
  <2>2. QED
    BY <2>1 DEF NoneKnown
<1>4. /\ StateOK(u) /\ xi[1] \in IndicesOf(u.tape) /\ yi[1] \in IndicesOf(u.tape)
      /\ StateOK(s3) /\ s3.out[1] = l.out[1]
  BY <1>h DEF HalvesStep
<1>5. dg_bar_bitwise64(op, st, x, xi, y, yi) = IF T1 THEN s1 ELSE IF T2 THEN s2 ELSE s3
  BY Bar64Form
<1>6. <<x[1]>> \in Number(1) /\ <<y[1]>> \in Number(1)
  <2>1. x[1] \in Halves /\ y[1] \in Halves
    BY DEF Number
  <2>2. QED
    BY <2>1, OneHalf
<1>7. \A z \in Number(2) : IsZero(z) => <<z[1]>> \notin Masks("and", 1)
  <2> SUFFICES ASSUME NEW z \in Number(2), IsZero(z), <<z[1]>> \in Masks("and", 1) PROVE FALSE
    OBVIOUS
  <2>1. z[1] = {}
    <3>1. Len(z) = 2 /\ Magnitude(z)[1] = z[1]
      BY <1>0, NumberFacts
    <3>2. Magnitude(z) = Zeros[2] /\ Zeros[2][1] = {}
      BY <1>0, <3>1, PatternFacts DEF IsZero
    <3>3. QED
      BY <3>1, <3>2
  <2>2. z[1] = <<z[1]>>[1] /\ <<z[1]>> \in {SignClear[1], Ones[1]}
    BY DEF Masks
  <2>3. SignClear[1][1] = AllBits \ {SignBit} /\ Ones[1][1] = AllBits
    BY PatternFacts
  <2>4. AllBits \ {SignBit} # {} /\ AllBits # {}
    BY BitwiseAssumption DEF AllBits, SignBit
  <2>5. QED
    BY <2>1, <2>2, <2>3, <2>4
<1>8. ASSUME ~T1, ~T2, R = {0} PROVE l.out[1] = 0
  <2> HIDE DEF u
  <2>1. /\ xi[1] = 0 /\ yi[1] = 0 => l.out[1] = 0
        /\ <<x[1]>> \notin Masks(op, 1) /\ <<y[1]>> \notin Masks(op, 1) => l.out[1] = 0
    BY <1>4, <1>6, Bar32Types
  <2>2. op = "and" => x \notin Masks(op, 2) /\ y \notin Masks(op, 2)
    BY <1>8 DEF Takes
  <2> HIDE DEF l, R, T1, T2
  <2>3. QED
    BY <1>3, <1>7, <1>8, <2>1, <2>2
<1> HIDE DEF s1, s2, s3, r, R, T1, T2, l
<1>9. ~T1 /\ ~T2 => Fine(in, s3, r, s3.out[1], R)
  <2>1. s3.out[1] \in IndicesOf(s3.tape)
    BY <1>4 DEF StateOK
  <2>2. R = {} => Fine(in, s3, r, s3.out[1], R)
    BY <2>1 DEF Fine
  <2>3. R = {0} /\ s3.out[1] = 0 => Fine(in, s3, r, s3.out[1], R)
    BY <1>4, FineConstant
  <2>4. QED
    BY <1>3, <1>4, <1>8, <2>2, <2>3
<1>10. LET st2 == dg_bar_bitwise64(op, st, x, xi, y, yi)
       IN  Fine(in, st2, r, st2.out[1], R)
  BY <1>1, <1>2, <1>5, <1>9
<1>11. QED
  BY <1>10 DEF r, R

(* The halves of two words, each a float. *)
LEMMA BarHalvesFine ==
  ASSUME dg_disable = 0, NEW x \in Number(2), NEW y \in Number(2), NEW op \in Ops, NEW in, NEW st, StateOK(st),
         NEW xi \in [1 .. 2 -> IndicesOf(st.tape)], NEW yi \in [1 .. 2 -> IndicesOf(st.tape)],
         NEW e \in 1 .. 2, NEW dx, NEW dy,
         Fine(in, st, <<x[e]>>, xi[e], dx), Fine(in, st, <<y[e]>>, yi[e], dy)
  PROVE  LET st2 == bar_HALVES(op, st, x, xi, y, yi)
         IN  Fine(in, st2, <<Apply(op, x, y)[e]>>, st2.out[e],
                  Reference(op, <<x[e]>>, dx, <<y[e]>>, dy))
<1> DEFINE st2 == bar_HALVES(op, st, x, xi, y, yi)
           u == dg_bar_bitwise32(op, st, <<x[2]>>, xi[2], <<y[2]>>, yi[2])
           l == dg_bar_bitwise32(op, u, <<x[1]>>, xi[1], <<y[1]>>, yi[1])
           R == Reference(op, <<x[e]>>, dx, <<y[e]>>, dy)
           r == Apply(op, <<x[e]>>, <<y[e]>>)
<1>h. HalvesStep(op, st, x, xi, y, yi)
  BY BarHalves, Zenon
<1>1. /\ StateOK(u) /\ Extends(st, u) /\ Extends(u, l)
      /\ StateOK(st2) /\ st2.tape = l.tape /\ st2.values = l.values
      /\ st2.out[1] = l.out[1] /\ st2.out[2] = u.out[1]
  BY <1>h DEF HalvesStep
<1>2. <<x[e]>> \in Number(1) /\ <<y[e]>> \in Number(1) /\ <<Apply(op, x, y)[e]>> = r
  BY TwoHalves, ZenonT(60)
<1>3. CASE e = 1
  <2>1. Fine(in, u, <<x[1]>>, xi[1], dx) /\ Fine(in, u, <<y[1]>>, yi[1], dy)
    BY <1>1, <1>3, FineExtends
  <2> HIDE DEF u
  <2>2. Fine(in, l, r, l.out[1], R)
    BY <1>1, <1>2, <1>3, <2>1, Bar32Fine
  <2> HIDE DEF l, st2, r, R
  <2>3. Fine(in, st2, r, st2.out[e], R)
    BY <1>1, <1>3, <2>2 DEF Fine
  <2>4. QED
    BY <1>2, <2>3 DEF st2, R
<1>4. CASE e = 2
  <2>1. Fine(in, u, r, u.out[1], R)
    BY <1>2, <1>4, Bar32Fine
  <2> HIDE DEF l, u, st2, r, R
  <2>2. Fine(in, l, r, u.out[1], R)
    BY <1>1, <2>1, FineExtends
  <2>3. Fine(in, st2, r, st2.out[e], R)
    BY <1>1, <1>4, <2>2 DEF Fine
  <2>4. QED
    BY <1>2, <2>3 DEF st2, R
<1>5. QED
  BY <1>3, <1>4

(* In a word with one float, only 0 can be a mask of 64 bits, of an OR. *)
LEMMA SingleMask ==
  ASSUME NEW x \in Number(2), x[2] = {}, NEW op \in Ops, x \in Masks(op, 2)
  PROVE  /\ op = "or" /\ x = Zeros[2] /\ <<x[1]>> = Zeros[1]
         /\ <<x[1]>> \in Masks(op, 1) /\ ~Sign(x) /\ ~Sign(<<x[1]>>)
<1>1. /\ SignClear[2][2] = AllBits \ {SignBit} /\ Ones[2][2] = AllBits
      /\ SignOnly[2][2] = {SignBit} /\ Zeros[2][1] = {}
  BY PatternFacts
<1>2. AllBits \ {SignBit} # {} /\ AllBits # {}
  BY BitwiseAssumption DEF AllBits, SignBit
<1>3. op = "or" /\ x = Zeros[2]
  BY <1>1, <1>2 DEF Masks, Ops
<1>4. Zeros[1] \in Number(1) /\ Zeros[1][1] = {}
  BY PatternFacts
<1>5. <<{}>> = Zeros[1]
  BY <1>4 DEF Number
<1>6. ~Sign(Zeros[1]) /\ ~Sign(Zeros[2])
  BY MaskFacts
<1>7. QED
  BY <1>1, <1>3, <1>5, <1>6 DEF Masks

(* A word with one float. *)
LEMMA BarSingle ==
  ASSUME dg_disable = 0, NEW x \in Number(2), NEW y \in Number(2), NEW op \in Ops, NEW in, NEW st, StateOK(st),
         NEW xi \in [1 .. 2 -> IndicesOf(st.tape)], NEW yi \in [1 .. 2 -> IndicesOf(st.tape)],
         x[2] = {}, y[2] = {}, NEW dx, NEW dy,
         Fine(in, st, <<x[1]>>, xi[1], dx), Fine(in, st, <<y[1]>>, yi[1], dy)
  PROVE  LET st2 == dg_bar_bitwise64(op, st, x, xi, y, yi)
         IN  Fine(in, st2, <<Apply(op, x, y)[1]>>, st2.out[1],
                  Reference(op, <<x[1]>>, dx, <<y[1]>>, dy))
<1> DEFINE T1 == Takes(op, 2, x, xi[1] = 0)
           T2 == Takes(op, 2, y, yi[1] = 0)
           a == <<x[1]>>
           b == <<y[1]>>
           R == Reference(op, a, dx, b, dy)
           r == <<Apply(op, x, y)[1]>>
           st2 == dg_bar_bitwise64(op, st, x, xi, y, yi)
<1>0. a \in Number(1) /\ b \in Number(1) /\ r = Apply(op, a, b) /\ r = Apply(op, b, a)
  <2>0. PICK e \in 1 .. 2 : e = 1
    OBVIOUS
  <2>a. /\ <<x[e]>> \in Number(1) /\ <<y[e]>> \in Number(1)
        /\ <<Apply(op, x, y)[e]>> = Apply(op, <<x[e]>>, <<y[e]>>)
    BY ONLY TwoHalves, x \in Number(2), y \in Number(2), op \in Ops, e \in 1 .. 2
  <2>1. a \in Number(1) /\ b \in Number(1) /\ r = Apply(op, a, b)
    BY <2>0, <2>a
  <2> HIDE DEF a, b, r
  <2>2. QED
    BY <2>1, ApplyFacts
<1>1. CASE T1
  <2>1. op = "or" /\ ~Sign(x) /\ ~Sign(a) /\ Takes(op, 1, a, xi[1] = 0)
    BY <1>1, SingleMask DEF Takes
  <2>2. Fine(in, Move(st, BarTurns(op, a, b), b, yi[1]), Apply(op, a, b),
             Move(st, BarTurns(op, a, b), b, yi[1]).out[1], R)
    BY <1>0, <2>1, FineFirst
  <2>3. st2 = KeepIndex(st, yi[1]) /\ Move(st, BarTurns(op, a, b), b, yi[1]) = KeepIndex(st, yi[1])
    BY <1>1, <2>1, Bar64Form DEF Move, BarTurns
  <2> HIDE DEF a, b, r, R, st2
  <2>4. Fine(in, st2, r, st2.out[1], R)
    BY <1>0, <2>2, <2>3
  <2>5. QED
    BY <2>4 DEF a, b, r, R, st2
<1>2. CASE ~T1 /\ T2
  <2>1. op = "or" /\ ~Sign(y) /\ ~Sign(b) /\ Takes(op, 1, b, yi[1] = 0)
    BY <1>2, SingleMask DEF Takes
  <2>2. Fine(in, Move(st, BarTurns(op, b, a), a, xi[1]), Apply(op, b, a),
             Move(st, BarTurns(op, b, a), a, xi[1]).out[1], Reference(op, b, dy, a, dx))
    BY <1>0, <2>1, FineFirst
  <2>3. st2 = KeepIndex(st, xi[1]) /\ Move(st, BarTurns(op, b, a), a, xi[1]) = KeepIndex(st, xi[1])
    BY <1>2, <2>1, Bar64Form DEF Move, BarTurns
  <2>4. Reference(op, b, dy, a, dx) = R
    BY <2>1, ReferenceSwap
  <2> HIDE DEF a, b, r, R, st2
  <2>5. Fine(in, st2, r, st2.out[1], R)
    BY <1>0, <2>2, <2>3, <2>4
  <2>6. QED
    BY <2>5 DEF a, b, r, R, st2
<1>3. CASE ~T1 /\ ~T2
  <2>1. st2 = bar_HALVES(op, st, x, xi, y, yi)
    BY <1>3, Bar64Form
  <2>2. 1 \in 1 .. 2
    OBVIOUS
  <2>3. QED
    BY <2>1, <2>2, BarHalvesFine
<1>4. QED
  BY <1>1, <1>2, <1>3

-----------------------------------------------------------------------------
(* Operands.                                                               *)

AllKinds == {"double", "pair", "single"}

\* Elements, Part and Misread for words of kind k.
ElementsOf(k) == IF k = "pair" THEN {1, 2} ELSE {1}
NumberOf(k, w, e) == IF k = "double" THEN w ELSE <<w[e]>>
MisreadAs(k, op, p) ==
  \/ k = "pair" /\ p.bits \in Masks(op, 2)
  \/ /\ k = "double" /\ p.bits \notin Masks(op, 2)
     /\ \/ <<p.bits[1]>> \in Masks(op, 1) /\ <<p.bits[2]>> \in Masks(op, 1)
        \/ /\ op = "and" /\ p.deriv[1] # {0}
           /\ <<p.bits[1]>> \in Masks(op, 1) \/ <<p.bits[2]>> \in Masks(op, 1)

Operands == [bits : Number(2), dot : Number(2), idx : [1 .. 2 -> Nat],
             deriv : [1 .. 2 -> SUBSET Int], forward : [1 .. 2 -> BOOLEAN],
             outside : [1 .. 2 -> BOOLEAN]]

\* The indices of an operand belong to the numbers in it, except for those that
\* come out of a bracket.
Recorded(k, in, st, p) ==
  /\ p.idx \in [1 .. 2 -> IndicesOf(st.tape)]
  /\ k = "single" => p.bits[2] = {} /\ p.dot[2] = {}
  /\ \A e \in ElementsOf(k) :
       /\ Ranged(NumberOf(k, p.bits, e), p.deriv[e])
       /\ p.outside[e] => Fine(in, st, NumberOf(k, p.bits, e), p.idx[e], p.deriv[e])

(* The handlers leave the right index for each number of a result. *)
LEMMA BarWord ==
  ASSUME dg_disable = 0, NEW k \in AllKinds, NEW op \in Ops, NEW in, NEW st, StateOK(st),
         NEW p \in Operands, NEW q \in Operands,
         Recorded(k, in, st, p), Recorded(k, in, st, q),
         ~MisreadAs(k, op, p), ~MisreadAs(k, op, q), NEW e \in ElementsOf(k),
         p.outside[e], q.outside[e]
  PROVE  LET st2 == dg_bar_bitwise64(op, st, p.bits, p.idx, q.bits, q.idx)
         IN  Fine(in, st2, NumberOf(k, Apply(op, p.bits, q.bits), e), st2.out[e],
                  Reference(op, NumberOf(k, p.bits, e), p.deriv[e],
                                NumberOf(k, q.bits, e), q.deriv[e]))
<1> DEFINE x == p.bits
           y == q.bits
           xi == p.idx
           yi == q.idx
           dx == p.deriv[e]
           dy == q.deriv[e]
<1>1. /\ x \in Number(2) /\ y \in Number(2) /\ e \in 1 .. 2
      /\ xi \in [1 .. 2 -> IndicesOf(st.tape)] /\ yi \in [1 .. 2 -> IndicesOf(st.tape)]
  BY DEF Operands, Recorded, ElementsOf
<1>2. Fine(in, st, NumberOf(k, x, e), xi[e], dx) /\ Fine(in, st, NumberOf(k, y, e), yi[e], dy)
  BY DEF Recorded
<1>3. CASE k = "double"
  <2>1. e = 1 /\ NumberOf(k, x, e) = x /\ NumberOf(k, y, e) = y
        /\ NumberOf(k, Apply(op, x, y), e) = Apply(op, x, y)
    BY <1>3 DEF ElementsOf, NumberOf
  <2>2. /\ op = "and" /\ dx # {0} /\ x \notin Masks(op, 2) => <<x[1]>> \notin Masks(op, 1)
        /\ op = "and" /\ dy # {0} /\ y \notin Masks(op, 2) => <<y[1]>> \notin Masks(op, 1)
    BY <1>3, <2>1 DEF MisreadAs
  <2> HIDE DEF x, y, xi, yi, dx, dy
  <2>3. Fine(in, st, x, xi[1], dx) /\ Fine(in, st, y, yi[1], dy)
    BY <1>2, <2>1
  <2> DEFINE st2 == dg_bar_bitwise64(op, st, x, xi, y, yi)
  <2>4. Fine(in, st2, Apply(op, x, y), st2.out[1], Reference(op, x, dx, y, dy))
    BY <1>1, <2>2, <2>3, BarDouble
  <2> HIDE DEF st2
  <2>5. Fine(in, st2, NumberOf(k, Apply(op, x, y), e), st2.out[e],
             Reference(op, NumberOf(k, x, e), dx, NumberOf(k, y, e), dy))
    BY <2>1, <2>4
  <2>6. QED
    BY <2>5 DEF st2, x, y, xi, yi, dx, dy
<1>4. CASE k = "pair"
  <2>1. NumberOf(k, x, e) = <<x[e]>> /\ NumberOf(k, y, e) = <<y[e]>>
        /\ NumberOf(k, Apply(op, x, y), e) = <<Apply(op, x, y)[e]>>
    BY <1>4 DEF NumberOf
  <2>2. x \notin Masks(op, 2) /\ y \notin Masks(op, 2)
    BY <1>4 DEF MisreadAs
  <2> HIDE DEF x, y, xi, yi, dx, dy
  <2>3. Fine(in, st, <<x[e]>>, xi[e], dx) /\ Fine(in, st, <<y[e]>>, yi[e], dy)
    BY <1>2, <2>1
  <2> DEFINE st2 == bar_HALVES(op, st, x, xi, y, yi)
  <2>4. dg_bar_bitwise64(op, st, x, xi, y, yi) = st2
    BY <1>1, <2>2, Bar64Form DEF Takes
  <2>5. Fine(in, st2, <<Apply(op, x, y)[e]>>, st2.out[e],
             Reference(op, <<x[e]>>, dx, <<y[e]>>, dy))
    BY <1>1, <2>3, BarHalvesFine
  <2> HIDE DEF st2
  <2>6. Fine(in, st2, NumberOf(k, Apply(op, x, y), e), st2.out[e],
             Reference(op, NumberOf(k, x, e), dx, NumberOf(k, y, e), dy))
    BY <2>1, <2>5
  <2>7. QED
    BY <2>4, <2>6 DEF x, y, xi, yi, dx, dy
<1>5. CASE k = "single"
  <2>1. e = 1 /\ NumberOf(k, x, e) = <<x[1]>> /\ NumberOf(k, y, e) = <<y[1]>>
        /\ NumberOf(k, Apply(op, x, y), e) = <<Apply(op, x, y)[1]>>
    BY <1>5 DEF NumberOf, ElementsOf
  <2>2. x[2] = {} /\ y[2] = {}
    BY <1>5 DEF Recorded
  <2> HIDE DEF x, y, xi, yi, dx, dy
  <2>3. Fine(in, st, <<x[1]>>, xi[1], dx) /\ Fine(in, st, <<y[1]>>, yi[1], dy)
    BY <1>2, <2>1
  <2> DEFINE st2 == dg_bar_bitwise64(op, st, x, xi, y, yi)
  <2>4. Fine(in, st2, <<Apply(op, x, y)[1]>>, st2.out[1],
             Reference(op, <<x[1]>>, dx, <<y[1]>>, dy))
    BY <1>1, <2>2, <2>3, BarSingle
  <2> HIDE DEF st2
  <2>5. Fine(in, st2, NumberOf(k, Apply(op, x, y), e), st2.out[e],
             Reference(op, NumberOf(k, x, e), dx, NumberOf(k, y, e), dy))
    BY <2>1, <2>4
  <2>6. QED
    BY <2>5 DEF st2, x, y, xi, yi, dx, dy
<1>6. QED
  BY <1>3, <1>4, <1>5 DEF AllKinds

-----------------------------------------------------------------------------
(* Dot values.                                                             *)

WidthOf(k) == IF k = "double" THEN 2 ELSE 1
SeedOf(k, i) == IF k = "double" THEN <<{0}, {0}>> ELSE <<{i - 1}>>

\* Dot value d belongs to the derivative v, and to one of those in D.
Matches(k, v, d) == /\ v = 0 => IsZero(d)
                    /\ v > 0 => d = SeedOf(k, v)
                    /\ v < 0 => d = Negate(SeedOf(k, -v))
Flows(k, d, D) == D # {} => \E v \in D : Matches(k, v, d)

(* The dot values of the inputs are numbers other than 0. *)
LEMMA SeedFacts ==
  ASSUME NEW k \in AllKinds, NEW i \in 1 .. 2
  PROVE  SeedOf(k, i) \in Number(WidthOf(k)) /\ ~IsZero(SeedOf(k, i))
<1>1. /\ 0 \in AllBits /\ 1 \in AllBits /\ 0 # SignBit /\ 1 # SignBit
  BY BitwiseAssumption DEF AllBits, SignBit
<1>2. {0} \in Halves /\ {1} \in Halves /\ {0} \ {SignBit} # {} /\ {1} \ {SignBit} # {}
  BY <1>1 DEF Halves
<1>3. CASE k = "double"
  <2> DEFINE s == <<{0}, {0}>>
  <2>1. s \in Number(2) /\ s[2] = {0} /\ SeedOf(k, i) = s /\ WidthOf(k) = 2
    BY <1>2, <1>3 DEF Number, SeedOf, WidthOf
  <2> HIDE DEF s
  <2>2. Magnitude(s)[2] = {0} \ {SignBit} /\ Len(s) = 2
    BY <2>1, NumberFacts
  <2>3. Zeros[2][2] = {}
    BY PatternFacts
  <2>4. QED
    BY <1>2, <2>1, <2>2, <2>3 DEF IsZero
<1>4. CASE k # "double"
  <2> DEFINE h == {i - 1}
             s == <<h>>
  <2>1. h \in Halves /\ h \ {SignBit} # {}
    BY <1>2
  <2>2. SeedOf(k, i) = s /\ WidthOf(k) = 1
    BY <1>4 DEF SeedOf, WidthOf
  <2> HIDE DEF h
  <2>3. s \in Number(1) /\ s[1] = h
    BY <2>1, OneHalf
  <2> HIDE DEF s
  <2>4. Magnitude(s)[1] = h \ {SignBit} /\ Len(s) = 1
    BY <2>3, NumberFacts
  <2>5. Zeros[1][1] = {}
    BY PatternFacts
  <2>6. QED
    BY <2>1, <2>2, <2>3, <2>4, <2>5 DEF IsZero
<1>5. QED
  BY <1>3, <1>4

(* Negative dot values belong to negative derivatives, and 0 to 0 only. *)
LEMMA MatchesFacts ==
  ASSUME NEW k \in AllKinds, NEW v \in -2 .. 2, NEW d \in Number(WidthOf(k)), Matches(k, v, d)
  PROVE  Matches(k, -v, Negate(d)) /\ (IsZero(d) => v = 0)
<1>0. WidthOf(k) \in 1 .. 2
  BY DEF WidthOf
<1>1. CASE v = 0
  <2>1. IsZero(Negate(d)) <=> IsZero(d)
    BY <1>0, NegateFacts
  <2>2. QED
    BY <1>1, <2>1 DEF Matches
<1>2. CASE v > 0
  <2>1. d = SeedOf(k, v) /\ v \in 1 .. 2
    BY <1>2 DEF Matches
  <2>2. ~IsZero(d)
    BY <2>1, SeedFacts
  <2>3. -v < 0 /\ -v # 0 /\ ~(-v > 0) /\ -(-v) = v
    BY <1>2
  <2>4. Matches(k, -v, Negate(d))
    BY <2>1, <2>3 DEF Matches
  <2>5. QED
    BY <2>2, <2>4
<1>3. CASE v < 0
  <2> DEFINE s == SeedOf(k, -v)
  <2>1. -v \in 1 .. 2 /\ d = Negate(s)
    BY <1>3 DEF Matches
  <2>2. s \in Number(WidthOf(k)) /\ ~IsZero(s)
    BY <2>1, SeedFacts
  <2> HIDE DEF s
  <2>3. Negate(d) = s /\ ~IsZero(d)
    BY <1>0, <2>1, <2>2, NegateFacts
  <2>4. -v > 0 /\ -v # 0
    BY <1>3
  <2>5. Matches(k, -v, Negate(d))
    BY <2>3, <2>4 DEF Matches, s
  <2>6. QED
    BY <2>3, <2>5
<1>4. QED
  BY <1>1, <1>2, <1>3

\* The handlers keep the dot value, or replace it by its negative.
DotMove(neg, yd) == IF neg THEN Negate(yd) ELSE yd

(* The handlers of forward mode, in one form for all operations. *)
LEMMA DotForm ==
  ASSUME NEW n \in 1 .. 2, NEW x \in Number(n), NEW op \in Ops, NEW xd, NEW y, NEW yd
  PROVE  dot_HANDLE(op, x, xd, y, yd) =
           IF Takes(op, n, x, xd = Zeros[n]) THEN <<DotMove(DotTurns(op, x, y), yd)>> ELSE <<>>
<1>1. Len(x) = n
  BY NumberFacts
<1>2. ~Sign(SignClear[n]) /\ Sign(Ones[n]) /\ Sign(SignOnly[n]) /\ ~Sign(Zeros[n])
  BY MaskFacts
<1>3. SignClear[n] # Ones[n] /\ SignOnly[n] # Zeros[n]
  BY <1>2
<1>4. CASE op = "and"
  <2>1. dot_HANDLE(op, x, xd, y, yd) = dot_HANDLE_AND(x, xd, y, yd)
    BY <1>4 DEF dot_HANDLE
  <2>2. QED
    BY <1>1, <1>2, <1>3, <1>4, <2>1 DEF dot_HANDLE_AND, Takes, Masks, DotMove, DotTurns
<1>5. CASE op = "or"
  <2>1. dot_HANDLE(op, x, xd, y, yd) = dot_HANDLE_OR(x, xd, y, yd)
    BY <1>5 DEF dot_HANDLE
  <2>2. QED
    BY <1>1, <1>2, <1>3, <1>5, <2>1 DEF dot_HANDLE_OR, Takes, Masks, DotMove, DotTurns
<1>6. CASE op = "xor"
  <2>1. dot_HANDLE(op, x, xd, y, yd) = dot_HANDLE_XOR(x, xd, y, yd)
    BY <1>6 DEF dot_HANDLE
  <2>2. QED
    BY <1>1, <1>6, <2>1 DEF dot_HANDLE_XOR, Takes, Masks, DotMove, DotTurns
<1>7. QED
  BY <1>4, <1>5, <1>6 DEF Ops

(* dg_dot_bitwise32. *)
LEMMA Dot32Form ==
  ASSUME NEW x \in Number(1), NEW y \in Number(1), NEW op \in Ops,
         NEW xd \in Number(1), NEW yd \in Number(1)
  PROVE  /\ dg_dot_bitwise32(op, x, xd, y, yd) =
              IF Takes(op, 1, x, xd = Zeros[1]) THEN DotMove(DotTurns(op, x, y), yd)
              ELSE IF Takes(op, 1, y, yd = Zeros[1]) THEN DotMove(DotTurns(op, y, x), xd)
              ELSE Zeros[1]
         /\ dg_dot_bitwise32(op, x, xd, y, yd) \in Number(1)
<1>1. dot_HANDLE(op, x, xd, y, yd) =
        IF Takes(op, 1, x, xd = Zeros[1]) THEN <<DotMove(DotTurns(op, x, y), yd)>> ELSE <<>>
  BY DotForm
<1>2. dot_HANDLE(op, y, yd, x, xd) =
        IF Takes(op, 1, y, yd = Zeros[1]) THEN <<DotMove(DotTurns(op, y, x), xd)>> ELSE <<>>
  BY DotForm
<1>3. Negate(xd) \in Number(1) /\ Negate(yd) \in Number(1) /\ Zeros[1] \in Number(1)
  BY NumberFacts, PatternFacts
<1>4. QED
  BY <1>1, <1>2, <1>3 DEF dg_dot_bitwise32, FirstOf, DotMove

(* dot_HALVES. *)
LEMMA DotHalf ==
  ASSUME NEW x \in Number(2), NEW y \in Number(2), NEW op \in Ops,
         NEW xd \in Number(2), NEW yd \in Number(2), NEW e \in 1 .. 2
  PROVE  dot_HALVES(op, x, xd, y, yd)[e] \in Halves
<1> DEFINE a == <<x[e]>>
           b == <<y[e]>>
           ad == <<xd[e]>>
           bd == <<yd[e]>>
           r == dg_dot_bitwise32(op, a, ad, b, bd)
<1>1. x[e] \in Halves /\ y[e] \in Halves /\ xd[e] \in Halves /\ yd[e] \in Halves
  BY DEF Number
<1>2. a \in Number(1) /\ b \in Number(1) /\ ad \in Number(1) /\ bd \in Number(1)
  BY <1>1, OneHalf
<1>3. dot_HALVES(op, x, xd, y, yd)[e] = r[1]
  BY DEF dot_HALVES
<1> HIDE DEF a, b, ad, bd
<1>4. r \in Number(1)
  BY <1>2, Dot32Form
<1>5. QED
  BY <1>3, <1>4 DEF Number

LEMMA DotHalves ==
  ASSUME NEW x \in Number(2), NEW y \in Number(2), NEW op \in Ops,
         NEW xd \in Number(2), NEW yd \in Number(2)
  PROVE  dot_HALVES(op, x, xd, y, yd) \in Number(2)
<1> DEFINE H == dot_HALVES(op, x, xd, y, yd)
<1>1. \A e \in 1 .. 2 : H[e] \in Halves
  BY DotHalf
<1>2. H = [e \in 1 .. 2 |-> H[e]]
  BY DEF dot_HALVES
<1> HIDE DEF H
<1>3. H \in Number(2)
  BY <1>1, <1>2 DEF Number
<1>4. QED
  BY <1>3 DEF H

(* dg_dot_bitwise64. *)
LEMMA Dot64Form ==
  ASSUME NEW x \in Number(2), NEW y \in Number(2), NEW op \in Ops,
         NEW xd \in Number(2), NEW yd \in Number(2)
  PROVE  /\ dg_dot_bitwise64(op, x, xd, y, yd) =
              IF Takes(op, 2, x, xd = Zeros[2]) THEN DotMove(DotTurns(op, x, y), yd)
              ELSE IF Takes(op, 2, y, yd = Zeros[2]) THEN DotMove(DotTurns(op, y, x), xd)
              ELSE dot_HALVES(op, x, xd, y, yd)
         /\ dg_dot_bitwise64(op, x, xd, y, yd) \in Number(2)
<1>1. dot_HANDLE(op, x, xd, y, yd) =
        IF Takes(op, 2, x, xd = Zeros[2]) THEN <<DotMove(DotTurns(op, x, y), yd)>> ELSE <<>>
  BY DotForm
<1>2. dot_HANDLE(op, y, yd, x, xd) =
        IF Takes(op, 2, y, yd = Zeros[2]) THEN <<DotMove(DotTurns(op, y, x), xd)>> ELSE <<>>
  BY DotForm
<1>3. Negate(xd) \in Number(2) /\ Negate(yd) \in Number(2)
  BY NumberFacts
<1>4. dot_HALVES(op, x, xd, y, yd) \in Number(2)
  BY DotHalves
<1>5. QED
  BY <1>1, <1>2, <1>3, <1>4 DEF dg_dot_bitwise64, FirstOf, DotMove

\* Number s with dot value d and derivative D, as operand that forward mode follows.
Flowing(k, s, d, D) == /\ d \in Number(WidthOf(k))
                       /\ D \subseteq -2 .. 2
                       /\ Flows(k, d, D)
                       /\ IsNaN(s) => D \in {{}, {0}}
                       /\ D = {0} => d = Zeros[WidthOf(k)]

(* Dot values that are 0 belong to all derivatives among which there is 0. *)
LEMMA FlowsZero ==
  ASSUME NEW k \in AllKinds, NEW n \in 1 .. 2, NEW neg \in BOOLEAN, NEW D, 0 \in D
  PROVE  Flows(k, DotMove(neg, Zeros[n]), D)
<1>1. IsZero(Zeros[n]) /\ IsZero(Negate(Zeros[n]))
  BY MaskFacts
<1>2. IsZero(DotMove(neg, Zeros[n]))
  BY <1>1 DEF DotMove
<1>3. Matches(k, 0, DotMove(neg, Zeros[n]))
  BY <1>2 DEF Matches
<1>4. QED
  BY <1>3 DEF Flows

LEMMA FlowsZeros ==
  ASSUME NEW k \in AllKinds, NEW n \in 1 .. 2, NEW D
  PROVE  D = {0} => Flows(k, Zeros[n], D)
<1>1. IsZero(Zeros[n])
  BY MaskFacts
<1>2. Matches(k, 0, Zeros[n])
  BY <1>1 DEF Matches
<1>3. QED
  BY <1>2 DEF Flows

(* A number under a mask, if the decision to negate was right. *)
LEMMA FlowMove ==
  ASSUME NEW k \in AllKinds, NEW n, n = WidthOf(k), NEW y \in Number(n), NEW op \in Ops,
         NEW m \in Masks(op, n), NEW yd, NEW D, Flowing(k, y, yd, D),
         NEW neg \in BOOLEAN, IsNaN(y) \/ Decides(neg, op, m, y)
  PROVE  Flows(k, DotMove(neg, yd), UnderMask(op, m, y, D))
<1> DEFINE U == UnderMask(op, m, y, D)
<1>0. n \in 1 .. 2
  BY DEF WidthOf
<1>1. (D = {} <=> U = {}) /\ (D = {0} => U = {0})
  BY <1>0, UnderRange
<1>2. CASE IsNaN(y)
  <2>1. D = {} \/ (D = {0} /\ yd = Zeros[n])
    BY <1>2 DEF Flowing
  <2>2. D = {0} => Flows(k, DotMove(neg, Zeros[n]), D)
    BY <1>0, FlowsZero
  <2>3. QED
    BY <1>1, <2>1, <2>2 DEF Flows
<1>3. CASE ~IsNaN(y) /\ D # {}
  <2>1. D \in SUBSET Int /\ D \subseteq -2 .. 2 /\ yd \in Number(WidthOf(k))
    BY DEF Flowing
  <2>2. PICK v \in D : Matches(k, v, yd)
    BY <1>3 DEF Flowing, Flows
  <2>3. (IF neg THEN -v ELSE v) \in U
    BY <1>0, <1>3, <2>1, RightDecision
  <2>4. Matches(k, -v, Negate(yd))
    BY <2>1, <2>2, MatchesFacts
  <2> HIDE DEF U
  <2>5. Flows(k, DotMove(neg, yd), U)
    BY <2>2, <2>3, <2>4 DEF DotMove, Flows
  <2>6. QED
    BY <2>5 DEF U
<1>4. CASE D = {}
  BY <1>1, <1>4 DEF Flows
<1>5. QED
  BY <1>2, <1>3, <1>4

(* The first operand is the mask. *)
LEMMA FlowFirst ==
  ASSUME NEW k \in AllKinds, NEW n, n = WidthOf(k), NEW x \in Number(n), NEW y \in Number(n),
         NEW op \in Ops, NEW xd, NEW yd, NEW dx, NEW dy,
         Flowing(k, x, xd, dx), Flowing(k, y, yd, dy), Takes(op, n, x, xd = Zeros[n])
  PROVE  Flows(k, DotMove(DotTurns(op, x, y), yd), Reference(op, x, dx, y, dy))
<1> DEFINE neg == DotTurns(op, x, y)
           R == Reference(op, x, dx, y, dy)
<1>0. n \in 1 .. 2
  BY DEF WidthOf
<1>1. x \in Masks(op, n) /\ (op = "and" \/ xd = Zeros[n]) /\ neg \in BOOLEAN
  BY DEF Takes, DotTurns
<1>2. IsNaN(y) \/ Decides(neg, op, x, y)
  BY TurnsDecide
<1> HIDE DEF neg
<1>3. Flows(k, DotMove(neg, yd), UnderMask(op, x, y, dy))
  BY <1>1, <1>2, FlowMove
<1>4. dy = {0} => yd = Zeros[n]
  BY DEF Flowing
<1>5. 0 \in R /\ dy = {0} => Flows(k, DotMove(neg, yd), R)
  BY <1>0, <1>1, <1>4, FlowsZero
<1>6. CASE op = "and" \/ dx = {0}
  <2>1. \/ dx = {0} /\ dy = {0} /\ R = {0}
        \/ R = UnderMask(op, x, y, dy)
    BY <1>0, <1>1, <1>6, FirstIsMask
  <2>2. QED
    BY <1>3, <1>5, <2>1 DEF neg
<1>7. CASE op # "and" /\ dx # {0}
  <2>1. \/ R = {}
        \/ dy = {0} /\ y \in Masks(op, n) /\ R = UnderMask(op, y, x, dx)
    BY <1>0, <1>1, <1>7, FirstIsMask
  <2>2. CASE R = {}
    BY <2>2 DEF Flows
  <2>3. CASE dy = {0} /\ y \in Masks(op, n) /\ R = UnderMask(op, y, x, dx) /\ R # {}
    <3>1. (dx = {} <=> R = {}) /\ (0 \in dx => 0 \in R)
      BY <1>0, <2>3, UnderRange
    <3>2. PICK v \in dx : Matches(k, v, xd)
      BY <2>3, <3>1 DEF Flowing, Flows
    <3>3. v \in -2 .. 2 /\ xd \in Number(WidthOf(k)) /\ IsZero(xd)
      BY <1>0, <1>1, <1>7, MaskFacts DEF Flowing
    <3>4. v = 0
      BY <3>2, <3>3, MatchesFacts
    <3>5. QED
      BY <1>5, <2>3, <3>1, <3>2, <3>4 DEF neg
  <2>4. QED
    BY <2>1, <2>2, <2>3
<1>8. QED
  BY <1>6, <1>7

(* The second operand is the mask, after the first one was found to be none. *)
LEMMA FlowSecond ==
  ASSUME NEW k \in AllKinds, NEW n, n = WidthOf(k), NEW x \in Number(n), NEW y \in Number(n),
         NEW op \in Ops, NEW xd, NEW yd, NEW dx, NEW dy,
         Flowing(k, x, xd, dx), Flowing(k, y, yd, dy),
         ~Takes(op, n, x, xd = Zeros[n]), Takes(op, n, y, yd = Zeros[n])
  PROVE  Flows(k, DotMove(DotTurns(op, y, x), xd), Reference(op, x, dx, y, dy))
<1> DEFINE neg == DotTurns(op, y, x)
           R == Reference(op, x, dx, y, dy)
<1>0. n \in 1 .. 2
  BY DEF WidthOf
<1>1. y \in Masks(op, n) /\ neg \in BOOLEAN
  BY DEF Takes, DotTurns
<1>2. IsNaN(x) \/ Decides(neg, op, y, x)
  BY TurnsDecide
<1> HIDE DEF neg
<1>3. Flows(k, DotMove(neg, xd), UnderMask(op, y, x, dx))
  BY <1>1, <1>2, FlowMove
<1>4. dx = {0} => xd = Zeros[n]
  BY DEF Flowing
<1>5. 0 \in R /\ dx = {0} => Flows(k, DotMove(neg, xd), R)
  BY <1>0, <1>1, <1>4, FlowsZero
<1>6. x \notin Masks(op, n) \/ (op # "and" /\ dx # {0})
  BY <1>4 DEF Takes
<1>7. \/ dx = {0} /\ R = {0}
      \/ R = UnderMask(op, y, x, dx)
      \/ R = {}
  BY <1>0, <1>1, <1>6, SecondIsMask
<1>8. QED
  BY <1>3, <1>5, <1>7 DEF neg, Flows

(* Neither operand is a mask: only 0 can be a derivative, and then neither
   operand has the bits of a mask. *)
LEMMA FlowNone ==
  ASSUME NEW k \in AllKinds, NEW n, n = WidthOf(k), NEW x \in Number(n), NEW y \in Number(n),
         NEW op \in Ops, NEW xd, NEW yd, NEW dx, NEW dy,
         Flowing(k, x, xd, dx), Flowing(k, y, yd, dy),
         ~Takes(op, n, x, xd = Zeros[n]), ~Takes(op, n, y, yd = Zeros[n]),
         Reference(op, x, dx, y, dy) # {}
  PROVE  /\ Reference(op, x, dx, y, dy) = {0}
         /\ x \notin Masks(op, n) /\ y \notin Masks(op, n)
<1>0. n \in 1 .. 2
  BY DEF WidthOf
<1>1. dx = {0} => xd = Zeros[n]
  BY DEF Flowing
<1>2. dy = {0} => yd = Zeros[n]
  BY DEF Flowing
<1>3. x \notin Masks(op, n) \/ (op # "and" /\ dx # {0})
  BY <1>1 DEF Takes
<1>4. y \notin Masks(op, n) \/ (op # "and" /\ dy # {0})
  BY <1>2 DEF Takes
<1>5. QED
  BY <1>0, <1>1, <1>2, <1>3, <1>4, NoneIsMask

(* dg_dot_bitwise32 follows the derivative. *)
LEMMA Flow32 ==
  ASSUME NEW k \in AllKinds, WidthOf(k) = 1, NEW x \in Number(1), NEW y \in Number(1),
         NEW op \in Ops, NEW xd, NEW yd, NEW dx, NEW dy,
         Flowing(k, x, xd, dx), Flowing(k, y, yd, dy)
  PROVE  Flows(k, dg_dot_bitwise32(op, x, xd, y, yd), Reference(op, x, dx, y, dy))
<1> DEFINE T1 == Takes(op, 1, x, xd = Zeros[1])
           T2 == Takes(op, 1, y, yd = Zeros[1])
           R == Reference(op, x, dx, y, dy)
<1>1. xd \in Number(1) /\ yd \in Number(1)
  BY DEF Flowing
<1>2. dg_dot_bitwise32(op, x, xd, y, yd) =
        IF T1 THEN DotMove(DotTurns(op, x, y), yd)
        ELSE IF T2 THEN DotMove(DotTurns(op, y, x), xd)
        ELSE Zeros[1]
  BY <1>1, Dot32Form
<1>3. T1 => Flows(k, DotMove(DotTurns(op, x, y), yd), R)
  BY FlowFirst
<1>4. ~T1 /\ T2 => Flows(k, DotMove(DotTurns(op, y, x), xd), R)
  BY FlowSecond
<1>5. ~T1 /\ ~T2 /\ R # {} => R = {0}
  BY FlowNone
<1> HIDE DEF T1, T2, R
<1>6. R = {0} => Flows(k, Zeros[1], R)
  BY FlowsZeros
<1>7. R = {} => Flows(k, Zeros[1], R)
  BY DEF Flows
<1>8. Flows(k, dg_dot_bitwise32(op, x, xd, y, yd), R)
  BY <1>2, <1>3, <1>4, <1>5, <1>6, <1>7
<1>9. QED
  BY <1>8 DEF R

\* Follows for words of kind k.
FollowsAs(k, op, p, e) ==
  /\ p.forward[e]
  /\ k = "double" /\ p.bits \notin Masks(op, 2) =>
       \A h \in 1 .. 2 : <<p.bits[h]>> \notin Masks(op, 1)
  /\ p.deriv[e] = {0} => NumberOf(k, p.dot, e) = Zeros[WidthOf(k)]

(* Two words of a double each. *)
LEMMA FlowDouble ==
  ASSUME NEW op \in Ops, NEW x \in Number(2), NEW y \in Number(2),
         NEW xd, NEW yd, NEW dx, NEW dy,
         Flowing("double", x, xd, dx), Flowing("double", y, yd, dy),
         x \notin Masks(op, 2) => \A h \in 1 .. 2 : <<x[h]>> \notin Masks(op, 1),
         y \notin Masks(op, 2) => \A h \in 1 .. 2 : <<y[h]>> \notin Masks(op, 1)
  PROVE  Flows("double", dg_dot_bitwise64(op, x, xd, y, yd), Reference(op, x, dx, y, dy))
<1> DEFINE T1 == Takes(op, 2, x, xd = Zeros[2])
           T2 == Takes(op, 2, y, yd = Zeros[2])
           R == Reference(op, x, dx, y, dy)
           H == dot_HALVES(op, x, xd, y, yd)
<1>0. "double" \in AllKinds /\ WidthOf("double") = 2
  BY DEF AllKinds, WidthOf
<1>1. xd \in Number(2) /\ yd \in Number(2)
  BY <1>0 DEF Flowing
<1>2. dg_dot_bitwise64(op, x, xd, y, yd) =
        IF T1 THEN DotMove(DotTurns(op, x, y), yd)
        ELSE IF T2 THEN DotMove(DotTurns(op, y, x), xd)
        ELSE H
  BY <1>1, Dot64Form
<1>3. T1 => Flows("double", DotMove(DotTurns(op, x, y), yd), R)
  BY <1>0, FlowFirst
<1>4. ~T1 /\ T2 => Flows("double", DotMove(DotTurns(op, y, x), xd), R)
  BY <1>0, FlowSecond
<1>5. ~T1 /\ ~T2 /\ R # {} => R = {0} /\ x \notin Masks(op, 2) /\ y \notin Masks(op, 2)
  BY <1>0, FlowNone
<1>6. ASSUME x \notin Masks(op, 2), y \notin Masks(op, 2) PROVE H = Zeros[2]
  <2>1. ASSUME NEW e \in 1 .. 2 PROVE H[e] = {}
    <3> DEFINE a == <<x[e]>>
               b == <<y[e]>>
               ad == <<xd[e]>>
               bd == <<yd[e]>>
    <3>1. x[e] \in Halves /\ y[e] \in Halves /\ xd[e] \in Halves /\ yd[e] \in Halves
      BY <1>1 DEF Number
    <3>2. a \in Number(1) /\ b \in Number(1) /\ ad \in Number(1) /\ bd \in Number(1)
      BY <3>1, OneHalf
    <3>3. a \notin Masks(op, 1) /\ b \notin Masks(op, 1)
      BY <1>6
    <3>4. H[e] = dg_dot_bitwise32(op, a, ad, b, bd)[1]
      BY DEF dot_HALVES
    <3> HIDE DEF a, b, ad, bd, H
    <3>5. dg_dot_bitwise32(op, a, ad, b, bd) = Zeros[1]
      BY <3>2, <3>3, Dot32Form DEF Takes
    <3>6. QED
      BY <3>4, <3>5, PatternFacts
  <2>2. H \in Number(2)
    BY <1>1, DotHalves
  <2>3. Zeros[2] \in Number(2) /\ Zeros[2][1] = {} /\ Zeros[2][2] = {}
    BY PatternFacts
  <2> HIDE DEF H
  <2>4. H[1] = Zeros[2][1] /\ H[2] = Zeros[2][2] /\ 2 \in 1 .. 2
    BY <2>1, <2>3
  <2>5. QED
    BY <2>2, <2>3, <2>4, SameHalves
<1> HIDE DEF T1, T2, R, H
<1>7. R = {0} => Flows("double", Zeros[2], R)
  BY <1>0, FlowsZeros
<1>8. ~T1 /\ ~T2 => Flows("double", H, R)
  BY <1>5, <1>6, <1>7 DEF Flows
<1>9. Flows("double", dg_dot_bitwise64(op, x, xd, y, yd), R)
  BY <1>2, <1>3, <1>4, <1>8
<1>10. QED
  BY <1>9 DEF R

(* The halves of two words, each a float. *)
LEMMA FlowHalves ==
  ASSUME NEW k \in AllKinds, WidthOf(k) = 1, NEW op \in Ops,
         NEW x \in Number(2), NEW y \in Number(2), NEW xd \in Number(2), NEW yd \in Number(2),
         NEW e \in 1 .. 2, NEW dx, NEW dy,
         Flowing(k, <<x[e]>>, <<xd[e]>>, dx), Flowing(k, <<y[e]>>, <<yd[e]>>, dy)
  PROVE  Flows(k, <<dot_HALVES(op, x, xd, y, yd)[e]>>,
               Reference(op, <<x[e]>>, dx, <<y[e]>>, dy))
<1> DEFINE a == <<x[e]>>
           b == <<y[e]>>
           ad == <<xd[e]>>
           bd == <<yd[e]>>
           r == dg_dot_bitwise32(op, a, ad, b, bd)
           h == dot_HALVES(op, x, xd, y, yd)[e]
<1>1. x[e] \in Halves /\ y[e] \in Halves /\ xd[e] \in Halves /\ yd[e] \in Halves
  BY DEF Number
<1>2. a \in Number(1) /\ b \in Number(1) /\ ad \in Number(1) /\ bd \in Number(1)
  BY <1>1, OneHalf
<1>3. h = r[1]
  BY DEF dot_HALVES
<1>4. Flows(k, r, Reference(op, a, dx, b, dy)) /\ r \in Number(1)
  <2> HIDE DEF a, b, ad, bd
  <2>1. Flowing(k, a, ad, dx) /\ Flowing(k, b, bd, dy)
    BY DEF a, b, ad, bd
  <2>2. QED
    BY <1>2, <2>1, Flow32, Dot32Form
<1> HIDE DEF r, h
<1>5. <<h>> = r
  BY <1>3, <1>4 DEF Number
<1>6. QED
  BY <1>4, <1>5 DEF h

(* A word with one float. *)
LEMMA FlowSingle ==
  ASSUME NEW op \in Ops, NEW x \in Number(2), NEW y \in Number(2),
         NEW xd \in Number(2), NEW yd \in Number(2), x[2] = {}, y[2] = {}, NEW dx, NEW dy,
         Flowing("single", <<x[1]>>, <<xd[1]>>, dx), Flowing("single", <<y[1]>>, <<yd[1]>>, dy)
  PROVE  Flows("single", <<dg_dot_bitwise64(op, x, xd, y, yd)[1]>>,
               Reference(op, <<x[1]>>, dx, <<y[1]>>, dy))
<1> DEFINE T1 == Takes(op, 2, x, xd = Zeros[2])
           T2 == Takes(op, 2, y, yd = Zeros[2])
           d == dg_dot_bitwise64(op, x, xd, y, yd)
           a == <<x[1]>>
           b == <<y[1]>>
           ad == <<xd[1]>>
           bd == <<yd[1]>>
<1>0. "single" \in AllKinds /\ WidthOf("single") = 1 /\ 1 \in 1 .. 2
  BY DEF AllKinds, WidthOf
<1>1. a \in Number(1) /\ b \in Number(1)
  <2>1. x[1] \in Halves /\ y[1] \in Halves
    BY DEF Number
  <2>2. QED
    BY <2>1, OneHalf
<1>2. /\ xd = Zeros[2] => ad = Zeros[1]
      /\ yd = Zeros[2] => bd = Zeros[1]
  <2>1. Zeros[2][1] = {} /\ Zeros[1] \in Number(1) /\ Zeros[1][1] = {}
    BY PatternFacts
  <2>2. <<{}>> = Zeros[1]
    BY <2>1 DEF Number
  <2>3. QED
    BY <2>1, <2>2
<1>3. CASE T1
  <2>1. op = "or" /\ ~Sign(x) /\ ~Sign(a) /\ Takes(op, 1, a, ad = Zeros[1])
    BY <1>2, <1>3, SingleMask DEF Takes
  <2>2. d = yd
    BY <1>3, <2>1, Dot64Form DEF DotMove, DotTurns
  <2>3. DotMove(DotTurns(op, a, b), bd) = bd
    BY <2>1 DEF DotMove, DotTurns
  <2>4. Flows("single", bd, Reference(op, a, dx, b, dy))
    <3> HIDE DEF a, b, ad, bd
    <3>1. Flowing("single", a, ad, dx) /\ Flowing("single", b, bd, dy)
      BY DEF a, b, ad, bd
    <3>2. Flows("single", DotMove(DotTurns(op, a, b), bd), Reference(op, a, dx, b, dy))
      BY <1>0, <1>1, <2>1, <3>1, FlowFirst
    <3>3. QED
      BY <2>3, <3>2
  <2>5. QED
    BY <2>2, <2>4
<1>4. CASE ~T1 /\ T2
  <2>1. op = "or" /\ ~Sign(y) /\ ~Sign(b) /\ Takes(op, 1, b, bd = Zeros[1])
    BY <1>2, <1>4, SingleMask DEF Takes
  <2>2. d = xd
    BY <1>4, <2>1, Dot64Form DEF DotMove, DotTurns
  <2>3. DotMove(DotTurns(op, b, a), ad) = ad
    BY <2>1 DEF DotMove, DotTurns
  <2>4. Flows("single", ad, Reference(op, b, dy, a, dx))
    <3> HIDE DEF a, b, ad, bd
    <3>1. Flowing("single", a, ad, dx) /\ Flowing("single", b, bd, dy)
      BY DEF a, b, ad, bd
    <3>2. Flows("single", DotMove(DotTurns(op, b, a), ad), Reference(op, b, dy, a, dx))
      BY <1>0, <1>1, <2>1, <3>1, FlowFirst
    <3>3. QED
      BY <2>3, <3>2
  <2>5. Reference(op, b, dy, a, dx) = Reference(op, a, dx, b, dy)
    BY <2>1, ReferenceSwap
  <2>6. QED
    BY <2>2, <2>4, <2>5
<1>5. CASE ~T1 /\ ~T2
  <2>1. d = dot_HALVES(op, x, xd, y, yd)
    BY <1>5, Dot64Form
  <2>2. QED
    BY <1>0, <2>1, FlowHalves
<1>6. QED
  BY <1>3, <1>4, <1>5

\* Forward mode has the derivatives of the numbers of p it is expected to have.
Forwarded(k, p) ==
  \A e \in ElementsOf(k) : p.forward[e] => Flows(k, NumberOf(k, p.dot, e), p.deriv[e])

(* The numbers of an operand, as forward mode sees them. *)
LEMMA OperandFlows ==
  ASSUME NEW k \in AllKinds, NEW op \in Ops, NEW in, NEW st, NEW p \in Operands,
         Recorded(k, in, st, p), Forwarded(k, p), NEW e \in ElementsOf(k), FollowsAs(k, op, p, e)
  PROVE  Flowing(k, NumberOf(k, p.bits, e), NumberOf(k, p.dot, e), p.deriv[e])
<1>1. Flows(k, NumberOf(k, p.dot, e), p.deriv[e])
  BY DEF Forwarded, FollowsAs
<1>2. /\ p.deriv[e] \subseteq -2 .. 2
      /\ IsNaN(NumberOf(k, p.bits, e)) => p.deriv[e] \in {{}, {0}}
  BY DEF Recorded, Ranged
<1>3. p.deriv[e] = {0} => NumberOf(k, p.dot, e) = Zeros[WidthOf(k)]
  BY DEF FollowsAs
<1>4. NumberOf(k, p.dot, e) \in Number(WidthOf(k))
  <2>1. p.dot \in Number(2) /\ e \in 1 .. 2
    BY DEF Operands, ElementsOf
  <2>2. p.dot[e] \in Halves
    BY <2>1 DEF Number
  <2>3. <<p.dot[e]>> \in Number(1)
    BY <2>2, OneHalf
  <2>4. QED
    BY <2>1, <2>3 DEF NumberOf, WidthOf
<1>5. QED
  BY <1>1, <1>2, <1>3, <1>4 DEF Flowing

(* The handlers leave the right dot value for each number of a result. *)
LEMMA DotWord ==
  ASSUME NEW k \in AllKinds, NEW op \in Ops, NEW in, NEW st,
         NEW p \in Operands, NEW q \in Operands,
         Recorded(k, in, st, p), Recorded(k, in, st, q), Forwarded(k, p), Forwarded(k, q),
         ~MisreadAs(k, op, p), ~MisreadAs(k, op, q), NEW e \in ElementsOf(k),
         FollowsAs(k, op, p, e), FollowsAs(k, op, q, e)
  PROVE  Flows(k, NumberOf(k, dg_dot_bitwise64(op, p.bits, p.dot, q.bits, q.dot), e),
               Reference(op, NumberOf(k, p.bits, e), p.deriv[e],
                             NumberOf(k, q.bits, e), q.deriv[e]))
<1> DEFINE x == p.bits
           y == q.bits
           xd == p.dot
           yd == q.dot
           dx == p.deriv[e]
           dy == q.deriv[e]
<1>1. /\ x \in Number(2) /\ y \in Number(2) /\ xd \in Number(2) /\ yd \in Number(2) /\ e \in 1 .. 2
  BY DEF Operands, ElementsOf
<1>2. /\ Flowing(k, NumberOf(k, x, e), NumberOf(k, xd, e), dx)
      /\ Flowing(k, NumberOf(k, y, e), NumberOf(k, yd, e), dy)
  BY OperandFlows
<1>3. CASE k = "double"
  <2>1. /\ x \notin Masks(op, 2) => \A h \in 1 .. 2 : <<x[h]>> \notin Masks(op, 1)
        /\ y \notin Masks(op, 2) => \A h \in 1 .. 2 : <<y[h]>> \notin Masks(op, 1)
    BY <1>3 DEF FollowsAs
  <2> HIDE DEF x, y, xd, yd, dx, dy
  <2>2. Flowing("double", x, xd, dx) /\ Flowing("double", y, yd, dy)
    BY <1>2, <1>3 DEF NumberOf
  <2>3. Flows("double", dg_dot_bitwise64(op, x, xd, y, yd), Reference(op, x, dx, y, dy))
    BY <1>1, <2>1, <2>2, FlowDouble
  <2>4. QED
    BY <1>3, <2>3 DEF NumberOf, x, y, xd, yd, dx, dy
<1>4. CASE k = "pair"
  <2>1. x \notin Masks(op, 2) /\ y \notin Masks(op, 2) /\ WidthOf(k) = 1
    BY <1>4 DEF MisreadAs, WidthOf
  <2> HIDE DEF x, y, xd, yd, dx, dy
  <2>2. dg_dot_bitwise64(op, x, xd, y, yd) = dot_HALVES(op, x, xd, y, yd)
    BY <1>1, <2>1, Dot64Form DEF Takes
  <2>3. Flowing(k, <<x[e]>>, <<xd[e]>>, dx) /\ Flowing(k, <<y[e]>>, <<yd[e]>>, dy)
    BY <1>2, <1>4 DEF NumberOf
  <2>4. Flows(k, <<dot_HALVES(op, x, xd, y, yd)[e]>>, Reference(op, <<x[e]>>, dx, <<y[e]>>, dy))
    BY <1>1, <2>1, <2>3, FlowHalves
  <2>5. QED
    BY <1>4, <2>2, <2>4 DEF NumberOf, x, y, xd, yd, dx, dy
<1>5. CASE k = "single"
  <2>1. x[2] = {} /\ y[2] = {} /\ e = 1
    BY <1>5 DEF Recorded, ElementsOf
  <2> HIDE DEF x, y, xd, yd, dx, dy
  <2>2. Flowing("single", <<x[1]>>, <<xd[1]>>, dx) /\ Flowing("single", <<y[1]>>, <<yd[1]>>, dy)
    BY <1>2, <1>5, <2>1 DEF NumberOf
  <2>3. Flows("single", <<dg_dot_bitwise64(op, x, xd, y, yd)[1]>>,
              Reference(op, <<x[1]>>, dx, <<y[1]>>, dy))
    BY <1>1, <2>1, <2>2, FlowSingle
  <2>4. QED
    BY <1>5, <2>1, <2>3 DEF NumberOf, x, y, xd, yd, dx, dy
<1>6. QED
  BY <1>3, <1>4, <1>5 DEF AllKinds

-----------------------------------------------------------------------------
(* The flags of the bit-trick finder.                                      *)

Booleans(n) == [1 .. n -> BOOLEAN]

\* What a handler does if it takes the other operand of a number for the mask.
Passed(r, A, D) == r = Result(A, Never(A), ActiveDiscrete(A, D))

(* The handlers of the finder, in one form. *)
LEMMA TrickForm ==
  ASSUME NEW n \in 1 .. 2, NEW x \in Number(n), NEW op, NEW xA, NEW y, NEW yA, NEW yD
  PROVE  trick_HANDLE(op, x, xA, y, yA, yD) =
           IF Takes(op, n, x, ~xA[1]) THEN <<Result(yA, Never(yA), ActiveDiscrete(yA, yD))>> ELSE <<>>
<1>1. Len(x) = n
  BY NumberFacts
<1>2. QED
  BY <1>1 DEF trick_HANDLE, Takes

(* dg_trick_bitwise32. *)
LEMMA Trick32Form ==
  ASSUME NEW x \in Number(1), NEW y \in Number(1), NEW op,
         NEW xA, NEW xD, NEW yA, NEW yD
  PROVE  LET r == dg_trick_bitwise32(op, x, xA, xD, y, yA, yD)
             T1 == Takes(op, 1, x, ~xA[1])
             T2 == Takes(op, 1, y, ~yA[1])
         IN  /\ T1 => Passed(r, yA, yD)
             /\ ~T1 /\ T2 => Passed(r, xA, xD)
             /\ ~T1 /\ ~T2 => r = Unknown(<<Some(xA) \/ Some(yA)>>)
<1>1. trick_HANDLE(op, x, xA, y, yA, yD) =
        IF Takes(op, 1, x, ~xA[1]) THEN <<Result(yA, Never(yA), ActiveDiscrete(yA, yD))>> ELSE <<>>
  BY TrickForm
<1>2. trick_HANDLE(op, y, yA, x, xA, xD) =
        IF Takes(op, 1, y, ~yA[1]) THEN <<Result(xA, Never(xA), ActiveDiscrete(xA, xD))>> ELSE <<>>
  BY TrickForm
<1>3. QED
  BY <1>1, <1>2 DEF dg_trick_bitwise32, FirstOf, Passed

(* dg_trick_bitwise64. *)
LEMMA Trick64Form ==
  ASSUME NEW x \in Number(2), NEW y \in Number(2), NEW op,
         NEW xA, NEW xD, NEW yA, NEW yD
  PROVE  LET r == dg_trick_bitwise64(op, x, xA, xD, y, yA, yD)
             T1 == Takes(op, 2, x, ~xA[1])
             T2 == Takes(op, 2, y, ~yA[1])
         IN  /\ T1 => Passed(r, yA, yD)
             /\ ~T1 /\ T2 => Passed(r, xA, xD)
             /\ ~T1 /\ ~T2 => r = trick_HALVES(op, x, xA, xD, y, yA, yD)
<1>1. trick_HANDLE(op, x, xA, y, yA, yD) =
        IF Takes(op, 2, x, ~xA[1]) THEN <<Result(yA, Never(yA), ActiveDiscrete(yA, yD))>> ELSE <<>>
  BY TrickForm
<1>2. trick_HANDLE(op, y, yA, x, xA, xD) =
        IF Takes(op, 2, y, ~yA[1]) THEN <<Result(xA, Never(xA), ActiveDiscrete(xA, xD))>> ELSE <<>>
  BY TrickForm
<1>3. QED
  BY <1>1, <1>2 DEF dg_trick_bitwise64, FirstOf, Passed

(* The result has as many flags as the operand that is passed on. *)
LEMMA PassedFacts ==
  ASSUME NEW n \in 1 .. 2, NEW A \in Booleans(n), NEW D \in Booleans(n), NEW r, Passed(r, A, D)
  PROVE  /\ r.A = A /\ r.D = Never(A) /\ r.warn = ActiveDiscrete(A, D)
         /\ r.A \in Booleans(n) /\ r.D \in Booleans(n) /\ r.warn \in BOOLEAN
         /\ \A i \in 1 .. n : ~r.D[i]
         /\ ActiveDiscrete(A, D) <=> \E i \in 1 .. n : A[i] /\ D[i]
         /\ ~ActiveDiscrete(r.A, r.D)
<1>1. r.A = A /\ r.D = Never(A) /\ r.warn = ActiveDiscrete(A, D)
  BY DEF Passed, Result
<1>2. DOMAIN A = 1 .. n /\ Never(A) = [i \in 1 .. n |-> FALSE]
  BY DEF Booleans, Never
<1>3. Never(A) \in Booleans(n) /\ \A i \in 1 .. n : ~Never(A)[i]
  BY <1>2 DEF Booleans
<1>4. /\ ActiveDiscrete(A, D) <=> \E i \in 1 .. n : A[i] /\ D[i]
      /\ ~ActiveDiscrete(A, Never(A))
      /\ ActiveDiscrete(A, D) \in BOOLEAN
  BY <1>2, <1>3 DEF ActiveDiscrete
<1>5. QED
  BY <1>1, <1>3, <1>4

\* The flags of a number tell enough of its derivative: it is active unless it is
\* constant, and would cause a warning unless there is a derivative.
Silent(A, D, dv) == /\ dv = {0} \/ \A i \in DOMAIN A : A[i]
                    /\ ActiveDiscrete(A, D) \/ dv # {}

\* The flags of a number with a derivative do not tell too much.
Modest(A, D, dv) == /\ dv # {}
                    /\ dv = {0} => \A i \in DOMAIN A : ~A[i]
                    /\ ~ActiveDiscrete(A, D)

(* The first operand is the mask. *)
LEMMA FlagsFirst ==
  ASSUME NEW n \in 1 .. 2, NEW x \in Number(n), NEW y \in Number(n), NEW op \in Ops,
         NEW xA \in Booleans(n), NEW xD, NEW yA \in Booleans(n), NEW yD \in Booleans(n),
         NEW dx, NEW dy, Takes(op, n, x, ~xA[1]), NEW r, Passed(r, yA, yD)
  PROVE  LET R == Reference(op, x, dx, y, dy)
         IN  /\ Silent(xA, xD, dx) /\ Silent(yA, yD, dy) /\ ~r.warn => Silent(r.A, r.D, R)
             /\ Modest(yA, yD, dy) /\ R # {} /\ (R = {0} => dy = {0}) => Modest(r.A, r.D, R)
<1> DEFINE R == Reference(op, x, dx, y, dy)
<1>1. x \in Masks(op, n) /\ (op = "and" \/ ~xA[1]) /\ 1 \in DOMAIN xA
  BY DEF Takes, Booleans
<1>2. r.A = yA /\ r.warn = ActiveDiscrete(yA, yD) /\ ~ActiveDiscrete(r.A, r.D)
  BY PassedFacts
<1>3. ASSUME Silent(xA, xD, dx), Silent(yA, yD, dy), ~r.warn PROVE Silent(r.A, r.D, R)
  <2>1. op = "and" \/ dx = {0}
    BY <1>1, <1>3 DEF Silent
  <2>2. (dx = {0} /\ dy = {0} /\ R = {0}) \/ R = UnderMask(op, x, y, dy)
    BY <1>1, <2>1, FirstIsMask
  <2>3. dy # {} /\ (dy = {0} \/ \A i \in DOMAIN yA : yA[i])
    BY <1>2, <1>3 DEF Silent
  <2>4. (dy = {} <=> UnderMask(op, x, y, dy) = {}) /\ (dy = {0} => UnderMask(op, x, y, dy) = {0})
    BY <1>1, UnderRange
  <2> HIDE DEF R
  <2>5. R # {} /\ (dy = {0} => R = {0})
    BY <2>2, <2>3, <2>4
  <2>6. QED
    BY <1>2, <2>3, <2>5 DEF Silent
<1>4. ASSUME Modest(yA, yD, dy), R # {}, R = {0} => dy = {0} PROVE Modest(r.A, r.D, R)
  BY <1>2, <1>4 DEF Modest
<1>5. QED
  BY <1>3, <1>4

(* The second operand is the mask. *)
LEMMA FlagsSecond ==
  ASSUME NEW n \in 1 .. 2, NEW x \in Number(n), NEW y \in Number(n), NEW op \in Ops,
         NEW xA \in Booleans(n), NEW xD \in Booleans(n), NEW yA \in Booleans(n), NEW yD,
         NEW dx, NEW dy, ~Takes(op, n, x, ~xA[1]), Takes(op, n, y, ~yA[1]), NEW r, Passed(r, xA, xD)
  PROVE  LET R == Reference(op, x, dx, y, dy)
         IN  /\ Silent(xA, xD, dx) /\ Silent(yA, yD, dy) /\ ~r.warn => Silent(r.A, r.D, R)
             /\ Modest(xA, xD, dx) /\ R # {} /\ (R = {0} => dx = {0}) => Modest(r.A, r.D, R)
<1> DEFINE R == Reference(op, x, dx, y, dy)
<1>1. y \in Masks(op, n) /\ (op = "and" \/ ~yA[1]) /\ 1 \in DOMAIN yA
  BY DEF Takes, Booleans
<1>2. r.A = xA /\ r.warn = ActiveDiscrete(xA, xD) /\ ~ActiveDiscrete(r.A, r.D)
  BY PassedFacts
<1>3. ASSUME Silent(xA, xD, dx), Silent(yA, yD, dy), ~r.warn PROVE Silent(r.A, r.D, R)
  <2>1. op = "and" \/ dy = {0}
    BY <1>1, <1>3 DEF Silent
  <2>2. dx # {} /\ (dx = {0} \/ \A i \in DOMAIN xA : xA[i])
    BY <1>2, <1>3 DEF Silent
  <2>3. R # {} /\ (dx = {0} => R = {0})
    <3>1. CASE x \notin Masks(op, n) \/ (op # "and" /\ dx # {0})
      <4>1. (dx = {0} /\ dy = {0} /\ R = {0}) \/ R = UnderMask(op, y, x, dx)
        BY <1>1, <2>1, <3>1, SecondIsMask
      <4>2. (dx = {} <=> UnderMask(op, y, x, dx) = {}) /\ (dx = {0} => UnderMask(op, y, x, dx) = {0})
        BY <1>1, UnderRange
      <4> HIDE DEF R
      <4>3. QED
        BY <2>2, <4>1, <4>2
    <3>2. CASE ~(x \notin Masks(op, n) \/ (op # "and" /\ dx # {0}))
      <4>1. dx = {0} /\ dy = {0}
        BY <2>1, <3>2 DEF Takes
      <4>2. QED
        BY <4>1 DEF Reference
    <3>3. QED
      BY <3>1, <3>2
  <2> HIDE DEF R
  <2>4. QED
    BY <1>2, <2>2, <2>3 DEF Silent
<1>4. ASSUME Modest(xA, xD, dx), R # {}, R = {0} => dx = {0} PROVE Modest(r.A, r.D, R)
  BY <1>2, <1>4 DEF Modest
<1>5. QED
  BY <1>3, <1>4

(* Where no mask is found, the reference has no derivative other than 0. *)
LEMMA ModestNone ==
  ASSUME NEW n \in 1 .. 2, NEW x \in Number(n), NEW y \in Number(n), NEW op \in Ops,
         NEW xA \in Booleans(n), NEW xD, NEW yA \in Booleans(n), NEW yD, NEW dx, NEW dy,
         ~Takes(op, n, x, ~xA[1]), ~Takes(op, n, y, ~yA[1]),
         Modest(xA, xD, dx), Modest(yA, yD, dy)
  PROVE  Reference(op, x, dx, y, dy) \in {{}, {0}}
<1>1. 1 \in DOMAIN xA /\ 1 \in DOMAIN yA
  BY DEF Booleans
<1>2. x \notin Masks(op, n) \/ (op # "and" /\ dx # {0})
  BY <1>1 DEF Takes, Modest
<1>3. y \notin Masks(op, n) \/ (op # "and" /\ dy # {0})
  BY <1>1 DEF Takes, Modest
<1>4. QED
  BY <1>2, <1>3, NoneIsMask

(* dg_trick_bitwise32. *)
LEMMA Flags32 ==
  ASSUME NEW x \in Number(1), NEW y \in Number(1), NEW op \in Ops,
         NEW xA \in Booleans(1), NEW xD \in Booleans(1),
         NEW yA \in Booleans(1), NEW yD \in Booleans(1), NEW dx, NEW dy
  PROVE  LET r == dg_trick_bitwise32(op, x, xA, xD, y, yA, yD)
             R == Reference(op, x, dx, y, dy)
         IN  /\ Silent(xA, xD, dx) /\ Silent(yA, yD, dy) /\ ~r.warn => Silent(r.A, r.D, R)
             /\ /\ Modest(xA, xD, dx) /\ Modest(yA, yD, dy)
                /\ R # {} /\ (R = {0} => dx = {0} /\ dy = {0})
                => Modest(r.A, r.D, R)
<1> DEFINE r == dg_trick_bitwise32(op, x, xA, xD, y, yA, yD)
           R == Reference(op, x, dx, y, dy)
           T1 == Takes(op, 1, x, ~xA[1])
           T2 == Takes(op, 1, y, ~yA[1])
<1>1. /\ T1 => Passed(r, yA, yD)
      /\ ~T1 /\ T2 => Passed(r, xA, xD)
      /\ ~T1 /\ ~T2 => r = Unknown(<<Some(xA) \/ Some(yA)>>)
  BY Trick32Form
<1>2. CASE T1
  <2>1. Passed(r, yA, yD)
    BY <1>1, <1>2
  <2> HIDE DEF r
  <2>2. QED
    BY <1>2, <2>1, FlagsFirst, SMTT(40) DEF r
<1>3. CASE ~T1 /\ T2
  <2>1. Passed(r, xA, xD)
    BY <1>1, <1>3
  <2> HIDE DEF r
  <2>2. QED
    BY <1>3, <2>1, FlagsSecond DEF r
<1>4. CASE ~T1 /\ ~T2
  <2>1. r.A = <<Some(xA) \/ Some(yA)>> /\ r.D = [i \in DOMAIN r.A |-> TRUE]
    BY <1>1, <1>4 DEF Unknown, Result
  <2>2. DOMAIN r.A = {1} /\ DOMAIN xA = {1} /\ DOMAIN yA = {1}
    BY <2>1 DEF Booleans
  <2> HIDE DEF r
  <2>3. (r.A[1] <=> xA[1] \/ yA[1]) /\ r.D[1]
    BY <2>1, <2>2 DEF Some, Booleans
  <2>4. ASSUME Silent(xA, xD, dx), Silent(yA, yD, dy) PROVE Silent(r.A, r.D, R)
    <3>1. CASE r.A[1]
      BY <2>2, <2>3, <3>1 DEF Silent, ActiveDiscrete
    <3>2. CASE ~r.A[1]
      <4>1. dx = {0} /\ dy = {0}
        BY <2>2, <2>3, <2>4, <3>2 DEF Silent
      <4>2. R = {0}
        BY <4>1 DEF Reference
      <4>3. QED
        BY <4>2 DEF Silent
    <3>3. QED
      BY <3>1, <3>2
  <2>5. ASSUME Modest(xA, xD, dx), Modest(yA, yD, dy), R # {}, R = {0} => dx = {0} /\ dy = {0}
        PROVE  Modest(r.A, r.D, R)
    <3>1. R = {0}
      BY <1>4, <2>5, ModestNone
    <3>2. ~r.A[1]
      BY <2>2, <2>3, <2>5, <3>1 DEF Modest
    <3>3. QED
      BY <2>2, <2>5, <3>2 DEF Modest, ActiveDiscrete
  <2>6. QED
    BY <2>4, <2>5 DEF r
<1>5. QED
  BY <1>2, <1>3, <1>4

\* What becomes of the flags of one half.
HalfFlags(r, T1, T2, xA, xD, yA, yD) ==
  /\ r.A \in Booleans(1) /\ r.D \in Booleans(1) /\ r.warn \in BOOLEAN
  /\ ~T1 /\ xA[1] => r.A[1]
  /\ ~T2 /\ yA[1] => r.A[1]
  /\ ~T1 /\ ~T2 => r.D[1]
  /\ ~xA[1] /\ ~yA[1] => ~r.A[1]
  /\ r.warn => (xA[1] /\ xD[1]) \/ (yA[1] /\ yD[1])

LEMMA Trick32Flags ==
  ASSUME NEW x \in Number(1), NEW y \in Number(1), NEW op \in Ops,
         NEW xA \in Booleans(1), NEW xD \in Booleans(1),
         NEW yA \in Booleans(1), NEW yD \in Booleans(1)
  PROVE  HalfFlags(dg_trick_bitwise32(op, x, xA, xD, y, yA, yD),
                   Takes(op, 1, x, ~xA[1]), Takes(op, 1, y, ~yA[1]), xA, xD, yA, yD)
<1> DEFINE r == dg_trick_bitwise32(op, x, xA, xD, y, yA, yD)
           T1 == Takes(op, 1, x, ~xA[1])
           T2 == Takes(op, 1, y, ~yA[1])
<1>1. /\ T1 => Passed(r, yA, yD)
      /\ ~T1 /\ T2 => Passed(r, xA, xD)
      /\ ~T1 /\ ~T2 => r = Unknown(<<Some(xA) \/ Some(yA)>>)
  BY Trick32Form
<1>2. CASE T1
  <2>1. Passed(r, yA, yD)
    BY <1>1, <1>2
  <2> HIDE DEF r, T1, T2
  <2>2. /\ r.A = yA /\ r.warn = ActiveDiscrete(yA, yD) /\ r.A \in Booleans(1) /\ r.D \in Booleans(1)
        /\ r.warn \in BOOLEAN /\ (ActiveDiscrete(yA, yD) <=> \E i \in 1 .. 1 : yA[i] /\ yD[i])
    BY <2>1, PassedFacts
  <2>3. r.warn => yA[1] /\ yD[1]
    BY <2>2
  <2>4. HalfFlags(r, T1, T2, xA, xD, yA, yD)
    BY <1>2, <2>2, <2>3 DEF HalfFlags
  <2>5. QED
    BY <2>4 DEF r, T1, T2
<1>3. CASE ~T1 /\ T2
  <2>1. Passed(r, xA, xD)
    BY <1>1, <1>3
  <2> HIDE DEF r, T1, T2
  <2>2. /\ r.A = xA /\ r.warn = ActiveDiscrete(xA, xD) /\ r.A \in Booleans(1) /\ r.D \in Booleans(1)
        /\ r.warn \in BOOLEAN /\ (ActiveDiscrete(xA, xD) <=> \E i \in 1 .. 1 : xA[i] /\ xD[i])
    BY <2>1, PassedFacts
  <2>3. r.warn => xA[1] /\ xD[1]
    BY <2>2
  <2>4. HalfFlags(r, T1, T2, xA, xD, yA, yD)
    BY <1>3, <2>2, <2>3 DEF HalfFlags
  <2>5. QED
    BY <2>4 DEF r, T1, T2
<1>4. CASE ~T1 /\ ~T2
  <2>1. r.A = <<Some(xA) \/ Some(yA)>> /\ r.D = [i \in DOMAIN r.A |-> TRUE] /\ r.warn = FALSE
    BY <1>1, <1>4 DEF Unknown, Result
  <2>2. DOMAIN r.A = 1 .. 1 /\ DOMAIN xA = 1 .. 1 /\ DOMAIN yA = 1 .. 1
    BY <2>1 DEF Booleans
  <2> HIDE DEF r, T1, T2
  <2>3. (r.A[1] <=> xA[1] \/ yA[1]) /\ r.D[1]
    BY <2>1, <2>2 DEF Some, Booleans
  <2>4. r.A \in Booleans(1) /\ r.D \in Booleans(1)
    BY <2>1, <2>2 DEF Booleans, Some
  <2>5. HalfFlags(r, T1, T2, xA, xD, yA, yD)
    BY <1>4, <2>1, <2>3, <2>4 DEF HalfFlags
  <2>6. QED
    BY <2>5 DEF r, T1, T2
<1>5. QED
  BY <1>2, <1>3, <1>4

\* The flags of half h of word H are those of r.
HalfOf(H, h, r) == H.A[h] = r.A[1] /\ H.D[h] = r.D[1] /\ <<H.A[h]>> = r.A /\ <<H.D[h]>> = r.D

LEMMA OneFlag ==
  ASSUME NEW S, NEW s \in [1 .. 1 -> S]
  PROVE  <<s[1]>> = s /\ s[1] \in S
OBVIOUS

(* trick_HALVES. *)
LEMMA TrickHalves ==
  ASSUME NEW x \in Number(2), NEW y \in Number(2), NEW op \in Ops,
         NEW xA \in Booleans(2), NEW xD \in Booleans(2),
         NEW yA \in Booleans(2), NEW yD \in Booleans(2)
  PROVE  LET half(h) == dg_trick_bitwise32(op, <<x[h]>>, <<xA[h]>>, <<xD[h]>>,
                                               <<y[h]>>, <<yA[h]>>, <<yD[h]>>)
             H == trick_HALVES(op, x, xA, xD, y, yA, yD)
         IN  /\ H.A \in Booleans(2) /\ H.D \in Booleans(2) /\ H.warn \in BOOLEAN
             /\ H.warn <=> half(1).warn \/ half(2).warn
             /\ HalfOf(H, 1, half(1)) /\ HalfOf(H, 2, half(2))
<1> DEFINE half(h) == dg_trick_bitwise32(op, <<x[h]>>, <<xA[h]>>, <<xD[h]>>,
                                             <<y[h]>>, <<yA[h]>>, <<yD[h]>>)
           H == trick_HALVES(op, x, xA, xD, y, yA, yD)
<1>1. ASSUME NEW h \in 1 .. 2
      PROVE  half(h).A \in Booleans(1) /\ half(h).D \in Booleans(1) /\ half(h).warn \in BOOLEAN
  <2> DEFINE a == <<x[h]>>
             b == <<y[h]>>
             aA == <<xA[h]>>
             aD == <<xD[h]>>
             bA == <<yA[h]>>
             bD == <<yD[h]>>
             r == dg_trick_bitwise32(op, a, aA, aD, b, bA, bD)
  <2>1. a \in Number(1) /\ b \in Number(1)
    BY DEF Number
  <2>2. aA \in Booleans(1) /\ aD \in Booleans(1) /\ bA \in Booleans(1) /\ bD \in Booleans(1)
    BY DEF Booleans
  <2> HIDE DEF a, b, aA, aD, bA, bD
  <2>3. HalfFlags(r, Takes(op, 1, a, ~aA[1]), Takes(op, 1, b, ~bA[1]), aA, aD, bA, bD)
    BY <2>1, <2>2, Trick32Flags
  <2>4. r.A \in Booleans(1) /\ r.D \in Booleans(1) /\ r.warn \in BOOLEAN
    BY <2>3 DEF HalfFlags
  <2>5. QED
    BY <2>4 DEF a, b, aA, aD, bA, bD
<1> DEFINE r1 == half(1)
           r2 == half(2)
<1>2. /\ H.A = [h \in 1 .. 2 |-> half(h).A[1]] /\ H.D = [h \in 1 .. 2 |-> half(h).D[1]]
      /\ H.warn <=> r1.warn \/ r2.warn
      /\ H.warn \in BOOLEAN
  BY DEF trick_HALVES, Result
<1>3. \A h \in 1 .. 2 : half(h).A[1] \in BOOLEAN /\ half(h).D[1] \in BOOLEAN
  BY <1>1 DEF Booleans
<1>4. /\ r1.A \in Booleans(1) /\ r1.D \in Booleans(1) /\ r1.warn \in BOOLEAN
      /\ r2.A \in Booleans(1) /\ r2.D \in Booleans(1) /\ r2.warn \in BOOLEAN
  BY <1>1
<1> HIDE DEF half, H
<1>5. H.A \in Booleans(2) /\ H.D \in Booleans(2)
  BY <1>2, <1>3 DEF Booleans
<1>6. H.A[1] = r1.A[1] /\ H.A[2] = r2.A[1] /\ H.D[1] = r1.D[1] /\ H.D[2] = r2.D[1]
  BY <1>2
<1> HIDE DEF r1, r2
<1>7. <<r1.A[1]>> = r1.A /\ <<r1.D[1]>> = r1.D /\ <<r2.A[1]>> = r2.A /\ <<r2.D[1]>> = r2.D
  BY <1>4, OneFlag DEF Booleans
<1>8. HalfOf(H, 1, r1) /\ HalfOf(H, 2, r2)
  BY <1>6, <1>7, Zenon DEF HalfOf
<1>9. QED
  BY <1>2, <1>5, <1>8 DEF r1, r2, H, half

\* What becomes of the flags of half h of a word that is read as two floats.
HalfRule(H, op, h, x, xA, xD, y, yA, yD) ==
  /\ ~Takes(op, 1, <<x[h]>>, ~xA[h]) /\ xA[h] => H.A[h]
  /\ ~Takes(op, 1, <<y[h]>>, ~yA[h]) /\ yA[h] => H.A[h]
  /\ ~Takes(op, 1, <<x[h]>>, ~xA[h]) /\ ~Takes(op, 1, <<y[h]>>, ~yA[h]) => H.D[h]
  /\ ~xA[h] /\ ~yA[h] => ~H.A[h]

LEMMA HalvesRule ==
  ASSUME NEW x \in Number(2), NEW y \in Number(2), NEW op \in Ops,
         NEW xA \in Booleans(2), NEW xD \in Booleans(2),
         NEW yA \in Booleans(2), NEW yD \in Booleans(2)
  PROVE  LET H == trick_HALVES(op, x, xA, xD, y, yA, yD)
         IN  /\ H.A \in Booleans(2) /\ H.D \in Booleans(2) /\ H.warn \in BOOLEAN
             /\ HalfRule(H, op, 1, x, xA, xD, y, yA, yD)
             /\ HalfRule(H, op, 2, x, xA, xD, y, yA, yD)
             /\ H.warn => \E h \in 1 .. 2 : (xA[h] /\ xD[h]) \/ (yA[h] /\ yD[h])
<1> DEFINE half(h) == dg_trick_bitwise32(op, <<x[h]>>, <<xA[h]>>, <<xD[h]>>,
                                             <<y[h]>>, <<yA[h]>>, <<yD[h]>>)
           H == trick_HALVES(op, x, xA, xD, y, yA, yD)
<1>1. /\ H.A \in Booleans(2) /\ H.D \in Booleans(2) /\ H.warn \in BOOLEAN
      /\ H.warn <=> half(1).warn \/ half(2).warn
      /\ HalfOf(H, 1, half(1)) /\ HalfOf(H, 2, half(2))
  BY TrickHalves
<1>2. ASSUME NEW h \in 1 .. 2, HalfOf(H, h, half(h))
      PROVE  /\ HalfRule(H, op, h, x, xA, xD, y, yA, yD)
             /\ half(h).warn => (xA[h] /\ xD[h]) \/ (yA[h] /\ yD[h])
  <2> DEFINE a == <<x[h]>>
             b == <<y[h]>>
             aA == <<xA[h]>>
             aD == <<xD[h]>>
             bA == <<yA[h]>>
             bD == <<yD[h]>>
             r == dg_trick_bitwise32(op, a, aA, aD, b, bA, bD)
  <2>1. a \in Number(1) /\ b \in Number(1)
    BY DEF Number
  <2>2. aA \in Booleans(1) /\ aD \in Booleans(1) /\ bA \in Booleans(1) /\ bD \in Booleans(1)
    BY DEF Booleans
  <2>3. aA[1] = xA[h] /\ aD[1] = xD[h] /\ bA[1] = yA[h] /\ bD[1] = yD[h]
    OBVIOUS
  <2>4. HalfOf(H, h, r)
    BY <1>2
  <2> HIDE DEF aA, aD, bA, bD, H, r
  <2>5. HalfFlags(r, Takes(op, 1, a, ~aA[1]), Takes(op, 1, b, ~bA[1]), aA, aD, bA, bD)
    BY <2>1, <2>2, Trick32Flags DEF r
  <2>6. HalfFlags(r, Takes(op, 1, a, ~xA[h]), Takes(op, 1, b, ~yA[h]), aA, aD, bA, bD)
    BY <2>3, <2>5, Zenon
  <2> HIDE DEF a, b
  <2>7. /\ ~Takes(op, 1, a, ~xA[h]) /\ xA[h] => H.A[h]
        /\ ~Takes(op, 1, b, ~yA[h]) /\ yA[h] => H.A[h]
        /\ ~Takes(op, 1, a, ~xA[h]) /\ ~Takes(op, 1, b, ~yA[h]) => H.D[h]
        /\ ~xA[h] /\ ~yA[h] => ~H.A[h]
        /\ r.warn => (xA[h] /\ xD[h]) \/ (yA[h] /\ yD[h])
    BY <2>3, <2>4, <2>6, Zenon DEF HalfFlags, HalfOf
  <2>8. QED
    BY <2>7, Zenon DEF HalfRule, a, b, r, aA, aD, bA, bD
<1> HIDE DEF half, H
<1>3. QED
  BY <1>1, <1>2 DEF H, half

\* The halves of a double that are not the mask they seem to be are harmless.
ReadAsDouble(op, x, dx) ==
  x \notin Masks(op, 2) =>
    /\ ~(<<x[1]>> \in Masks(op, 1) /\ <<x[2]>> \in Masks(op, 1))
    /\ op = "and" /\ dx # {0} => <<x[1]>> \notin Masks(op, 1) /\ <<x[2]>> \notin Masks(op, 1)

\* The operand is not taken for a mask of 64 bits.
NotTaken(op, x, xA, dx) == /\ ~Takes(op, 2, x, ~xA[1])
                           /\ ReadAsDouble(op, x, dx)

LEMMA NotTakenFacts ==
  ASSUME NEW x, NEW op \in Ops, NEW xA \in Booleans(2), NEW dx, NotTaken(op, x, xA, dx)
  PROVE  /\ ~(Takes(op, 1, <<x[1]>>, ~xA[1]) /\ Takes(op, 1, <<x[2]>>, ~xA[2]))
         /\ dx # {0} /\ xA[1] /\ xA[2] =>
              ~Takes(op, 1, <<x[1]>>, ~xA[1]) /\ ~Takes(op, 1, <<x[2]>>, ~xA[2])
BY DEF NotTaken, ReadAsDouble, Takes

(* A double for which no mask is found is suspect, unless it is constant. *)
LEMMA SilentDouble ==
  ASSUME NEW x \in Number(2), NEW y \in Number(2), NEW op \in Ops,
         NEW xA \in Booleans(2), NEW xD \in Booleans(2),
         NEW yA \in Booleans(2), NEW yD \in Booleans(2), NEW dx, NEW dy,
         NotTaken(op, x, xA, dx), NotTaken(op, y, yA, dy),
         Silent(xA, xD, dx), Silent(yA, yD, dy)
  PROVE  LET H == trick_HALVES(op, x, xA, xD, y, yA, yD)
         IN  Silent(H.A, H.D, Reference(op, x, dx, y, dy))
<1> DEFINE H == trick_HALVES(op, x, xA, xD, y, yA, yD)
           R == Reference(op, x, dx, y, dy)
<1>1. /\ H.A \in Booleans(2) /\ H.D \in Booleans(2)
      /\ HalfRule(H, op, 1, x, xA, xD, y, yA, yD)
      /\ HalfRule(H, op, 2, x, xA, xD, y, yA, yD)
  BY HalvesRule
<1>2. dx = {0} /\ dy = {0} => R = {0}
  BY DEF Reference
<1>3. /\ dx # {0} => xA[1] /\ xA[2]
      /\ dy # {0} => yA[1] /\ yA[2]
  BY DEF Silent, Booleans
<1>4. DOMAIN H.A = 1 .. 2
  BY <1>1 DEF Booleans
<1> HIDE DEF H, R
<1>5. ASSUME dx # {0} \/ dy # {0} PROVE H.A[1] /\ H.A[2] /\ (H.D[1] \/ H.D[2])
  <2>1. /\ ~(Takes(op, 1, <<x[1]>>, ~xA[1]) /\ Takes(op, 1, <<x[2]>>, ~xA[2]))
        /\ dx # {0} => ~Takes(op, 1, <<x[1]>>, ~xA[1]) /\ ~Takes(op, 1, <<x[2]>>, ~xA[2])
    BY <1>3, NotTakenFacts
  <2>2. /\ ~(Takes(op, 1, <<y[1]>>, ~yA[1]) /\ Takes(op, 1, <<y[2]>>, ~yA[2]))
        /\ dy # {0} => ~Takes(op, 1, <<y[1]>>, ~yA[1]) /\ ~Takes(op, 1, <<y[2]>>, ~yA[2])
    BY <1>3, NotTakenFacts
  <2>3. QED
    BY <1>1, <1>3, <1>5, <2>1, <2>2, Zenon DEF HalfRule
<1>6. Silent(H.A, H.D, R)
  <2>1. CASE dx = {0} /\ dy = {0}
    BY <1>2, <2>1 DEF Silent
  <2>2. CASE dx # {0} \/ dy # {0}
    <3>1. \A i \in DOMAIN H.A : H.A[i]
      BY <1>4, <1>5, <2>2
    <3>2. \E i \in DOMAIN H.A : H.A[i] /\ H.D[i]
      BY <1>4, <1>5, <2>2
    <3>3. QED
      BY <3>1, <3>2 DEF Silent, ActiveDiscrete
  <2>3. QED
    BY <2>1, <2>2
<1>7. QED
  BY <1>6 DEF H, R

\* The flags of a word, and a warning that has a reason.
Typed(r, xA, xD, yA, yD) ==
  /\ r.A \in Booleans(2) /\ r.D \in Booleans(2) /\ r.warn \in BOOLEAN
  /\ r.warn => \E h \in 1 .. 2 : (xA[h] /\ xD[h]) \/ (yA[h] /\ yD[h])

(* The result of dg_trick_bitwise64, for words of any kind. *)
LEMMA Trick64Types ==
  ASSUME NEW x \in Number(2), NEW y \in Number(2), NEW op \in Ops,
         NEW xA \in Booleans(2), NEW xD \in Booleans(2),
         NEW yA \in Booleans(2), NEW yD \in Booleans(2),
         NEW r, r = dg_trick_bitwise64(op, x, xA, xD, y, yA, yD)
  PROVE  Typed(r, xA, xD, yA, yD)
<1> DEFINE T1 == Takes(op, 2, x, ~xA[1])
           T2 == Takes(op, 2, y, ~yA[1])
           H == trick_HALVES(op, x, xA, xD, y, yA, yD)
<1>1. /\ T1 => Passed(r, yA, yD)
      /\ ~T1 /\ T2 => Passed(r, xA, xD)
      /\ ~T1 /\ ~T2 => r = H
  BY Trick64Form
<1> HIDE DEF T1, T2
<1>2. CASE Passed(r, yA, yD)
  <2>1. /\ r.A \in Booleans(2) /\ r.D \in Booleans(2) /\ r.warn \in BOOLEAN
        /\ r.warn = ActiveDiscrete(yA, yD)
        /\ ActiveDiscrete(yA, yD) <=> \E i \in 1 .. 2 : yA[i] /\ yD[i]
    BY <1>2, PassedFacts
  <2>2. QED
    BY <2>1 DEF Typed
<1>3. CASE Passed(r, xA, xD)
  <2>1. /\ r.A \in Booleans(2) /\ r.D \in Booleans(2) /\ r.warn \in BOOLEAN
        /\ r.warn = ActiveDiscrete(xA, xD)
        /\ ActiveDiscrete(xA, xD) <=> \E i \in 1 .. 2 : xA[i] /\ xD[i]
    BY <1>3, PassedFacts
  <2>2. QED
    BY <2>1 DEF Typed
<1>4. CASE r = H
  <2>1. /\ H.A \in Booleans(2) /\ H.D \in Booleans(2) /\ H.warn \in BOOLEAN
        /\ H.warn => \E h \in 1 .. 2 : (xA[h] /\ xD[h]) \/ (yA[h] /\ yD[h])
    BY HalvesRule
  <2> HIDE DEF H
  <2>2. QED
    BY <1>4, <2>1, Zenon DEF Typed
<1>5. QED
  BY <1>1, <1>2, <1>3, <1>4, Zenon

\* The flags of the result tell enough, and not too much, of derivative R.
WellFlagged(r, rA, rD, R, xA, xD, dx, yA, yD, dy) ==
  /\ Silent(xA, xD, dx) /\ Silent(yA, yD, dy) /\ ~r.warn => Silent(rA, rD, R)
  /\ /\ Modest(xA, xD, dx) /\ Modest(yA, yD, dy)
     /\ R # {} /\ (R = {0} => dx = {0} /\ dy = {0})
     => Modest(rA, rD, R)

(* Two words of a double each. *)
LEMMA FlagsDouble ==
  ASSUME NEW x \in Number(2), NEW y \in Number(2), NEW op \in Ops,
         NEW xA \in Booleans(2), NEW xD \in Booleans(2),
         NEW yA \in Booleans(2), NEW yD \in Booleans(2), NEW dx, NEW dy,
         ReadAsDouble(op, x, dx), ReadAsDouble(op, y, dy),
         NEW r, r = dg_trick_bitwise64(op, x, xA, xD, y, yA, yD)
  PROVE  WellFlagged(r, r.A, r.D, Reference(op, x, dx, y, dy), xA, xD, dx, yA, yD, dy)
<1> DEFINE T1 == Takes(op, 2, x, ~xA[1])
           T2 == Takes(op, 2, y, ~yA[1])
           H == trick_HALVES(op, x, xA, xD, y, yA, yD)
           R == Reference(op, x, dx, y, dy)
<1>0. 2 \in 1 .. 2
  OBVIOUS
<1>1. /\ T1 => Passed(r, yA, yD)
      /\ ~T1 /\ T2 => Passed(r, xA, xD)
      /\ ~T1 /\ ~T2 => r = H
  BY Trick64Form
<1>2. CASE T1
  <2>1. /\ Silent(xA, xD, dx) /\ Silent(yA, yD, dy) /\ ~r.warn => Silent(r.A, r.D, R)
        /\ Modest(yA, yD, dy) /\ R # {} /\ (R = {0} => dy = {0}) => Modest(r.A, r.D, R)
    BY <1>0, <1>1, <1>2, FlagsFirst
  <2> HIDE DEF R
  <2>2. WellFlagged(r, r.A, r.D, R, xA, xD, dx, yA, yD, dy)
    BY <2>1, Zenon DEF WellFlagged
  <2>3. QED
    BY <2>2 DEF R
<1>3. CASE ~T1 /\ T2
  <2>1. /\ Silent(xA, xD, dx) /\ Silent(yA, yD, dy) /\ ~r.warn => Silent(r.A, r.D, R)
        /\ Modest(xA, xD, dx) /\ R # {} /\ (R = {0} => dx = {0}) => Modest(r.A, r.D, R)
    BY <1>0, <1>1, <1>3, FlagsSecond
  <2> HIDE DEF R
  <2>2. WellFlagged(r, r.A, r.D, R, xA, xD, dx, yA, yD, dy)
    BY <2>1, Zenon DEF WellFlagged
  <2>3. QED
    BY <2>2 DEF R
<1>4. CASE ~T1 /\ ~T2
  <2>1. NotTaken(op, x, xA, dx) /\ NotTaken(op, y, yA, dy)
    BY <1>4 DEF NotTaken
  <2>2. Silent(xA, xD, dx) /\ Silent(yA, yD, dy) => Silent(H.A, H.D, R)
    BY <2>1, SilentDouble
  <2>3. ASSUME Modest(xA, xD, dx), Modest(yA, yD, dy), R # {}, R = {0} => dx = {0} /\ dy = {0}
        PROVE  Modest(H.A, H.D, R)
    <3>1. R \in {{}, {0}}
      BY <1>0, <1>4, <2>3, ModestNone
    <3>2. /\ H.A \in Booleans(2) /\ H.D \in Booleans(2)
          /\ HalfRule(H, op, 1, x, xA, xD, y, yA, yD)
          /\ HalfRule(H, op, 2, x, xA, xD, y, yA, yD)
      BY HalvesRule
    <3> HIDE DEF R, H
    <3>3. R = {0} /\ dx = {0} /\ dy = {0}
      BY <2>3, <3>1
    <3>4. ~xA[1] /\ ~xA[2] /\ ~yA[1] /\ ~yA[2]
      BY <2>3, <3>3 DEF Modest, Booleans
    <3>5. ~H.A[1] /\ ~H.A[2] /\ DOMAIN H.A = 1 .. 2
      BY <3>2, <3>4 DEF HalfRule, Booleans
    <3>6. QED
      BY <3>3, <3>5 DEF Modest, ActiveDiscrete
  <2>4. r = H
    BY <1>1, <1>4
  <2> HIDE DEF R, H
  <2>5. WellFlagged(r, r.A, r.D, R, xA, xD, dx, yA, yD, dy)
    BY <2>2, <2>3, <2>4, Zenon DEF WellFlagged
  <2>6. QED
    BY <2>5 DEF R
<1>5. QED
  BY <1>2, <1>3, <1>4

(* One of the floats of a word that is read as two floats. *)
LEMMA FlagsHalf ==
  ASSUME NEW x \in Number(2), NEW y \in Number(2), NEW op \in Ops,
         NEW xA \in Booleans(2), NEW xD \in Booleans(2),
         NEW yA \in Booleans(2), NEW yD \in Booleans(2), NEW dx, NEW dy, NEW e \in 1 .. 2,
         NEW H, H = trick_HALVES(op, x, xA, xD, y, yA, yD)
  PROVE  WellFlagged(H, <<H.A[e]>>, <<H.D[e]>>, Reference(op, <<x[e]>>, dx, <<y[e]>>, dy),
                     <<xA[e]>>, <<xD[e]>>, dx, <<yA[e]>>, <<yD[e]>>, dy)
<1> DEFINE a == <<x[e]>>
           b == <<y[e]>>
           aA == <<xA[e]>>
           aD == <<xD[e]>>
           bA == <<yA[e]>>
           bD == <<yD[e]>>
           r == dg_trick_bitwise32(op, a, aA, aD, b, bA, bD)
           R == Reference(op, a, dx, b, dy)
<1>1. a \in Number(1) /\ b \in Number(1)
  BY DEF Number
<1>2. aA \in Booleans(1) /\ aD \in Booleans(1) /\ bA \in Booleans(1) /\ bD \in Booleans(1)
  BY DEF Booleans
<1> DEFINE half(h) == dg_trick_bitwise32(op, <<x[h]>>, <<xA[h]>>, <<xD[h]>>,
                                             <<y[h]>>, <<yA[h]>>, <<yD[h]>>)
<1>3. HalfOf(H, e, r) /\ (r.warn => H.warn)
  <2>1. /\ H.warn <=> half(1).warn \/ half(2).warn
        /\ HalfOf(H, 1, half(1)) /\ HalfOf(H, 2, half(2))
    BY TrickHalves
  <2> HIDE DEF half
  <2>2. HalfOf(H, e, half(e)) /\ (half(e).warn => H.warn)
    <3>1. CASE e = 1
      BY <2>1, <3>1
    <3>2. CASE e = 2
      BY <2>1, <3>2
    <3>3. QED
      BY <3>1, <3>2
  <2>3. QED
    BY <2>2, Zenon DEF half
<1> HIDE DEF a, b, aA, aD, bA, bD
<1>4. /\ Silent(aA, aD, dx) /\ Silent(bA, bD, dy) /\ ~r.warn => Silent(r.A, r.D, R)
      /\ /\ Modest(aA, aD, dx) /\ Modest(bA, bD, dy)
         /\ R # {} /\ (R = {0} => dx = {0} /\ dy = {0})
         => Modest(r.A, r.D, R)
  BY <1>1, <1>2, Flags32
<1> HIDE DEF r, R
<1>5. WellFlagged(H, <<H.A[e]>>, <<H.D[e]>>, R, aA, aD, dx, bA, bD, dy)
  BY <1>3, <1>4, Zenon DEF WellFlagged, HalfOf
<1>6. QED
  BY <1>5 DEF R, a, b, aA, aD, bA, bD

\* The lower half of r is what a handler does with the lower half of an operand.
HalfPassed(r, A, D) ==
  \E s : /\ Passed(s, <<A[1]>>, <<D[1]>>)
         /\ <<r.A[1]>> = s.A /\ <<r.D[1]>> = s.D /\ (s.warn => r.warn)

LEMMA PassedHalf ==
  ASSUME NEW A \in Booleans(2), NEW D \in Booleans(2), NEW r, Passed(r, A, D)
  PROVE  HalfPassed(r, A, D)
<1> DEFINE a == <<A[1]>>
           d == <<D[1]>>
           s == Result(a, Never(a), ActiveDiscrete(a, d))
<1>1. /\ r.A = A /\ r.warn = ActiveDiscrete(A, D) /\ r.D \in Booleans(2)
      /\ \A i \in 1 .. 2 : ~r.D[i]
      /\ ActiveDiscrete(A, D) <=> \E i \in 1 .. 2 : A[i] /\ D[i]
  BY PassedFacts
<1>2. a \in Booleans(1) /\ d \in Booleans(1) /\ a[1] = A[1] /\ d[1] = D[1]
  BY DEF Booleans
<1>3. Passed(s, a, d)
  BY DEF Passed
<1> HIDE DEF a, d, s
<1>4. /\ s.A = a /\ s.D \in Booleans(1) /\ s.warn = ActiveDiscrete(a, d)
      /\ \A i \in 1 .. 1 : ~s.D[i]
      /\ ActiveDiscrete(a, d) <=> \E i \in 1 .. 1 : a[i] /\ d[i]
  BY <1>2, <1>3, PassedFacts
<1>5. s.warn => r.warn
  BY <1>1, <1>2, <1>4
<1>6. <<r.A[1]>> = s.A
  BY <1>1, <1>4 DEF a
<1>7. <<r.D[1]>> = s.D
  <2>1. s.D[1] = FALSE /\ r.D[1] = FALSE
    BY <1>1, <1>4 DEF Booleans
  <2>2. <<s.D[1]>> = s.D
    BY <1>4, OneFlag DEF Booleans
  <2>3. QED
    BY <2>1, <2>2
<1>8. QED
  BY <1>3, <1>5, <1>6, <1>7 DEF a, d, HalfPassed

(* A word with one float. *)
LEMMA FlagsSingle ==
  ASSUME NEW x \in Number(2), NEW y \in Number(2), NEW op \in Ops, x[2] = {}, y[2] = {},
         NEW xA \in Booleans(2), NEW xD \in Booleans(2),
         NEW yA \in Booleans(2), NEW yD \in Booleans(2), NEW dx, NEW dy,
         NEW r, r = dg_trick_bitwise64(op, x, xA, xD, y, yA, yD)
  PROVE  WellFlagged(r, <<r.A[1]>>, <<r.D[1]>>, Reference(op, <<x[1]>>, dx, <<y[1]>>, dy),
                     <<xA[1]>>, <<xD[1]>>, dx, <<yA[1]>>, <<yD[1]>>, dy)
<1> DEFINE T1 == Takes(op, 2, x, ~xA[1])
           T2 == Takes(op, 2, y, ~yA[1])
           a == <<x[1]>>
           b == <<y[1]>>
           aA == <<xA[1]>>
           aD == <<xD[1]>>
           bA == <<yA[1]>>
           bD == <<yD[1]>>
           R == Reference(op, a, dx, b, dy)
<1>0. 1 \in 1 .. 2
  OBVIOUS
<1>1. /\ T1 => Passed(r, yA, yD)
      /\ ~T1 /\ T2 => Passed(r, xA, xD)
      /\ ~T1 /\ ~T2 => r = trick_HALVES(op, x, xA, xD, y, yA, yD)
  BY Trick64Form
<1>2. a \in Number(1) /\ b \in Number(1)
  BY DEF Number
<1>3. /\ aA \in Booleans(1) /\ aD \in Booleans(1) /\ bA \in Booleans(1) /\ bD \in Booleans(1)
      /\ aA[1] = xA[1] /\ bA[1] = yA[1]
  BY DEF Booleans
<1>4. CASE T1
  <2>1. op = "or" /\ a \in Masks(op, 1) /\ ~xA[1]
    BY <1>4, SingleMask DEF Takes
  <2>0. Passed(r, yA, yD)
    BY <1>1, <1>4
  <2>2. PICK s : Passed(s, bA, bD) /\ <<r.A[1]>> = s.A /\ <<r.D[1]>> = s.D /\ (s.warn => r.warn)
    <3>1. HalfPassed(r, yA, yD)
      BY <2>0, PassedHalf, Zenon
    <3>2. QED
      BY <3>1 DEF HalfPassed
  <2> HIDE DEF a, b, aA, aD, bA, bD
  <2>3. Takes(op, 1, a, ~aA[1])
    BY <1>3, <2>1 DEF Takes
  <2>4. /\ Silent(aA, aD, dx) /\ Silent(bA, bD, dy) /\ ~s.warn => Silent(s.A, s.D, R)
        /\ Modest(bA, bD, dy) /\ R # {} /\ (R = {0} => dy = {0}) => Modest(s.A, s.D, R)
    BY <1>0, <1>2, <1>3, <2>2, <2>3, FlagsFirst
  <2> HIDE DEF R
  <2>5. WellFlagged(r, <<r.A[1]>>, <<r.D[1]>>, R, aA, aD, dx, bA, bD, dy)
    BY <2>2, <2>4, Zenon DEF WellFlagged
  <2>6. QED
    BY <2>5 DEF R, a, b, aA, aD, bA, bD
<1>5. CASE ~T1 /\ T2
  <2>1. op = "or" /\ b \in Masks(op, 1) /\ ~yA[1]
    BY <1>5, SingleMask DEF Takes
  <2>0. Passed(r, xA, xD)
    BY <1>1, <1>5
  <2>2. PICK s : Passed(s, aA, aD) /\ <<r.A[1]>> = s.A /\ <<r.D[1]>> = s.D /\ (s.warn => r.warn)
    <3>1. HalfPassed(r, xA, xD)
      BY <2>0, PassedHalf, Zenon
    <3>2. QED
      BY <3>1 DEF HalfPassed
  <2> DEFINE Q == Reference(op, b, dy, a, dx)
  <2> HIDE DEF a, b, aA, aD, bA, bD
  <2>3. Takes(op, 1, b, ~bA[1])
    BY <1>3, <2>1 DEF Takes
  <2>4. /\ Silent(bA, bD, dy) /\ Silent(aA, aD, dx) /\ ~s.warn => Silent(s.A, s.D, Q)
        /\ Modest(aA, aD, dx) /\ Q # {} /\ (Q = {0} => dx = {0}) => Modest(s.A, s.D, Q)
    BY <1>0, <1>2, <1>3, <2>2, <2>3, FlagsFirst
  <2>5. Q = R
    BY <2>1, ReferenceSwap
  <2> HIDE DEF R, Q
  <2>6. WellFlagged(r, <<r.A[1]>>, <<r.D[1]>>, R, aA, aD, dx, bA, bD, dy)
    BY <2>2, <2>4, <2>5, Zenon DEF WellFlagged
  <2>7. QED
    BY <2>6 DEF R, a, b, aA, aD, bA, bD
<1>6. CASE ~T1 /\ ~T2
  <2>1. r = trick_HALVES(op, x, xA, xD, y, yA, yD)
    BY <1>1, <1>6
  <2>2. QED
    BY <1>0, <2>1, FlagsHalf
<1>7. QED
  BY <1>4, <1>5, <1>6

\* Flags f of operand p tell enough, or not too much, of its numbers.
FlagSets == [A : Booleans(2), D : Booleans(2)]
Telling(k, f, p) ==
  \A e \in ElementsOf(k) :
    p.outside[e] => Silent(NumberOf(k, f.A, e), NumberOf(k, f.D, e), p.deriv[e])
Discreet(k, f, p) ==
  \A e \in ElementsOf(k) : Modest(NumberOf(k, f.A, e), NumberOf(k, f.D, e), p.deriv[e])

\* The unused half of a word with one float is 0.
Narrowed(k, f, p) == k = "single" => p.bits[2] = {} /\ ~f.A[2] /\ ~f.D[2]

(* The flags of each number of a result. *)
LEMMA FlagsWord ==
  ASSUME NEW k \in AllKinds, NEW op \in Ops, NEW p \in Operands, NEW q \in Operands,
         NEW f \in FlagSets, NEW g \in FlagSets, Narrowed(k, f, p), Narrowed(k, g, q),
         ~MisreadAs(k, op, p), ~MisreadAs(k, op, q), NEW e \in ElementsOf(k),
         NEW r, r = dg_trick_bitwise64(op, p.bits, f.A, f.D, q.bits, g.A, g.D)
  PROVE  WellFlagged(r, NumberOf(k, r.A, e), NumberOf(k, r.D, e),
                     Reference(op, NumberOf(k, p.bits, e), p.deriv[e],
                                   NumberOf(k, q.bits, e), q.deriv[e]),
                     NumberOf(k, f.A, e), NumberOf(k, f.D, e), p.deriv[e],
                     NumberOf(k, g.A, e), NumberOf(k, g.D, e), q.deriv[e])
<1> DEFINE x == p.bits
           y == q.bits
           xA == f.A
           xD == f.D
           yA == g.A
           yD == g.D
           dx == p.deriv[e]
           dy == q.deriv[e]
<1>1. /\ x \in Number(2) /\ y \in Number(2) /\ e \in 1 .. 2
      /\ xA \in Booleans(2) /\ xD \in Booleans(2) /\ yA \in Booleans(2) /\ yD \in Booleans(2)
  BY DEF Operands, FlagSets, ElementsOf
<1>2. CASE k = "double"
  <2>1. e = 1
    BY <1>2 DEF ElementsOf
  <2>2. ReadAsDouble(op, x, dx) /\ ReadAsDouble(op, y, dy)
    BY <1>2, <2>1 DEF MisreadAs, ReadAsDouble
  <2> HIDE DEF x, y, xA, xD, yA, yD, dx, dy
  <2>3. r = dg_trick_bitwise64(op, x, xA, xD, y, yA, yD)
    BY DEF x, y, xA, xD, yA, yD
  <2>4. WellFlagged(r, r.A, r.D, Reference(op, x, dx, y, dy), xA, xD, dx, yA, yD, dy)
    BY <1>1, <2>2, <2>3, FlagsDouble
  <2>5. QED
    BY <1>2, <2>4 DEF NumberOf, x, y, xA, xD, yA, yD, dx, dy
<1>3. CASE k = "pair"
  <2>1. x \notin Masks(op, 2) /\ y \notin Masks(op, 2)
    BY <1>3 DEF MisreadAs
  <2> HIDE DEF x, y, xA, xD, yA, yD, dx, dy
  <2>2. r = trick_HALVES(op, x, xA, xD, y, yA, yD)
    BY <1>1, <2>1, Trick64Form DEF Takes, x, y, xA, xD, yA, yD
  <2>3. WellFlagged(r, <<r.A[e]>>, <<r.D[e]>>, Reference(op, <<x[e]>>, dx, <<y[e]>>, dy),
                    <<xA[e]>>, <<xD[e]>>, dx, <<yA[e]>>, <<yD[e]>>, dy)
    BY <1>1, <2>2, FlagsHalf
  <2>4. QED
    BY <1>3, <2>3 DEF NumberOf, x, y, xA, xD, yA, yD, dx, dy
<1>4. CASE k = "single"
  <2>1. x[2] = {} /\ y[2] = {} /\ e = 1
    BY <1>4 DEF Narrowed, ElementsOf
  <2> HIDE DEF x, y, xA, xD, yA, yD, dx, dy
  <2>2. r = dg_trick_bitwise64(op, x, xA, xD, y, yA, yD)
    BY DEF x, y, xA, xD, yA, yD
  <2>3. WellFlagged(r, <<r.A[1]>>, <<r.D[1]>>, Reference(op, <<x[1]>>, dx, <<y[1]>>, dy),
                    <<xA[1]>>, <<xD[1]>>, dx, <<yA[1]>>, <<yD[1]>>, dy)
    BY <1>1, <2>1, <2>2, FlagsSingle
  <2>4. QED
    BY <1>4, <2>1, <2>3 DEF NumberOf, x, y, xA, xD, yA, yD, dx, dy
<1>5. QED
  BY <1>2, <1>3, <1>4 DEF AllKinds

(* Discreet operands cause no warning. *)
LEMMA DiscreetWord ==
  ASSUME NEW k \in AllKinds, NEW f \in FlagSets, NEW p, Narrowed(k, f, p), Discreet(k, f, p)
  PROVE  ~(f.A[1] /\ f.D[1]) /\ ~(f.A[2] /\ f.D[2]) /\ ~ActiveDiscrete(f.A, f.D)
<1>1. f.A \in Booleans(2) /\ f.D \in Booleans(2)
  BY DEF FlagSets
<1>2. DOMAIN f.A = 1 .. 2
  BY <1>1 DEF Booleans
<1>3. ~(f.A[1] /\ f.D[1]) /\ ~(f.A[2] /\ f.D[2])
  <2>1. CASE k = "double"
    <3>1. ~ActiveDiscrete(f.A, f.D)
      BY <2>1 DEF Discreet, ElementsOf, NumberOf, Modest
    <3>2. QED
      BY <1>2, <3>1 DEF ActiveDiscrete
  <2>2. ASSUME NEW e \in 1 .. 2, ~ActiveDiscrete(<<f.A[e]>>, <<f.D[e]>>) PROVE ~(f.A[e] /\ f.D[e])
    BY <2>2 DEF ActiveDiscrete
  <2>3. CASE k = "pair"
    <3>1. ~ActiveDiscrete(<<f.A[1]>>, <<f.D[1]>>) /\ ~ActiveDiscrete(<<f.A[2]>>, <<f.D[2]>>)
      BY <2>3 DEF Discreet, ElementsOf, NumberOf, Modest
    <3>2. QED
      BY <2>2, <3>1
  <2>4. CASE k = "single"
    <3>1. ~ActiveDiscrete(<<f.A[1]>>, <<f.D[1]>>)
      BY <2>4 DEF Discreet, ElementsOf, NumberOf, Modest
    <3>2. QED
      BY <2>2, <2>4, <3>1 DEF Narrowed
  <2>5. QED
    BY <2>1, <2>3, <2>4 DEF AllKinds
<1>4. QED
  BY <1>2, <1>3 DEF ActiveDiscrete

-----------------------------------------------------------------------------
(* The operations of the program.                                          *)

LEMMA NarrowFacts ==
  ASSUME NEW S, NEW w \in [1 .. 2 -> S], NEW zero \in S
  PROVE  /\ Narrow(w, zero) \in [1 .. 2 -> S] /\ Narrow(w, zero)[1] = w[1]
         /\ kind = "single" => Narrow(w, zero)[2] = zero
         /\ kind # "single" => Narrow(w, zero) = w
BY DEF Narrow

\* The elements and parts of words, in terms of the kind.
LEMMA OfKind ==
  /\ Elements = ElementsOf(kind) /\ Elements \subseteq 1 .. 2 /\ 1 \in Elements
  /\ \A w, e : Part(w, e) = NumberOf(kind, w, e)
  /\ kind # "pair" => Elements = {1}
  /\ kind = "pair" => Elements = {1, 2}
BY DEF Elements, ElementsOf, Part, NumberOf

LEMMA PartFacts ==
  ASSUME NEW w \in Number(2), NEW e \in Elements
  PROVE  /\ Part(w, e) \in Number(WidthOf(kind)) /\ Len(Part(w, e)) = WidthOf(kind)
         /\ Part(w, e) \in Recordable /\ WidthOf(kind) \in 1 .. 2
<1>1. w[e] \in Halves
  BY DEF Number, Elements
<1>2. <<w[e]>> \in Number(1)
  BY <1>1, OneHalf
<1>3. Part(w, e) \in Number(WidthOf(kind)) /\ WidthOf(kind) \in 1 .. 2
  BY <1>2 DEF Part, WidthOf
<1>4. Len(Part(w, e)) = WidthOf(kind)
  BY <1>3, NumberFacts
<1>5. QED
  BY <1>3, <1>4 DEF Recordable, WidthOf

\* The operand that results from p op q, and its dot value and state.
DotOf(op, p, q) == dg_dot_bitwise64(op, p.bits, p.dot, q.bits, q.dot)
BarOf(op, st, p, q) == dg_bar_bitwise64(op, st, p.bits, p.idx, q.bits, q.idx)
DerivOf(op, p, q) ==
  [e \in 1 .. 2 |-> IF e \in Elements
                    THEN Reference(op, Part(p.bits, e), p.deriv[e], Part(q.bits, e), q.deriv[e])
                    ELSE {}]
ForwardOf(op, p, q) ==
  [e \in 1 .. 2 |-> e \in Elements /\ Follows(op, p, e) /\ Follows(op, q, e)]
OutsideOf(p, q) ==
  [e \in 1 .. 2 |-> e \in Elements /\ p.outside[e] /\ q.outside[e] /\ dg_disable = 0]
ResultOf(op, st, p, q) ==
  Operand(Apply(op, p.bits, q.bits), Narrow(DotOf(op, p, q), {}), Narrow(BarOf(op, st, p, q).out, 0),
          DerivOf(op, p, q), ForwardOf(op, p, q), OutsideOf(p, q))

\* An operand whose indices are assigned.
Assigned(st, p) == p \in Operands /\ p.idx \in [1 .. 2 -> IndicesOf(st.tape)]

(* Derivatives of the reference are sets of numbers. *)
LEMMA ReferenceType ==
  ASSUME NEW op, NEW s, NEW t, NEW ds \in SUBSET Int, NEW dt \in SUBSET Int
  PROVE  Reference(op, s, ds, t, dt) \in SUBSET Int
<1>1. ASSUME NEW D \in SUBSET Int PROVE Minus(D) \in SUBSET Int
  BY DEF Minus
<1>2. ASSUME NEW m, NEW n, NEW D \in SUBSET Int PROVE UnderMask(op, m, n, D) \in SUBSET Int
  <2>1. Minus(D) \in SUBSET Int
    BY <1>1
  <2>2. \/ UnderMask(op, m, n, D) \in {{0}, {}}
        \/ UnderMask(op, m, n, D) \in {D \cup Minus(D), Minus(D), D}
    BY DEF UnderMask
  <2> DEFINE M == Minus(D)
             U == UnderMask(op, m, n, D)
  <2>3. U = {0} \/ U = {} \/ U = D \cup M \/ U = M \/ U = D
    BY <2>2
  <2> HIDE DEF M, U
  <2>4. M \subseteq Int /\ D \subseteq Int
    BY <2>1 DEF M
  <2>5. U \subseteq Int
    <3>1. 0 \in Int
      OBVIOUS
    <3>2. QED
      BY <2>3, <2>4, <3>1, Zenon
  <2>6. QED
    BY <2>5 DEF U
<1>3. {0} \in SUBSET Int /\ {} \in SUBSET Int
  OBVIOUS
<1>4. QED
  BY <1>2, <1>3 DEF Reference

LEMMA ResultTypes ==
  ASSUME NEW op \in Ops, NEW st, StateOK(st), NEW p, NEW q, Assigned(st, p), Assigned(st, q)
  PROVE  /\ StateOK(BarOf(op, st, p, q)) /\ Extends(st, BarOf(op, st, p, q))
         /\ Assigned(BarOf(op, st, p, q), ResultOf(op, st, p, q))
<1> DEFINE st2 == BarOf(op, st, p, q)
           r == ResultOf(op, st, p, q)
<1>1. /\ p.bits \in Number(2) /\ p.dot \in Number(2) /\ p.deriv \in [1 .. 2 -> SUBSET Int]
      /\ q.bits \in Number(2) /\ q.dot \in Number(2) /\ q.deriv \in [1 .. 2 -> SUBSET Int]
      /\ p.forward \in [1 .. 2 -> BOOLEAN] /\ q.forward \in [1 .. 2 -> BOOLEAN]
      /\ p.idx \in [1 .. 2 -> IndicesOf(st.tape)] /\ q.idx \in [1 .. 2 -> IndicesOf(st.tape)]
  BY DEF Assigned, Operands
<1>2. StateOK(st2) /\ Extends(st, st2)
  BY <1>1, Bar64Types DEF BarOf
<1>3. Apply(op, p.bits, q.bits) \in Number(2)
  <2> DEFINE x == p.bits
             y == q.bits
  <2>1. x \in Number(2) /\ y \in Number(2)
    BY <1>1
  <2> HIDE DEF x, y
  <2>2. Apply(op, x, y) \in Number(2)
    BY <2>1, ApplyFacts
  <2>3. QED
    BY <2>2 DEF x, y
<1>4. DotOf(op, p, q) \in Number(2)
  BY <1>1, Dot64Form DEF DotOf
<1>5. {} \in Halves /\ 0 \in IndicesOf(st2.tape) /\ st2.out \in [1 .. 2 -> IndicesOf(st2.tape)]
      /\ IndicesOf(st2.tape) \subseteq Nat
  BY <1>2 DEF Halves, StateOK, States, IndicesOf, NumInputs
<1>6. Narrow(DotOf(op, p, q), {}) \in Number(2)
  BY <1>4, <1>5, NarrowFacts DEF Number
<1> HIDE DEF st2
<1>7. Narrow(st2.out, 0) \in [1 .. 2 -> IndicesOf(st2.tape)]
  BY <1>5, NarrowFacts
<1>8. DerivOf(op, p, q) \in [1 .. 2 -> SUBSET Int]
  <2>1. ASSUME NEW e \in 1 .. 2
        PROVE  Reference(op, Part(p.bits, e), p.deriv[e], Part(q.bits, e), q.deriv[e]) \in SUBSET Int
    <3>1. p.deriv[e] \in SUBSET Int /\ q.deriv[e] \in SUBSET Int
      BY <1>1
    <3>2. QED
      BY <3>1, ReferenceType
  <2>2. QED
    BY <2>1 DEF DerivOf
<1>9. ForwardOf(op, p, q) \in [1 .. 2 -> BOOLEAN]
  BY DEF ForwardOf
<1>o. OutsideOf(p, q) \in [1 .. 2 -> BOOLEAN]
  BY DEF OutsideOf
<1>10. /\ r.bits = Apply(op, p.bits, q.bits) /\ r.dot = Narrow(DotOf(op, p, q), {})
       /\ r.idx = Narrow(st2.out, 0) /\ r.deriv = DerivOf(op, p, q) /\ r.forward = ForwardOf(op, p, q)
       /\ r.outside = OutsideOf(p, q)
       /\ r = [bits |-> r.bits, dot |-> r.dot, idx |-> r.idx, deriv |-> r.deriv,
               forward |-> r.forward, outside |-> r.outside]
  BY DEF ResultOf, Operand, st2
<1> HIDE DEF r
<1>11. r.idx \in [1 .. 2 -> Nat] /\ r.idx \in [1 .. 2 -> IndicesOf(st2.tape)]
  BY <1>5, <1>7, <1>10
<1>12. Assigned(st2, r)
  BY <1>3, <1>6, <1>8, <1>9, <1>o, <1>10, <1>11 DEF Assigned, Operands
<1>13. QED
  BY <1>2, <1>12 DEF st2, r

LEMMA MisreadOfKind ==
  ASSUME NEW op, NEW p
  PROVE  Misread(op, p) <=> MisreadAs(kind, op, p)
BY DEF Misread, MisreadAs

LEMMA FollowsOfKind ==
  ASSUME NEW op, NEW p \in Operands, NEW e \in Elements
  PROVE  Follows(op, p, e) => FollowsAs(kind, op, p, e)
<1>1. p.dot \in Number(2)
  BY DEF Operands
<1>2. Len(Part(p.dot, e)) = WidthOf(kind)
  BY <1>1, PartFacts
<1>3. QED
  BY <1>2, OfKind DEF Follows, FollowsAs

(* The fields of a result. *)
LEMMA ResultFields ==
  ASSUME NEW op \in Ops, NEW st, StateOK(st), NEW p, NEW q, Assigned(st, p), Assigned(st, q),
         NEW e \in Elements
  PROVE  LET r == ResultOf(op, st, p, q)
         IN  /\ r.bits = Apply(op, p.bits, q.bits)
             /\ Part(r.dot, e) = Part(DotOf(op, p, q), e)
             /\ r.idx[e] = BarOf(op, st, p, q).out[e]
             /\ r.deriv[e] = Reference(op, Part(p.bits, e), p.deriv[e], Part(q.bits, e), q.deriv[e])
             /\ r.forward[e] <=> Follows(op, p, e) /\ Follows(op, q, e)
             /\ r.outside[e] <=> p.outside[e] /\ q.outside[e] /\ dg_disable = 0
             /\ kind = "single" => r.dot[2] = {}
<1> DEFINE d == DotOf(op, p, q)
           st2 == BarOf(op, st, p, q)
           r == ResultOf(op, st, p, q)
<1>1. /\ p.bits \in Number(2) /\ p.dot \in Number(2)
      /\ q.bits \in Number(2) /\ q.dot \in Number(2)
  BY DEF Assigned, Operands
<1>2. d \in Number(2)
  BY <1>1, Dot64Form DEF DotOf
<1>3. StateOK(st2)
  BY ResultTypes
<1>4. /\ r.bits = Apply(op, p.bits, q.bits) /\ r.dot = Narrow(d, {})
      /\ r.idx = Narrow(st2.out, 0) /\ r.deriv = DerivOf(op, p, q) /\ r.forward = ForwardOf(op, p, q)
      /\ r.outside = OutsideOf(p, q)
  BY DEF ResultOf, Operand
<1>5. {} \in Halves /\ 0 \in IndicesOf(st2.tape) /\ st2.out \in [1 .. 2 -> IndicesOf(st2.tape)]
  BY <1>3 DEF Halves, StateOK, States, IndicesOf, NumInputs
<1> HIDE DEF d, st2, r
<1>6. /\ Narrow(d, {})[1] = d[1] /\ (kind = "single" => Narrow(d, {})[2] = {})
      /\ kind # "single" => Narrow(d, {}) = d
  BY <1>2, <1>5, NarrowFacts DEF Number
<1>7. /\ Narrow(st2.out, 0)[1] = st2.out[1]
      /\ kind # "single" => Narrow(st2.out, 0) = st2.out
  BY <1>5, NarrowFacts
<1>8. e \in 1 .. 2 /\ (kind = "single" => e = 1)
  BY DEF Elements
<1>9. Part(r.dot, e) = Part(d, e)
  BY <1>4, <1>6, <1>8 DEF Part
<1>10. r.idx[e] = st2.out[e]
  BY <1>4, <1>7, <1>8
<1>11. /\ r.deriv[e] = Reference(op, Part(p.bits, e), p.deriv[e], Part(q.bits, e), q.deriv[e])
       /\ r.forward[e] <=> Follows(op, p, e) /\ Follows(op, q, e)
  BY <1>4, <1>8 DEF DerivOf, ForwardOf
<1>o. r.outside[e] <=> p.outside[e] /\ q.outside[e] /\ dg_disable = 0
  BY <1>4, <1>8 DEF OutsideOf
<1>12. kind = "single" => r.dot[2] = {}
  BY <1>4, <1>6
<1>13. QED
  BY <1>4, <1>9, <1>10, <1>11, <1>o, <1>12 DEF d, st2, r

(* The result of an operation on words that are read as what they are. *)
LEMMA ResultSound ==
  ASSUME kind \in AllKinds, NEW op \in Ops, NEW in, NEW st, StateOK(st),
         NEW p \in Operands, NEW q \in Operands,
         Recorded(kind, in, st, p), Recorded(kind, in, st, q), Forwarded(kind, p), Forwarded(kind, q),
         ~Misread(op, p), ~Misread(op, q)
  PROVE  /\ Recorded(kind, in, BarOf(op, st, p, q), ResultOf(op, st, p, q))
         /\ Forwarded(kind, ResultOf(op, st, p, q))
<1> DEFINE st2 == BarOf(op, st, p, q)
           r == ResultOf(op, st, p, q)
           d == DotOf(op, p, q)
<1>1. Assigned(st, p) /\ Assigned(st, q)
  BY DEF Assigned, Recorded
<1>2. ~MisreadAs(kind, op, p) /\ ~MisreadAs(kind, op, q)
  BY MisreadOfKind
<1>3. Assigned(st2, r)
  BY <1>1, ResultTypes
<1>4. ASSUME NEW e \in Elements
      PROVE  /\ r.bits = Apply(op, p.bits, q.bits)
             /\ Part(r.dot, e) = Part(d, e)
             /\ r.idx[e] = st2.out[e]
             /\ r.deriv[e] = Reference(op, Part(p.bits, e), p.deriv[e], Part(q.bits, e), q.deriv[e])
             /\ r.forward[e] <=> Follows(op, p, e) /\ Follows(op, q, e)
             /\ r.outside[e] <=> p.outside[e] /\ q.outside[e] /\ dg_disable = 0
             /\ kind = "single" => r.dot[2] = {}
  BY <1>1, ResultFields
<1>r. ASSUME NEW e \in Elements
      PROVE  Ranged(NumberOf(kind, Apply(op, p.bits, q.bits), e),
                    Reference(op, NumberOf(kind, p.bits, e), p.deriv[e],
                                  NumberOf(kind, q.bits, e), q.deriv[e]))
  <2> DEFINE x == NumberOf(kind, p.bits, e)
             y == NumberOf(kind, q.bits, e)
             n == WidthOf(kind)
  <2>1. p.bits \in Number(2) /\ q.bits \in Number(2) /\ e \in ElementsOf(kind) /\ e \in 1 .. 2
    BY OfKind DEF Operands
  <2>2. x \in Number(n) /\ y \in Number(n) /\ n \in 1 .. 2
    BY <2>1, PartFacts, OfKind
  <2>3. Ranged(x, p.deriv[e]) /\ Ranged(y, q.deriv[e])
    BY <2>1 DEF Recorded
  <2>4. NumberOf(kind, Apply(op, p.bits, q.bits), e) = Apply(op, x, y)
    <3>1. CASE kind = "double"
      BY <3>1 DEF NumberOf
    <3>2. CASE kind # "double"
      <4>1. <<Apply(op, p.bits, q.bits)[e]>> = Apply(op, <<p.bits[e]>>, <<q.bits[e]>>)
        BY <2>1, TwoHalves, ZenonT(60)
      <4>2. QED
        BY <3>2, <4>1 DEF NumberOf
    <3>3. QED
      BY <3>1, <3>2
  <2> HIDE DEF x, y, n
  <2>5. Ranged(Apply(op, x, y), Reference(op, x, p.deriv[e], y, q.deriv[e]))
    BY <2>2, <2>3, ReferenceRanged, Zenon
  <2>6. QED
    BY <2>4, <2>5 DEF x, y
<1>5. ASSUME NEW e \in Elements, p.outside[e], q.outside[e], dg_disable = 0
      PROVE  Fine(in, st2, NumberOf(kind, Apply(op, p.bits, q.bits), e), st2.out[e],
                  Reference(op, NumberOf(kind, p.bits, e), p.deriv[e],
                                NumberOf(kind, q.bits, e), q.deriv[e]))
  <2>1. e \in ElementsOf(kind)
    BY OfKind
  <2>2. QED
    BY <1>2, <1>5, <2>1, BarWord DEF BarOf
<1>6. ASSUME NEW e \in Elements, FollowsAs(kind, op, p, e), FollowsAs(kind, op, q, e)
      PROVE  Flows(kind, NumberOf(kind, d, e),
                   Reference(op, NumberOf(kind, p.bits, e), p.deriv[e],
                                 NumberOf(kind, q.bits, e), q.deriv[e]))
  <2>1. e \in ElementsOf(kind)
    BY OfKind
  <2>2. QED
    BY <1>2, <1>6, <2>1, DotWord DEF DotOf
<1>7. kind = "single" => r.bits[2] = {} /\ r.dot[2] = {}
  <2>1. SUFFICES ASSUME kind = "single" PROVE r.bits[2] = {} /\ r.dot[2] = {}
    OBVIOUS
  <2>2. p.bits[2] = {} /\ q.bits[2] = {}
    BY <2>1 DEF Recorded
  <2>3. 1 \in Elements
    BY OfKind
  <2>4. p.bits \in Number(2) /\ Len(p.bits) = 2
    BY DEF Operands, Number
  <2>5. Apply(op, p.bits, q.bits)[2] = BitOp(op, {}, {})
    BY <2>2, <2>4 DEF Apply
  <2>6. BitOp(op, {}, {}) = {}
    BY DEF BitOp, Ops
  <2>7. r.bits = Apply(op, p.bits, q.bits) /\ r.dot[2] = {}
    BY <1>4, <2>1, <2>3
  <2>8. QED
    BY <2>5, <2>6, <2>7
<1> HIDE DEF st2, r, d
<1>8. Recorded(kind, in, st2, r)
  <2>1. ASSUME NEW e \in ElementsOf(kind)
        PROVE  /\ Ranged(NumberOf(kind, r.bits, e), r.deriv[e])
               /\ r.outside[e] => Fine(in, st2, NumberOf(kind, r.bits, e), r.idx[e], r.deriv[e])
    <3>1. e \in Elements
      BY OfKind
    <3>2. /\ r.bits = Apply(op, p.bits, q.bits) /\ r.idx[e] = st2.out[e]
          /\ r.deriv[e] = Reference(op, NumberOf(kind, p.bits, e), p.deriv[e],
                                        NumberOf(kind, q.bits, e), q.deriv[e])
          /\ r.outside[e] <=> p.outside[e] /\ q.outside[e] /\ dg_disable = 0
      BY <1>4, <3>1, OfKind
    <3>3. QED
      BY <1>5, <1>r, <3>1, <3>2
  <2>2. QED
    BY <1>3, <1>7, <2>1 DEF Recorded, Assigned
<1>9. Forwarded(kind, r)
  <2>1. ASSUME NEW e \in ElementsOf(kind), r.forward[e]
        PROVE  Flows(kind, NumberOf(kind, r.dot, e), r.deriv[e])
    <3>1. e \in Elements
      BY OfKind
    <3>2. /\ NumberOf(kind, r.dot, e) = NumberOf(kind, d, e)
          /\ r.deriv[e] = Reference(op, NumberOf(kind, p.bits, e), p.deriv[e],
                                        NumberOf(kind, q.bits, e), q.deriv[e])
          /\ Follows(op, p, e) /\ Follows(op, q, e)
      BY <1>4, <2>1, <3>1, OfKind
    <3>3. FollowsAs(kind, op, p, e) /\ FollowsAs(kind, op, q, e)
      BY <3>1, <3>2, FollowsOfKind
    <3>4. QED
      BY <1>6, <3>1, <3>2, <3>3
  <2>2. QED
    BY <2>1 DEF Forwarded
<1>10. QED
  BY <1>8, <1>9 DEF st2, r

\* The flags that Assign stores.
Stored(r) ==
  IF kind = "single" THEN [A |-> <<r.A[1], FALSE>>, D |-> <<r.D[1], FALSE>>]
                     ELSE [A |-> r.A, D |-> r.D]

LEMMA PairOf ==
  ASSUME NEW S, NEW x \in S, NEW y \in S
  PROVE  <<x, y>> \in [1 .. 2 -> S] /\ <<x, y>>[1] = x /\ <<x, y>>[2] = y
OBVIOUS

LEMMA StoredFacts ==
  ASSUME NEW r, r.A \in Booleans(2), r.D \in Booleans(2)
  PROVE  /\ Stored(r) \in FlagSets
         /\ kind = "single" => ~Stored(r).A[2] /\ ~Stored(r).D[2]
         /\ \A e \in ElementsOf(kind) : /\ NumberOf(kind, Stored(r).A, e) = NumberOf(kind, r.A, e)
                                        /\ NumberOf(kind, Stored(r).D, e) = NumberOf(kind, r.D, e)
<1>1. CASE kind = "single"
  <2> DEFINE a == <<r.A[1], FALSE>>
             d == <<r.D[1], FALSE>>
  <2>1. Stored(r) = [A |-> a, D |-> d]
    BY <1>1 DEF Stored
  <2>2. /\ a \in Booleans(2) /\ d \in Booleans(2) /\ a[2] = FALSE /\ d[2] = FALSE
        /\ a[1] = r.A[1] /\ d[1] = r.D[1]
    <3>1. r.A[1] \in BOOLEAN /\ r.D[1] \in BOOLEAN /\ FALSE \in BOOLEAN
      BY DEF Booleans
    <3>2. QED
      BY <3>1, PairOf, Zenon DEF Booleans
  <2> HIDE DEF a, d
  <2>3. Stored(r) \in FlagSets /\ Stored(r).A = a /\ Stored(r).D = d
    BY <2>1, <2>2 DEF FlagSets
  <2>4. ~Stored(r).A[2] /\ ~Stored(r).D[2]
    BY <2>2, <2>3
  <2>5. ASSUME NEW e \in ElementsOf(kind)
        PROVE  /\ NumberOf(kind, Stored(r).A, e) = NumberOf(kind, r.A, e)
               /\ NumberOf(kind, Stored(r).D, e) = NumberOf(kind, r.D, e)
    <3>1. e = 1
      BY <1>1 DEF ElementsOf
    <3>2. NumberOf(kind, Stored(r).A, 1) = <<a[1]>> /\ NumberOf(kind, Stored(r).D, 1) = <<d[1]>>
      BY <1>1, <2>3 DEF NumberOf
    <3>3. NumberOf(kind, r.A, 1) = <<r.A[1]>> /\ NumberOf(kind, r.D, 1) = <<r.D[1]>>
      BY <1>1 DEF NumberOf
    <3>4. QED
      BY <2>2, <3>1, <3>2, <3>3
  <2>6. QED
    BY <2>3, <2>4, <2>5
<1>2. CASE kind # "single"
  <2>1. Stored(r) = [A |-> r.A, D |-> r.D]
    BY <1>2 DEF Stored
  <2>2. Stored(r) \in FlagSets /\ Stored(r).A = r.A /\ Stored(r).D = r.D
    BY <2>1 DEF FlagSets
  <2>3. QED
    BY <1>2, <2>2
<1>3. QED
  BY <1>1, <1>2

FlagsOf(op, p, f, q, g) == dg_trick_bitwise64(op, p.bits, f.A, f.D, q.bits, g.A, g.D)

\* Flags r of operand s tell enough, and not too much, if those of its operands do.
Flagged(r, s, f, p, g, q) ==
  /\ Telling(kind, f, p) /\ Telling(kind, g, q) /\ ~dg_trick_warn(r) =>
       Telling(kind, Stored(r), s)
  /\ Discreet(kind, f, p) /\ Discreet(kind, g, q) /\ ~Odd(s.deriv, {p, q})
       => ~dg_trick_warn(r) /\ Discreet(kind, Stored(r), s)

(* The flags of the result of an operation on words that are read as what they are. *)
LEMMA ResultFlags ==
  ASSUME kind \in AllKinds, NEW op \in Ops, NEW st, StateOK(st), NEW p, NEW q,
         Assigned(st, p), Assigned(st, q), NEW f \in FlagSets, NEW g \in FlagSets,
         Narrowed(kind, f, p), Narrowed(kind, g, q), ~Misread(op, p), ~Misread(op, q),
         NEW r, r = FlagsOf(op, p, f, q, g), NEW s, s = ResultOf(op, st, p, q)
  PROVE  Flagged(r, s, f, p, g, q)
<1>1. p \in Operands /\ q \in Operands /\ p.bits \in Number(2) /\ q.bits \in Number(2)
  BY DEF Assigned, Operands
<1>2. f.A \in Booleans(2) /\ f.D \in Booleans(2) /\ g.A \in Booleans(2) /\ g.D \in Booleans(2)
  BY DEF FlagSets
<1>3. /\ r.A \in Booleans(2) /\ r.D \in Booleans(2) /\ r.warn \in BOOLEAN
      /\ r.warn => \E h \in 1 .. 2 : (f.A[h] /\ f.D[h]) \/ (g.A[h] /\ g.D[h])
  <2> DEFINE x == p.bits
             y == q.bits
             xA == f.A
             xD == f.D
             yA == g.A
             yD == g.D
  <2>1. r = dg_trick_bitwise64(op, x, xA, xD, y, yA, yD)
    BY DEF FlagsOf
  <2> HIDE DEF x, y, xA, xD, yA, yD
  <2>2. /\ x \in Number(2) /\ y \in Number(2)
        /\ xA \in Booleans(2) /\ xD \in Booleans(2) /\ yA \in Booleans(2) /\ yD \in Booleans(2)
    BY <1>1, <1>2 DEF x, y, xA, xD, yA, yD
  <2>3. Typed(r, xA, xD, yA, yD)
    BY <2>1, <2>2, Trick64Types, Zenon
  <2>4. QED
    BY <2>3 DEF Typed, xA, xD, yA, yD
<1>4. \A e \in ElementsOf(kind) : /\ NumberOf(kind, Stored(r).A, e) = NumberOf(kind, r.A, e)
                                  /\ NumberOf(kind, Stored(r).D, e) = NumberOf(kind, r.D, e)
  BY <1>3, StoredFacts
<1>5. ~MisreadAs(kind, op, p) /\ ~MisreadAs(kind, op, q)
  BY MisreadOfKind
<1>6. ASSUME NEW e \in ElementsOf(kind)
      PROVE  WellFlagged(r, NumberOf(kind, Stored(r).A, e), NumberOf(kind, Stored(r).D, e), s.deriv[e],
                         NumberOf(kind, f.A, e), NumberOf(kind, f.D, e), p.deriv[e],
                         NumberOf(kind, g.A, e), NumberOf(kind, g.D, e), q.deriv[e])
  <2>1. e \in Elements
    BY OfKind
  <2>2. s.deriv[e] = Reference(op, NumberOf(kind, p.bits, e), p.deriv[e],
                                   NumberOf(kind, q.bits, e), q.deriv[e])
    BY <2>1, ResultFields, OfKind
  <2>3. WellFlagged(r, NumberOf(kind, r.A, e), NumberOf(kind, r.D, e),
                    Reference(op, NumberOf(kind, p.bits, e), p.deriv[e],
                                  NumberOf(kind, q.bits, e), q.deriv[e]),
                    NumberOf(kind, f.A, e), NumberOf(kind, f.D, e), p.deriv[e],
                    NumberOf(kind, g.A, e), NumberOf(kind, g.D, e), q.deriv[e])
    BY <1>1, <1>5, FlagsWord DEF FlagsOf
  <2>4. QED
    BY <1>4, <2>2, <2>3
<1>7. ASSUME Telling(kind, f, p), Telling(kind, g, q), ~dg_trick_warn(r)
      PROVE  Telling(kind, Stored(r), s)
  <2>1. ASSUME NEW e \in ElementsOf(kind), s.outside[e]
        PROVE  Silent(NumberOf(kind, Stored(r).A, e), NumberOf(kind, Stored(r).D, e), s.deriv[e])
    <3>1. p.outside[e] /\ q.outside[e] /\ dg_disable = 0
      BY <2>1, ResultFields, OfKind
    <3>2. ~r.warn
      BY <1>7, <3>1 DEF dg_trick_warn
    <3>3. QED
      BY <1>6, <1>7, <3>1, <3>2, Zenon DEF Telling, WellFlagged
  <2>2. QED
    BY <2>1, Zenon DEF Telling
<1>8. ASSUME Discreet(kind, f, p), Discreet(kind, g, q), ~Odd(s.deriv, {p, q})
      PROVE  ~dg_trick_warn(r) /\ Discreet(kind, Stored(r), s)
  <2>1. ~(f.A[1] /\ f.D[1]) /\ ~(f.A[2] /\ f.D[2]) /\ ~(g.A[1] /\ g.D[1]) /\ ~(g.A[2] /\ g.D[2])
    BY <1>8, DiscreetWord
  <2>2. ~r.warn
    BY <1>3, <2>1
  <2>3. ASSUME NEW e \in ElementsOf(kind)
        PROVE  s.deriv[e] # {} /\ (s.deriv[e] = {0} => p.deriv[e] = {0} /\ q.deriv[e] = {0})
    <3>1. e \in Elements
      BY OfKind
    <3>2. QED
      BY <1>8, <3>1 DEF Odd
  <2>4. Discreet(kind, Stored(r), s)
    BY <1>6, <1>8, <2>3, Zenon DEF Discreet, WellFlagged
  <2>5. QED
    BY <2>2, <2>4 DEF dg_trick_warn
<1>9. QED
  BY <1>7, <1>8, Zenon DEF Flagged

-----------------------------------------------------------------------------
(* The negation of a floating-point number.                                *)

LEMMA NegatedFacts ==
  ASSUME NEW w \in Number(2)
  PROVE  /\ Negated(w) \in Number(2)
         /\ \A e \in Elements : Part(Negated(w), e) = Negate(Part(w, e))
         /\ kind = "single" => Negated(w)[2] = w[2]
<1>1. CASE kind = "double"
  BY <1>1, NumberFacts DEF Negated, Part
<1>2. CASE kind # "double"
  <2>1. Negated(w) = [h \in 1 .. 2 |-> IF h \in Elements THEN Negate(<<w[h]>>)[1] ELSE w[h]]
    BY <1>2 DEF Negated
  <2>2. ASSUME NEW h \in 1 .. 2
        PROVE  /\ w[h] \in Halves /\ Negate(<<w[h]>>) \in Number(1)
               /\ Negate(<<w[h]>>)[1] \in Halves /\ <<Negate(<<w[h]>>)[1]>> = Negate(<<w[h]>>)
    <3> DEFINE g == <<w[h]>>
               k == Negate(g)
    <3>1. w[h] \in Halves
      BY DEF Number
    <3>2. g \in Number(1)
      BY <3>1, OneHalf
    <3> HIDE DEF g
    <3>3. k \in Number(1)
      BY <3>2, NumberFacts
    <3> HIDE DEF k
    <3>4. <<k[1]>> = k /\ k[1] \in Halves
      BY <3>3, OneFlag DEF Number
    <3>5. QED
      BY <3>1, <3>3, <3>4 DEF k, g
  <2>3. Negated(w) \in Number(2)
    BY <2>1, <2>2 DEF Number
  <2>4. ASSUME NEW e \in Elements PROVE Part(Negated(w), e) = Negate(Part(w, e))
    <3>1. e \in 1 .. 2
      BY OfKind
    <3>2. Negated(w)[e] = Negate(<<w[e]>>)[1]
      BY <2>1, <3>1
    <3>3. Part(Negated(w), e) = <<Negated(w)[e]>> /\ Part(w, e) = <<w[e]>>
      BY <1>2 DEF Part
    <3>4. <<Negate(<<w[e]>>)[1]>> = Negate(<<w[e]>>)
      BY <2>2, <3>1
    <3>5. QED
      BY <3>2, <3>3, <3>4
  <2>5. kind = "single" => Negated(w)[2] = w[2]
    BY <2>1 DEF Elements
  <2>6. QED
    BY <2>3, <2>4, <2>5
<1>3. QED
  BY <1>1, <1>2

(* The index that a statement with partial derivative -1 gets. *)
LEMMA NegFine ==
  ASSUME dg_disable = 0, NEW n \in 1 .. 2, NEW y \in Number(n), NEW in, NEW st, StateOK(st),
         NEW yi, NEW D, Fine(in, st, y, yi, D)
  PROVE  LET st2 == AddMinus(st, y, yi)
         IN  Fine(in, st2, Negate(y), st2.out[1], Minus(D))
<1> DEFINE m == SignOnly[n]
           op == "xor"
           st2 == Move(st, TRUE, y, yi)
<1>1. op \in Ops /\ m \in Masks(op, n) /\ TRUE \in BOOLEAN
  BY DEF Ops, Masks
<1>2. Turned(op, m, y) /\ ~TakesAbs(op, m) /\ Decides(TRUE, op, m, y)
  BY DEF Turned, TakesAbs, Decides
<1>3. Apply(op, m, y) = Negate(y)
  BY <1>1, <1>2, Masked
<1>4. UnderMask(op, m, y, D) = Minus(D)
  BY <1>1, <1>2, UnderFacts
<1>5. st2 = AddMinus(st, y, yi)
  BY DEF Move
<1> HIDE DEF m, op
<1>6. Fine(in, st2, Apply(op, m, y), st2.out[1], UnderMask(op, m, y, D))
  BY <1>1, <1>2, FineMove
<1> HIDE DEF st2
<1>7. Fine(in, st2, Negate(y), st2.out[1], Minus(D))
  BY <1>3, <1>4, <1>6
<1>8. QED
  BY <1>5, <1>7

\* What the statements for the numbers of a word lead to, and the state of the tape.
NegStates == [idx : [1 .. 2 -> Nat], tape : Seq(Nat), values : Seq(Recordable)]
StateOf(s) == [out |-> out, tape |-> s.tape, values |-> s.values]
NegOK(s) == s \in NegStates /\ StateOK(StateOf(s)) /\ s.idx \in [1 .. 2 -> IndicesOf(s.tape)]

LEMMA NegStep ==
  ASSUME NEW s, NegOK(s), NEW p \in Operands, NEW e \in 1 .. 2, p.idx[e] = s.idx[e],
         NEW y, y = Part(p.bits, e), e \in Elements
  PROVE  LET s2 == NegStatement(s, p, e)
             st2 == AddMinus(StateOf(s), y, p.idx[e])
         IN  /\ NegOK(s2) /\ Extends(StateOf(s), StateOf(s2))
             /\ s2.tape = st2.tape /\ s2.values = st2.values /\ s2.idx[e] = st2.out[1]
             /\ \A h \in 1 .. 2 : h # e => s2.idx[h] = s.idx[h]
<1> DEFINE st == StateOf(s)
           i == p.idx[e]
           s2 == NegStatement(s, p, e)
           st2 == AddMinus(st, y, i)
<1>1. y \in Recordable
  BY PartFacts DEF Operands
<1>2. /\ StateOK(st) /\ st.tape = s.tape /\ st.values = s.values /\ st.out = out
      /\ i \in IndicesOf(st.tape)
  BY DEF NegOK, StateOf
<1>3. s \in NegStates /\ s.idx \in [1 .. 2 -> IndicesOf(s.tape)]
  BY DEF NegOK
<1>4. CASE i = 0
  <2>1. s2 = s
    BY <1>4 DEF NegStatement
  <2>2. st2 = KeepIndex(st, 0)
    BY <1>4 DEF AddMinus
  <2> HIDE DEF st, s2, i
  <2>3. st2.tape = st.tape /\ st2.values = st.values /\ st2.out[1] = 0
    BY <1>2, <1>4, <2>2, KeepFacts
  <2>4. Extends(st, st)
    BY DEF Extends
  <2> HIDE DEF st2
  <2>5. QED
    BY <1>2, <1>4, <2>1, <2>3, <2>4 DEF st, s2, i, st2
<1>d. CASE i # 0 /\ dg_disable # 0
  <2> DEFINE d == [s.idx EXCEPT ![e] = 0]
  <2>1. s2 = [s EXCEPT !.idx[e] = 0]
    BY <1>d DEF NegStatement
  <2>2. s2 = [s EXCEPT !.idx = d]
    BY <1>3, <2>1 DEF NegStates
  <2>3. st2 = KeepIndex(st, 0)
    BY <1>d DEF AddMinus
  <2>4. 0 \in IndicesOf(s.tape) /\ IndicesOf(s.tape) \subseteq Nat
    BY <1>2 DEF StateOK, States, IndicesOf, NumInputs
  <2> HIDE DEF st, s2, i
  <2>5. st2.tape = st.tape /\ st2.values = st.values /\ st2.out[1] = 0
    BY <1>2, <2>3, <2>4, KeepFacts
  <2>6. d \in [1 .. 2 -> IndicesOf(s.tape)] /\ d[e] = 0 /\ \A h \in 1 .. 2 : h # e => d[h] = s.idx[h]
    BY <1>3, <2>4
  <2> HIDE DEF d, st2
  <2>7. d \in [1 .. 2 -> Nat]
    BY <2>4, <2>6
  <2>8. s2 \in NegStates /\ s2.idx = d /\ s2.tape = s.tape /\ s2.values = s.values
    BY <1>3, <2>2, <2>7 DEF NegStates
  <2>9. StateOf(s2) = st
    BY <2>8 DEF StateOf, st
  <2>10. NegOK(s2)
    BY <1>2, <2>6, <2>8, <2>9 DEF NegOK
  <2>11. Extends(st, StateOf(s2))
    BY <2>9 DEF Extends
  <2>12. QED
    BY <1>2, <2>5, <2>6, <2>8, <2>10, <2>11 DEF st, s2, i, st2
<1>5. CASE i # 0 /\ dg_disable = 0
  <2> DEFINE k == NumInputs + Len(s.tape) + 1
             u == Append(s.tape, i)
             v == Append(s.values, Negate(y))
             d == [s.idx EXCEPT ![e] = k]
  <2>1. s2 = [idx |-> d, tape |-> u, values |-> v]
    BY <1>5 DEF NegStatement
  <2>2. st2 = [out |-> [out EXCEPT ![1] = k], tape |-> u, values |-> v]
    BY <1>2, <1>5 DEF AddMinus
  <2>3. StateOK(st2) /\ Extends(st, st2) /\ st2.out[1] = k /\ k \in IndicesOf(st2.tape)
    <3> HIDE DEF st, i
    <3>1. StateOK(st2) /\ Extends(st, st2) /\ st2.out[1] = NumInputs + Len(st.tape) + 1
          /\ st2.out[1] \in IndicesOf(st2.tape)
      BY <1>1, <1>2, <1>5, AddFacts
    <3>2. QED
      BY <1>2, <3>1
  <2>4. /\ s2.tape = st2.tape /\ s2.values = st2.values /\ s2.idx = d
        /\ s2 = [idx |-> s2.idx, tape |-> s2.tape, values |-> s2.values]
    BY <2>1, <2>2
  <2>5. /\ IndicesOf(s.tape) \subseteq IndicesOf(st2.tape) /\ IndicesOf(st2.tape) \subseteq Nat
        /\ st2.tape \in Seq(Nat) /\ st2.values \in Seq(Recordable)
    <3> HIDE DEF st2
    <3>1. Len(st2.tape) \in Nat
      BY <2>3 DEF StateOK, States
    <3>2. QED
      BY <1>2, <2>3, <3>1, SMTT(40) DEF Extends, IndicesOf, NumInputs, StateOK, States
  <2> HIDE DEF st2, s2, k
  <2>6. d \in [1 .. 2 -> IndicesOf(st2.tape)] /\ d[e] = k /\ \A h \in 1 .. 2 : h # e => d[h] = s.idx[h]
    BY <1>3, <2>3, <2>5
  <2>7. out \in [1 .. 2 -> IndicesOf(s.tape)] /\ out \in [1 .. 2 -> Nat]
    BY <1>2 DEF StateOK, States
  <2>8. /\ StateOf(s2).out = out /\ StateOf(s2).tape = st2.tape /\ StateOf(s2).values = st2.values
        /\ StateOf(s2) = [out |-> out, tape |-> st2.tape, values |-> st2.values]
    BY <2>4 DEF StateOf
  <2>9. StateOf(s2) \in States
    BY <2>5, <2>7, <2>8 DEF States
  <2>10. out \in [1 .. 2 -> IndicesOf(st2.tape)]
    BY <2>5, <2>7
  <2>11. StateOK(StateOf(s2))
    BY <2>3, <2>8, <2>9, <2>10 DEF StateOK
  <2> HIDE DEF d
  <2>12. s2.idx \in [1 .. 2 -> Nat]
    BY <2>4, <2>5, <2>6
  <2>13. s2 \in NegStates
    BY <2>4, <2>5, <2>12 DEF NegStates
  <2>14. NegOK(s2)
    BY <2>4, <2>6, <2>11, <2>13 DEF NegOK
  <2>15. Extends(st, StateOf(s2))
    BY <2>3, <2>8 DEF Extends
  <2>16. QED
    BY <2>3, <2>4, <2>6, <2>14, <2>15 DEF s2, st2
<1>6. QED
  BY <1>4, <1>5, <1>d

\* The e-th number of p is negated between states s and s2, outside of a bracket.
NegatedIn(in, s, s2, p, e) ==
  dg_disable = 0 /\ Fine(in, StateOf(s), Part(p.bits, e), p.idx[e], p.deriv[e]) =>
    Fine(in, StateOf(s2), Negate(Part(p.bits, e)), s2.idx[e], Minus(p.deriv[e]))

LEMMA NegElement ==
  ASSUME NEW in, NEW s, NegOK(s), NEW p \in Operands, NEW e \in Elements, p.idx[e] = s.idx[e],
         NEW s2, s2 = NegStatement(s, p, e)
  PROVE  /\ NegOK(s2) /\ Extends(StateOf(s), StateOf(s2))
         /\ \A h \in 1 .. 2 : h # e => s2.idx[h] = s.idx[h]
         /\ NegatedIn(in, s, s2, p, e)
<1> DEFINE y == Part(p.bits, e)
           st == StateOf(s)
           st2 == AddMinus(st, y, p.idx[e])
           D == p.deriv[e]
<1>1. e \in 1 .. 2
  BY OfKind
<1>2. /\ NegOK(s2) /\ Extends(st, StateOf(s2))
      /\ s2.tape = st2.tape /\ s2.values = st2.values /\ s2.idx[e] = st2.out[1]
      /\ \A h \in 1 .. 2 : h # e => s2.idx[h] = s.idx[h]
  BY <1>1, NegStep
<1>3. y \in Number(WidthOf(kind)) /\ WidthOf(kind) \in 1 .. 2 /\ StateOK(st)
  BY PartFacts DEF Operands, NegOK
<1> HIDE DEF y, st, D
<1>4. ASSUME dg_disable = 0, Fine(in, st, y, p.idx[e], D)
      PROVE  Fine(in, StateOf(s2), Negate(y), s2.idx[e], Minus(D))
  <2>1. Fine(in, st2, Negate(y), st2.out[1], Minus(D))
    BY <1>3, <1>4, NegFine
  <2>2. StateOf(s2).tape = st2.tape /\ StateOf(s2).values = st2.values
    BY <1>2 DEF StateOf
  <2> HIDE DEF st2
  <2>3. QED
    BY <1>2, <2>1, <2>2 DEF Fine
<1>5. QED
  BY <1>2, <1>4 DEF NegatedIn, y, st, D

Now == [out |-> out, tape |-> tape, values |-> values]

(* Iop_Neg puts the statements for all numbers of a word on the tape. *)
LEMMA NegWord ==
  ASSUME NEW in, NEW p, StateOK(Now), Assigned(Now, p), NEW s, s = NegStatements(p)
  PROVE  /\ NegOK(s) /\ Extends(Now, StateOf(s))
         /\ \A e \in Elements :
              dg_disable = 0 /\ Fine(in, Now, Part(p.bits, e), p.idx[e], p.deriv[e]) =>
                Fine(in, StateOf(s), Negate(Part(p.bits, e)), s.idx[e], Minus(p.deriv[e]))
<1> DEFINE s0 == [idx |-> p.idx, tape |-> tape, values |-> values]
           s1 == NegStatement(s0, p, 1)
           s2 == NegStatement(s1, p, 2)
<1>1. s = s2
  BY DEF NegStatements
<1>2. p \in Operands /\ p.idx \in [1 .. 2 -> Nat] /\ p.idx \in [1 .. 2 -> IndicesOf(tape)]
  BY DEF Assigned, Operands, Now
<1>3. StateOf(s0) = Now /\ s0.idx = p.idx /\ s0.tape = tape
  BY DEF StateOf, Now
<1>4. tape \in Seq(Nat) /\ values \in Seq(Recordable)
  BY DEF StateOK, States, Now
<1>5. NegOK(s0)
  BY <1>2, <1>3, <1>4 DEF NegOK, NegStates
<1>6. 1 \in Elements
  BY OfKind
<1> HIDE DEF s0, s1, s2
<1>7. /\ NegOK(s1) /\ Extends(StateOf(s0), StateOf(s1))
      /\ s1.idx[2] = s0.idx[2] /\ NegatedIn(in, s0, s1, p, 1)
  <2>1. /\ NegOK(s1) /\ Extends(StateOf(s0), StateOf(s1))
        /\ \A h \in 1 .. 2 : h # 1 => s1.idx[h] = s0.idx[h]
        /\ NegatedIn(in, s0, s1, p, 1)
    BY <1>2, <1>3, <1>5, <1>6, NegElement DEF s1
  <2>2. QED
    BY <2>1
<1>8. CASE kind = "pair"
  <2>1. Elements = {1, 2}
    BY <1>8, OfKind
  <2>2. /\ NegOK(s2) /\ Extends(StateOf(s1), StateOf(s2))
        /\ s2.idx[1] = s1.idx[1] /\ NegatedIn(in, s1, s2, p, 2)
    <3>1. p.idx[2] = s1.idx[2]
      BY <1>3, <1>7
    <3>2. /\ NegOK(s2) /\ Extends(StateOf(s1), StateOf(s2))
          /\ \A h \in 1 .. 2 : h # 2 => s2.idx[h] = s1.idx[h]
          /\ NegatedIn(in, s1, s2, p, 2)
      BY <1>2, <1>7, <2>1, <3>1, NegElement DEF s2
    <3>3. QED
      BY <3>2
  <2>3. Extends(Now, StateOf(s2))
    <3> DEFINE t0 == StateOf(s0)
               t1 == StateOf(s1)
               t2 == StateOf(s2)
    <3>1. Extends(t0, t1) /\ Extends(t1, t2)
      BY <1>7, <2>2
    <3> HIDE DEF t0, t1, t2
    <3>2. Extends(t0, t2)
      BY <3>1, ExtendsTrans
    <3>3. QED
      BY <1>3, <3>2 DEF t0, t2
  <2>4. ASSUME dg_disable = 0, Fine(in, Now, Part(p.bits, 1), p.idx[1], p.deriv[1])
        PROVE  Fine(in, StateOf(s2), Negate(Part(p.bits, 1)), s2.idx[1], Minus(p.deriv[1]))
    <3>1. Fine(in, StateOf(s1), Negate(Part(p.bits, 1)), s2.idx[1], Minus(p.deriv[1]))
      BY <1>3, <1>7, <2>2, <2>4 DEF NegatedIn
    <3>2. QED
      BY <2>2, <3>1, FineExtends
  <2>5. ASSUME dg_disable = 0, Fine(in, Now, Part(p.bits, 2), p.idx[2], p.deriv[2])
        PROVE  Fine(in, StateOf(s2), Negate(Part(p.bits, 2)), s2.idx[2], Minus(p.deriv[2]))
    <3>1. Fine(in, StateOf(s1), Part(p.bits, 2), p.idx[2], p.deriv[2])
      BY <1>3, <1>7, <2>5, FineExtends
    <3>2. QED
      BY <2>2, <2>5, <3>1 DEF NegatedIn
  <2>6. QED
    BY <1>1, <2>1, <2>2, <2>3, <2>4, <2>5
<1>9. CASE kind # "pair"
  <2>1. Elements = {1} /\ 2 \notin Elements
    BY <1>9, OfKind
  <2>2. s2 = s1
    BY <2>1 DEF NegStatement, s2
  <2>3. QED
    BY <1>1, <1>3, <1>7, <2>1, <2>2 DEF NegatedIn
<1>10. QED
  BY <1>8, <1>9

\* The operand that results from a negation.
NegOperand(p) == Operand(Negated(p.bits), Negated(p.dot), NegStatements(p).idx,
                         [e \in 1 .. 2 |-> Minus(p.deriv[e])], p.forward, StillOutside(p))
NegNow(p) == StateOf(NegStatements(p))

LEMMA NegTypes ==
  ASSUME NEW p, StateOK(Now), Assigned(Now, p)
  PROVE  StateOK(NegNow(p)) /\ Extends(Now, NegNow(p)) /\ Assigned(NegNow(p), NegOperand(p))
<1> DEFINE s == NegStatements(p)
           r == NegOperand(p)
<1>1. NegOK(s) /\ Extends(Now, StateOf(s))
  BY NegWord
<1>2. /\ p.bits \in Number(2) /\ p.dot \in Number(2) /\ p.deriv \in [1 .. 2 -> SUBSET Int]
      /\ p.forward \in [1 .. 2 -> BOOLEAN]
  BY DEF Assigned, Operands
<1>3. Negated(p.bits) \in Number(2) /\ Negated(p.dot) \in Number(2)
  BY <1>2, NegatedFacts
<1> HIDE DEF s
<1>4. s.idx \in [1 .. 2 -> Nat] /\ s.idx \in [1 .. 2 -> IndicesOf(StateOf(s).tape)]
  BY <1>1 DEF NegOK, NegStates, StateOf
<1>5. [e \in 1 .. 2 |-> Minus(p.deriv[e])] \in [1 .. 2 -> SUBSET Int]
  <2>1. ASSUME NEW e \in 1 .. 2 PROVE Minus(p.deriv[e]) \in SUBSET Int
    <3>1. p.deriv[e] \in SUBSET Int
      BY <1>2
    <3>2. QED
      BY <3>1 DEF Minus
  <2>2. QED
    BY <2>1
<1>6. /\ r = [bits |-> r.bits, dot |-> r.dot, idx |-> r.idx, deriv |-> r.deriv,
              forward |-> r.forward, outside |-> r.outside]
      /\ r.bits = Negated(p.bits) /\ r.dot = Negated(p.dot) /\ r.idx = s.idx
      /\ r.deriv = [e \in 1 .. 2 |-> Minus(p.deriv[e])] /\ r.forward = p.forward
      /\ r.outside = StillOutside(p)
  BY DEF NegOperand, Operand, s
<1>o. StillOutside(p) \in [1 .. 2 -> BOOLEAN]
  BY DEF StillOutside
<1> HIDE DEF r
<1>7. r \in Operands
  BY <1>2, <1>3, <1>4, <1>5, <1>6, <1>o DEF Operands
<1>8. QED
  BY <1>1, <1>4, <1>6, <1>7 DEF Assigned, NegNow, NegOK, s, r

(* The negation has the right index and dot value. *)
LEMMA NegSound ==
  ASSUME kind \in AllKinds, NEW in, NEW p, StateOK(Now), p \in Operands,
         Recorded(kind, in, Now, p), Forwarded(kind, p)
  PROVE  Recorded(kind, in, NegNow(p), NegOperand(p)) /\ Forwarded(kind, NegOperand(p))
<1> DEFINE s == NegStatements(p)
           r == NegOperand(p)
<1>1. Assigned(Now, p)
  BY DEF Assigned, Recorded
<1>2. Assigned(NegNow(p), r)
  BY <1>1, NegTypes
<1>3. /\ r.bits = Negated(p.bits) /\ r.dot = Negated(p.dot) /\ r.idx = s.idx
      /\ r.deriv = [e \in 1 .. 2 |-> Minus(p.deriv[e])] /\ r.forward = p.forward
      /\ r.outside = StillOutside(p)
  BY DEF NegOperand, Operand
<1>4. p.bits \in Number(2) /\ p.dot \in Number(2)
  BY DEF Operands
<1>5. /\ Negated(p.bits) \in Number(2) /\ Negated(p.dot) \in Number(2)
      /\ \A e \in Elements : /\ Part(Negated(p.bits), e) = Negate(Part(p.bits, e))
                             /\ Part(Negated(p.dot), e) = Negate(Part(p.dot, e))
      /\ kind = "single" => Negated(p.bits)[2] = p.bits[2] /\ Negated(p.dot)[2] = p.dot[2]
  BY <1>4, NegatedFacts
<1>6. ASSUME NEW e \in ElementsOf(kind)
      PROVE  /\ Ranged(NumberOf(kind, r.bits, e), r.deriv[e])
             /\ r.outside[e] => Fine(in, NegNow(p), NumberOf(kind, r.bits, e), r.idx[e], r.deriv[e])
             /\ r.forward[e] => Flows(kind, NumberOf(kind, r.dot, e), r.deriv[e])
  <2>1. e \in Elements /\ e \in 1 .. 2
    BY OfKind
  <2> DEFINE D == p.deriv[e]
             d == Part(p.dot, e)
  <2>2. /\ Ranged(Part(p.bits, e), D)
        /\ p.outside[e] => Fine(in, Now, Part(p.bits, e), p.idx[e], D)
    BY OfKind DEF Recorded
  <2>3. p.outside[e] /\ dg_disable = 0 =>
          Fine(in, StateOf(s), Negate(Part(p.bits, e)), s.idx[e], Minus(D))
    BY <1>1, <2>1, <2>2, NegWord
  <2>4. /\ r.deriv[e] = Minus(D) /\ D \subseteq -2 .. 2
        /\ r.outside[e] <=> p.outside[e] /\ dg_disable = 0
    BY <1>3, <2>1, <2>2 DEF Ranged, StillOutside
  <2>r. Ranged(Negate(Part(p.bits, e)), Minus(D))
    <3> DEFINE y == Part(p.bits, e)
    <3>1. y \in Number(WidthOf(kind)) /\ WidthOf(kind) \in 1 .. 2
      BY <1>4, <2>1, PartFacts
    <3> HIDE DEF y
    <3>2. IsNaN(Negate(y)) <=> IsNaN(y)
      BY <3>1, NegateFacts
    <3>3. /\ D \subseteq -2 .. 2 => Minus(D) \subseteq -2 .. 2
          /\ D = {} => Minus(D) = {}
          /\ D = {0} => Minus(D) = {0}
      BY DEF Minus
    <3> HIDE DEF D
    <3>4. Ranged(y, D)
      BY <2>2 DEF y
    <3>5. Ranged(Negate(y), Minus(D))
      BY <3>2, <3>3, <3>4 DEF Ranged
    <3>6. QED
      BY <3>5 DEF y
  <2>5. NumberOf(kind, r.bits, e) = Negate(Part(p.bits, e)) /\ NumberOf(kind, r.dot, e) = Negate(d)
    BY <1>3, <1>5, <2>1, OfKind
  <2>6. /\ Ranged(NumberOf(kind, r.bits, e), r.deriv[e])
        /\ r.outside[e] => Fine(in, NegNow(p), NumberOf(kind, r.bits, e), r.idx[e], r.deriv[e])
    BY <1>3, <2>3, <2>4, <2>5, <2>r DEF NegNow
  <2>7. ASSUME r.forward[e] PROVE Flows(kind, NumberOf(kind, r.dot, e), r.deriv[e])
    <3>1. Flows(kind, d, D)
      BY <1>3, <2>7, OfKind DEF Forwarded
    <3>2. d \in Number(WidthOf(kind))
      BY <1>4, <2>1, PartFacts
    <3> HIDE DEF r, D, d
    <3>3. ASSUME Minus(D) # {} PROVE \E v \in Minus(D) : Matches(kind, v, Negate(d))
      <4>1. D # {}
        BY <3>3 DEF Minus
      <4>2. PICK v \in D : Matches(kind, v, d)
        BY <3>1, <4>1 DEF Flows
      <4>3. v \in -2 .. 2
        BY <2>4, <4>2
      <4>4. Matches(kind, -v, Negate(d))
        BY <3>2, <4>2, <4>3, MatchesFacts
      <4>5. -v \in Minus(D)
        BY <4>2 DEF Minus
      <4>6. QED
        BY <4>4, <4>5
    <3>4. QED
      BY <2>4, <2>5, <3>3 DEF Flows
  <2>8. QED
    BY <2>6, <2>7
<1>7. kind = "single" => r.bits[2] = {} /\ r.dot[2] = {}
  BY <1>3, <1>5 DEF Recorded
<1> HIDE DEF r
<1>8. QED
  BY <1>2, <1>6, <1>7 DEF Recorded, Forwarded, Assigned, r

(* The flags of a number of a word, and those of the word. *)
LEMMA NumberFlags ==
  ASSUME NEW A \in Booleans(2), NEW D \in Booleans(2), NEW e \in ElementsOf(kind)
  PROVE  LET a == NumberOf(kind, A, e)
             d == NumberOf(kind, D, e)
         IN  /\ ActiveDiscrete(a, d) => ActiveDiscrete(A, D)
             /\ (\A i \in DOMAIN a : a[i]) => Some(A)
             /\ (\A i \in 1 .. 2 : ~A[i]) => \A i \in DOMAIN a : ~a[i]
             /\ (\A i \in 1 .. 2 : ~D[i]) => ~ActiveDiscrete(a, d)
             /\ (\A i \in 1 .. 2 : A[i]) => \A i \in DOMAIN a : a[i]
             /\ (\A i \in 1 .. 2 : A[i] /\ D[i]) => ActiveDiscrete(a, d)
<1>1. DOMAIN A = 1 .. 2 /\ e \in 1 .. 2
  BY DEF Booleans, ElementsOf
<1>2. CASE kind = "double"
  <2>1. NumberOf(kind, A, e) = A /\ NumberOf(kind, D, e) = D
    BY <1>2 DEF NumberOf
  <2>2. 1 \in DOMAIN A
    BY <1>1
  <2>3. QED
    BY <1>1, <2>1, <2>2 DEF Some, ActiveDiscrete
<1>3. CASE kind # "double"
  <2> DEFINE a == NumberOf(kind, A, e)
             d == NumberOf(kind, D, e)
  <2>1. a = <<A[e]>> /\ d = <<D[e]>>
    BY <1>3 DEF NumberOf
  <2>2. DOMAIN a = {1} /\ a[1] = A[e] /\ d[1] = D[e]
    BY <2>1
  <2> HIDE DEF a, d
  <2>3. /\ ActiveDiscrete(a, d) <=> A[e] /\ D[e]
        /\ (\A i \in DOMAIN a : a[i]) <=> A[e]
        /\ (\A i \in DOMAIN a : ~a[i]) <=> ~A[e]
    BY <2>2 DEF ActiveDiscrete
  <2>4. /\ A[e] /\ D[e] => ActiveDiscrete(A, D)
        /\ A[e] => Some(A)
    BY <1>1 DEF Some, ActiveDiscrete
  <2>5. QED
    BY <1>1, <2>3, <2>4 DEF a, d
<1>4. QED
  BY <1>2, <1>3

(* The flags of a negation. *)
LEMMA NegFlags ==
  ASSUME kind \in AllKinds, NEW f \in FlagSets, NEW p \in Operands, Narrowed(kind, f, p),
         NEW r, r = createTrickCode(f), NEW s, s.deriv = [e \in 1 .. 2 |-> Minus(p.deriv[e])],
         s.outside = StillOutside(p)
  PROVE  /\ r.A \in Booleans(2) /\ r.D \in Booleans(2) /\ r.warn \in BOOLEAN
         /\ Telling(kind, f, p) /\ ~dg_trick_warn(r) => Telling(kind, Stored(r), s)
         /\ Discreet(kind, f, p) => ~dg_trick_warn(r) /\ Discreet(kind, Stored(r), s)
<1>1. f.A \in Booleans(2) /\ f.D \in Booleans(2) /\ DOMAIN f.A = 1 .. 2
  BY DEF FlagSets, Booleans
<1>2. r.A = OfNumbers(f.A) /\ r.D = Never(f.A) /\ r.warn = ActiveDiscrete(f.A, f.D)
  BY DEF createTrickCode, Result
<1>3. r.D \in Booleans(2) /\ \A i \in 1 .. 2 : ~r.D[i]
  BY <1>1, <1>2 DEF Never, Booleans
<1>4. r.warn \in BOOLEAN
  BY <1>2 DEF ActiveDiscrete
<1>5. r.A \in Booleans(2)
  <2>1. Some(f.A) \in BOOLEAN
    BY DEF Some
  <2>2. QED
    BY <1>1, <1>2, <2>1 DEF OfNumbers, Booleans
<1>6. \A e \in ElementsOf(kind) : /\ NumberOf(kind, Stored(r).A, e) = NumberOf(kind, r.A, e)
                                  /\ NumberOf(kind, Stored(r).D, e) = NumberOf(kind, r.D, e)
  BY <1>3, <1>5, StoredFacts
<1>7. ASSUME NEW e \in ElementsOf(kind)
      PROVE  /\ s.deriv[e] = {} <=> p.deriv[e] = {}
             /\ s.deriv[e] = {0} <=> p.deriv[e] = {0}
  <2> DEFINE D == p.deriv[e]
  <2>1. e \in 1 .. 2
    BY DEF ElementsOf
  <2>2. D \subseteq Int /\ s.deriv[e] = Minus(D)
    BY <2>1 DEF Operands
  <2> HIDE DEF D
  <2>3. Minus(D) = {} <=> D = {}
    BY DEF Minus
  <2>4. D = {0} => Minus(D) = {0}
    BY DEF Minus
  <2>5. ASSUME Minus(D) = {0} PROVE D = {0}
    <3>1. ASSUME NEW v \in D PROVE v = 0
      <4>1. -v \in Minus(D)
        BY DEF Minus
      <4>2. -v = 0 /\ v \in Int
        BY <2>2, <2>5, <4>1
      <4>3. QED
        BY <4>2
    <3>2. D # {}
      BY <2>3, <2>5
    <3>3. QED
      BY <3>1, <3>2
  <2>6. QED
    BY <2>2, <2>3, <2>4, <2>5 DEF D
<1>8. ASSUME NEW e \in ElementsOf(kind)
      PROVE  /\ ~ActiveDiscrete(NumberOf(kind, r.A, e), NumberOf(kind, r.D, e))
             /\ (\A i \in DOMAIN NumberOf(kind, f.A, e) : NumberOf(kind, f.A, e)[i])
                  => \A i \in DOMAIN NumberOf(kind, r.A, e) : NumberOf(kind, r.A, e)[i]
             /\ (\A i \in DOMAIN NumberOf(kind, f.A, e) : ~NumberOf(kind, f.A, e)[i])
                  => \A i \in DOMAIN NumberOf(kind, r.A, e) : ~NumberOf(kind, r.A, e)[i]
  <2>1. ~ActiveDiscrete(NumberOf(kind, r.A, e), NumberOf(kind, r.D, e))
    BY <1>3, <1>5, NumberFlags
  <2>2. CASE kind = "double"
    <3>1. NumberOf(kind, r.A, e) = r.A /\ NumberOf(kind, f.A, e) = f.A
      BY <2>2 DEF NumberOf
    <3>2. r.A = [h \in 1 .. 2 |-> Some(f.A)]
      BY <1>2, <2>2 DEF OfNumbers
    <3>3. /\ (\A i \in DOMAIN f.A : f.A[i]) => Some(f.A)
          /\ (\A i \in DOMAIN f.A : ~f.A[i]) => ~Some(f.A)
      <4>1. 1 \in DOMAIN f.A
        BY <1>1
      <4>2. QED
        BY <4>1 DEF Some
    <3>4. QED
      BY <2>1, <3>1, <3>2, <3>3
  <2>3. CASE kind # "double"
    <3>1. r.A = f.A
      BY <1>2, <2>3 DEF OfNumbers
    <3>2. QED
      BY <2>1, <3>1
  <2>4. QED
    BY <2>2, <2>3
<1>9. ASSUME Telling(kind, f, p), ~dg_trick_warn(r) PROVE Telling(kind, Stored(r), s)
  <2>1. ASSUME NEW e \in ElementsOf(kind), s.outside[e]
        PROVE  Silent(NumberOf(kind, Stored(r).A, e), NumberOf(kind, Stored(r).D, e), s.deriv[e])
    <3>0. p.outside[e] /\ ~r.warn
      <4>1. e \in 1 .. 2
        BY DEF ElementsOf
      <4>2. p.outside[e] /\ dg_disable = 0
        BY <2>1, <4>1, Zenon DEF StillOutside
      <4>3. QED
        BY <1>9, <4>2, Zenon DEF dg_trick_warn
    <3>1. Silent(NumberOf(kind, f.A, e), NumberOf(kind, f.D, e), p.deriv[e])
      BY <1>9, <3>0 DEF Telling
    <3>2. ~ActiveDiscrete(NumberOf(kind, f.A, e), NumberOf(kind, f.D, e))
      BY <1>1, <1>2, <3>0, NumberFlags
    <3>3. p.deriv[e] # {}
      BY <3>1, <3>2 DEF Silent
    <3>4. Silent(NumberOf(kind, r.A, e), NumberOf(kind, r.D, e), s.deriv[e])
      BY <1>7, <1>8, <3>1, <3>3, Zenon DEF Silent
    <3>5. QED
      BY <1>6, <3>4, Zenon
  <2>2. QED
    BY <2>1 DEF Telling
<1>10. ASSUME Discreet(kind, f, p) PROVE ~dg_trick_warn(r) /\ Discreet(kind, Stored(r), s)
  <2>1. ~dg_trick_warn(r)
    BY <1>2, <1>10, DiscreetWord DEF dg_trick_warn
  <2>2. ASSUME NEW e \in ElementsOf(kind)
        PROVE  Modest(NumberOf(kind, Stored(r).A, e), NumberOf(kind, Stored(r).D, e), s.deriv[e])
    <3>1. Modest(NumberOf(kind, f.A, e), NumberOf(kind, f.D, e), p.deriv[e])
      BY <1>10 DEF Discreet
    <3>2. Modest(NumberOf(kind, r.A, e), NumberOf(kind, r.D, e), s.deriv[e])
      BY <1>7, <1>8, <3>1, Zenon DEF Modest
    <3>3. QED
      BY <1>6, <3>2, Zenon
  <2>3. QED
    BY <2>1, <2>2 DEF Discreet
<1>11. QED
  BY <1>3, <1>4, <1>5, <1>9, <1>10

-----------------------------------------------------------------------------
(* Operands without index and dot value.                                   *)

\* Operand with bits w that depends on no input as far as the handlers know.
Passive(w, deriv, forward, outside) ==
  Operand(w, <<{}, {}>>, <<0, 0>>, deriv, forward, outside)

LEMMA PassiveTypes ==
  ASSUME NEW st, StateOK(st), NEW w \in Number(2), NEW deriv \in [1 .. 2 -> SUBSET Int],
         NEW forward \in [1 .. 2 -> BOOLEAN], NEW outside \in [1 .. 2 -> BOOLEAN]
  PROVE  Assigned(st, Passive(w, deriv, forward, outside))
<1> DEFINE r == Passive(w, deriv, forward, outside)
<1>1. {} \in Halves /\ 0 \in Nat /\ 0 \in IndicesOf(st.tape)
  BY DEF Halves, StateOK, States, IndicesOf, NumInputs
<1>2. <<{}, {}>> \in [1 .. 2 -> Halves]
  BY <1>1, PairOf
<1>3. <<0, 0>> \in [1 .. 2 -> Nat] /\ <<0, 0>> \in [1 .. 2 -> IndicesOf(st.tape)]
  BY <1>1, PairOf
<1>4. /\ r = [bits |-> r.bits, dot |-> r.dot, idx |-> r.idx, deriv |-> r.deriv,
              forward |-> r.forward, outside |-> r.outside]
      /\ r.outside = outside
      /\ r.bits = w /\ r.dot = <<{}, {}>> /\ r.idx = <<0, 0>> /\ r.deriv = deriv /\ r.forward = forward
  BY DEF Passive, Operand
<1> HIDE DEF r
<1>5. r \in Operands
  BY <1>2, <1>3, <1>4 DEF Operands, Number
<1>6. QED
  BY <1>3, <1>4, <1>5 DEF Assigned, r

LEMMA PassiveSound ==
  ASSUME kind \in AllKinds, NEW in, NEW st, StateOK(st), NEW w \in Number(2),
         NEW deriv \in [1 .. 2 -> SUBSET Int], NEW forward \in [1 .. 2 -> BOOLEAN],
         NEW outside \in [1 .. 2 -> BOOLEAN],
         \A e \in Elements : deriv[e] \in {{}, {0}}, kind = "single" => w[2] = {}
  PROVE  /\ Recorded(kind, in, st, Passive(w, deriv, forward, outside))
         /\ Forwarded(kind, Passive(w, deriv, forward, outside))
<1> DEFINE r == Passive(w, deriv, forward, outside)
           z == <<{}, {}>>
<1>1. Assigned(st, r)
  BY PassiveTypes
<1>2. r.bits = w /\ r.dot = z /\ r.idx = <<0, 0>> /\ r.deriv = deriv /\ r.forward = forward
  BY DEF Passive, Operand
<1>3. ASSUME NEW e \in ElementsOf(kind)
      PROVE  /\ Fine(in, st, NumberOf(kind, r.bits, e), r.idx[e], r.deriv[e])
             /\ Flows(kind, NumberOf(kind, r.dot, e), r.deriv[e])
  <2>1. e \in Elements /\ e \in 1 .. 2
    BY OfKind
  <2>2. r.idx[e] = 0 /\ r.deriv[e] \in {{}, {0}}
    BY <1>2, <2>1
  <2>3. 0 \in IndicesOf(st.tape)
    BY DEF StateOK, States, IndicesOf, NumInputs
  <2>4. NumberOf(kind, z, e) = Zeros[WidthOf(kind)]
    <3>1. CASE kind = "double"
      <4>1. Zeros[2] \in Number(2) /\ Zeros[2][1] = {} /\ Zeros[2][2] = {}
        BY PatternFacts
      <4>2. z = Zeros[2]
        BY <4>1 DEF Number
      <4>3. QED
        BY <3>1, <4>2 DEF NumberOf, WidthOf
    <3>2. CASE kind # "double"
      <4>1. Zeros[1] \in Number(1) /\ Zeros[1][1] = {}
        BY PatternFacts
      <4>2. <<{}>> = Zeros[1]
        BY <4>1 DEF Number
      <4>3. z[e] = {}
        BY <2>1
      <4>4. QED
        BY <3>2, <4>2, <4>3 DEF NumberOf, WidthOf
    <3>3. QED
      BY <3>1, <3>2
  <2> HIDE DEF r, z
  <2>5. Fine(in, st, NumberOf(kind, r.bits, e), r.idx[e], r.deriv[e])
    <3> DEFINE n == NumberOf(kind, r.bits, e)
               i == r.idx[e]
    <3> HIDE DEF n, i
    <3>1. i = 0 /\ i \in IndicesOf(st.tape)
      BY <2>2, <2>3 DEF i
    <3>2. Fine(in, st, n, i, {0}) /\ Fine(in, st, n, i, {})
      BY <3>1, FineConstant
    <3>3. Fine(in, st, n, i, r.deriv[e])
      BY <2>2, <3>2
    <3>4. QED
      BY <3>3 DEF n, i
  <2>6. WidthOf(kind) \in 1 .. 2
    BY DEF WidthOf
  <2>7. r.deriv[e] = {0} => Flows(kind, Zeros[WidthOf(kind)], r.deriv[e])
    BY <2>6, FlowsZeros
  <2>8. r.deriv[e] = {} => Flows(kind, Zeros[WidthOf(kind)], r.deriv[e])
    BY DEF Flows
  <2>9. QED
    BY <1>2, <2>2, <2>4, <2>5, <2>7, <2>8
<1>4. kind = "single" => r.bits[2] = {} /\ r.dot[2] = {}
  BY <1>2
<1> HIDE DEF r
<1>5. ASSUME NEW s, NEW i, NEW D, Fine(in, st, s, i, D) PROVE Ranged(s, D)
  BY <1>5 DEF Fine, Ranged
<1>6. QED
  BY <1>1, <1>3, <1>4, <1>5 DEF Recorded, Forwarded, Assigned, r

(* Constants. *)
LEMMA ConstantFacts ==
  ASSUME NEW st, StateOK(st), NEW w \in Number(2)
  PROVE  /\ Assigned(st, Constant(w))
         /\ kind \in AllKinds /\ (kind = "single" => w[2] = {}) =>
              /\ \A in : Recorded(kind, in, st, Constant(w))
              /\ Forwarded(kind, Constant(w)) /\ Narrowed(kind, NoFlags, Constant(w))
              /\ Telling(kind, NoFlags, Constant(w)) /\ Discreet(kind, NoFlags, Constant(w))
<1> DEFINE dv == <<{0}, {0}>>
           fw == <<TRUE, TRUE>>
<1>1. Constant(w) = Passive(w, dv, fw, fw)
  BY DEF Constant, Passive
<1>2. dv \in [1 .. 2 -> SUBSET Int] /\ dv[1] = {0} /\ dv[2] = {0}
  <2>1. {0} \in SUBSET Int
    OBVIOUS
  <2>2. QED
    BY <2>1, PairOf
<1>3. fw \in [1 .. 2 -> BOOLEAN]
  <2>1. TRUE \in BOOLEAN
    OBVIOUS
  <2>2. QED
    BY <2>1, PairOf, Zenon
<1>4. \A e \in 1 .. 2 : dv[e] = {0}
  BY <1>2
<1>5. Constant(w).deriv = dv /\ Constant(w).bits = w
  BY DEF Constant, Operand
<1> HIDE DEF dv, fw
<1>6. Assigned(st, Constant(w))
  BY <1>1, <1>2, <1>3, PassiveTypes
<1>7. ASSUME kind \in AllKinds, kind = "single" => w[2] = {}
      PROVE  /\ \A in : Recorded(kind, in, st, Constant(w))
             /\ Forwarded(kind, Constant(w))
  <2>1. \A e \in Elements : dv[e] \in {{}, {0}}
    BY <1>4, OfKind
  <2>2. QED
    BY <1>1, <1>2, <1>3, <1>7, <2>1, PassiveSound
<1>8. NoFlags.A = <<FALSE, FALSE>> /\ NoFlags.D = <<FALSE, FALSE>>
  BY DEF NoFlags
<1>9. ASSUME kind = "single" => w[2] = {} PROVE Narrowed(kind, NoFlags, Constant(w))
  BY <1>5, <1>8, <1>9 DEF Narrowed
<1>10. ASSUME NEW e \in ElementsOf(kind)
       PROVE  /\ Silent(NumberOf(kind, NoFlags.A, e), NumberOf(kind, NoFlags.D, e), {0})
              /\ Modest(NumberOf(kind, NoFlags.A, e), NumberOf(kind, NoFlags.D, e), {0})
              /\ Constant(w).deriv[e] = {0}
  <2>1. e \in 1 .. 2
    BY DEF ElementsOf
  <2> DEFINE a == NumberOf(kind, NoFlags.A, e)
  <2>2. \A i \in DOMAIN a : ~a[i]
    <3>1. NoFlags.A \in Booleans(2) /\ \A i \in 1 .. 2 : ~NoFlags.A[i]
      <4>1. FALSE \in BOOLEAN
        OBVIOUS
      <4>2. NoFlags.A \in Booleans(2) /\ NoFlags.A[1] = FALSE /\ NoFlags.A[2] = FALSE
        <5> DEFINE z == <<FALSE, FALSE>>
        <5>1. z \in [1 .. 2 -> BOOLEAN] /\ z[1] = FALSE /\ z[2] = FALSE
          BY <4>1, PairOf, Zenon
        <5>2. NoFlags.A = z
          BY <1>8
        <5> HIDE DEF z
        <5>3. QED
          BY <5>1, <5>2, Zenon DEF Booleans
      <4>3. \A i \in 1 .. 2 : i = 1 \/ i = 2
        OBVIOUS
      <4>4. QED
        BY <4>2, <4>3, Zenon
    <3>2. QED
      BY <3>1, NumberFlags
  <2> HIDE DEF a
  <2>3. {0} # {}
    OBVIOUS
  <2>4. QED
    BY <1>4, <1>5, <2>1, <2>2, <2>3 DEF Silent, Modest, ActiveDiscrete, a
<1>11. Telling(kind, NoFlags, Constant(w)) /\ Discreet(kind, NoFlags, Constant(w))
  BY <1>10 DEF Telling, Discreet
<1>12. QED
  BY <1>6, <1>7, <1>9, <1>11

\* The operand that results from a complement.
NotOperand(p) == Passive(Narrow([h \in 1 .. 2 |-> AllBits \ p.bits[h]], {}),
                         [e \in 1 .. 2 |-> IF p.deriv[e] = {0} THEN {0} ELSE {}],
                         p.forward, StillOutside(p))

LEMMA NotSound ==
  ASSUME NEW st, StateOK(st), NEW p \in Operands
  PROVE  /\ Assigned(st, NotOperand(p))
         /\ NotOperand(p).deriv = [e \in 1 .. 2 |-> IF p.deriv[e] = {0} THEN {0} ELSE {}]
         /\ NotOperand(p).outside = StillOutside(p)
         /\ kind \in AllKinds =>
              /\ \A in : Recorded(kind, in, st, NotOperand(p))
              /\ Forwarded(kind, NotOperand(p))
<1> DEFINE dv == [e \in 1 .. 2 |-> IF p.deriv[e] = {0} THEN {0} ELSE {}]
           c == [h \in 1 .. 2 |-> AllBits \ p.bits[h]]
           w == Narrow(c, {})
           fw == p.forward
           ou == StillOutside(p)
<1>1. c \in [1 .. 2 -> Halves] /\ {} \in Halves
  BY DEF Halves
<1>2. w \in Number(2) /\ (kind = "single" => w[2] = {})
  BY <1>1, NarrowFacts, SMTT(40) DEF Number
<1>3. {0} \in SUBSET Int /\ {} \in SUBSET Int
  OBVIOUS
<1>4. dv \in [1 .. 2 -> SUBSET Int] /\ \A e \in Elements : dv[e] \in {{}, {0}}
  BY <1>3, OfKind
<1>5. fw \in [1 .. 2 -> BOOLEAN] /\ ou \in [1 .. 2 -> BOOLEAN]
  BY DEF Operands, StillOutside
<1>6. /\ NotOperand(p) = Passive(w, dv, fw, ou) /\ NotOperand(p).deriv = dv
      /\ NotOperand(p).outside = ou
  BY DEF NotOperand, Passive, Operand
<1> HIDE DEF w, dv, fw, ou
<1>7. Assigned(st, NotOperand(p))
  BY <1>2, <1>4, <1>5, <1>6, PassiveTypes
<1>8. ASSUME kind \in AllKinds
      PROVE  \A in : Recorded(kind, in, st, NotOperand(p)) /\ Forwarded(kind, NotOperand(p))
  BY <1>2, <1>4, <1>5, <1>6, <1>8, PassiveSound
<1>9. QED
  BY <1>6, <1>7, <1>8 DEF dv, ou

(* The flags of a complement. *)
\* Flags r and operand s result from an operation without derivative rule.
IsUnknown(r, f) == r = Unknown([h \in 1 .. 2 |-> Some(f.A)])
HasLost(s, p) == /\ s.deriv = [e \in 1 .. 2 |-> IF p.deriv[e] = {0} THEN {0} ELSE {}]
                 /\ s.outside = StillOutside(p)

LEMMA NotFlags ==
  ASSUME kind \in AllKinds, NEW f \in FlagSets, NEW p \in Operands, Narrowed(kind, f, p),
         NEW r, IsUnknown(r, f), NEW s, HasLost(s, p)
  PROVE  /\ r.A \in Booleans(2) /\ r.D \in Booleans(2) /\ ~dg_trick_warn(r) /\ r.warn \in BOOLEAN
         /\ Telling(kind, f, p) => Telling(kind, Stored(r), s)
         /\ Discreet(kind, f, p) /\ ~Odd(s.deriv, {p}) => Discreet(kind, Stored(r), s)
<1>1. f.A \in Booleans(2) /\ f.D \in Booleans(2) /\ DOMAIN f.A = 1 .. 2
  BY DEF FlagSets, Booleans
<1>2. r.A = [h \in 1 .. 2 |-> Some(f.A)] /\ r.D = [i \in DOMAIN r.A |-> TRUE] /\ r.warn = FALSE
  BY DEF IsUnknown, Unknown, Result
<1>3. Some(f.A) \in BOOLEAN
  BY DEF Some
<1>4. r.A \in Booleans(2) /\ r.D \in Booleans(2) /\ \A i \in 1 .. 2 : r.A[i] = Some(f.A) /\ r.D[i]
  BY <1>2, <1>3 DEF Booleans
<1>5. \A e \in ElementsOf(kind) : /\ NumberOf(kind, Stored(r).A, e) = NumberOf(kind, r.A, e)
                                  /\ NumberOf(kind, Stored(r).D, e) = NumberOf(kind, r.D, e)
  BY <1>4, StoredFacts
<1>6. ASSUME NEW e \in ElementsOf(kind)
      PROVE  s.deriv[e] = IF p.deriv[e] = {0} THEN {0} ELSE {}
  BY DEF HasLost, ElementsOf
<1>7. ASSUME Telling(kind, f, p) PROVE Telling(kind, Stored(r), s)
  <2>1. ASSUME NEW e \in ElementsOf(kind), s.outside[e]
        PROVE  Silent(NumberOf(kind, Stored(r).A, e), NumberOf(kind, Stored(r).D, e), s.deriv[e])
    <3>0. p.outside[e]
      <4>1. e \in 1 .. 2
        BY DEF ElementsOf
      <4>2. QED
        BY <2>1, <4>1, Zenon DEF HasLost, StillOutside
    <3>1. CASE p.deriv[e] = {0}
      BY <1>6, <3>1 DEF Silent
    <3>2. CASE p.deriv[e] # {0}
      <4>1. \A i \in DOMAIN NumberOf(kind, f.A, e) : NumberOf(kind, f.A, e)[i]
        BY <1>7, <3>0, <3>2 DEF Telling, Silent
      <4>2. Some(f.A)
        BY <1>1, <4>1, NumberFlags
      <4>3. \A i \in 1 .. 2 : r.A[i] /\ r.D[i]
        BY <1>4, <4>2
      <4>4. /\ \A i \in DOMAIN NumberOf(kind, r.A, e) : NumberOf(kind, r.A, e)[i]
            /\ ActiveDiscrete(NumberOf(kind, r.A, e), NumberOf(kind, r.D, e))
        BY <1>4, <4>3, NumberFlags
      <4>5. Silent(NumberOf(kind, r.A, e), NumberOf(kind, r.D, e), s.deriv[e])
        BY <4>4 DEF Silent
      <4>6. QED
        BY <1>5, <4>5, Zenon
    <3>3. QED
      BY <3>1, <3>2
  <2>2. QED
    BY <2>1 DEF Telling
<1>8. ASSUME Discreet(kind, f, p), ~Odd(s.deriv, {p}) PROVE Discreet(kind, Stored(r), s)
  <2>1. ASSUME NEW e \in ElementsOf(kind)
        PROVE  /\ s.deriv[e] = {0} /\ s.deriv[e] # {}
               /\ \A i \in DOMAIN NumberOf(kind, f.A, e) : ~NumberOf(kind, f.A, e)[i]
    <3>1. e \in Elements
      BY OfKind
    <3>2. s.deriv[e] # {}
      BY <1>8, <3>1 DEF Odd
    <3>3. p.deriv[e] = {0} /\ s.deriv[e] = {0}
      BY <1>6, <3>2
    <3>4. QED
      BY <1>8, <3>2, <3>3 DEF Discreet, Modest
  <2>2. ~f.A[1] /\ ~f.A[2]
    <3>1. CASE kind = "double"
      <4>1. 1 \in ElementsOf(kind) /\ NumberOf(kind, f.A, 1) = f.A
        BY <3>1 DEF ElementsOf, NumberOf
      <4>2. QED
        BY <1>1, <2>1, <4>1
    <3>2. CASE kind = "pair"
      <4>1. 1 \in ElementsOf(kind) /\ 2 \in ElementsOf(kind)
            /\ NumberOf(kind, f.A, 1) = <<f.A[1]>> /\ NumberOf(kind, f.A, 2) = <<f.A[2]>>
        BY <3>2 DEF ElementsOf, NumberOf
      <4>2. 1 \in DOMAIN <<f.A[1]>> /\ 1 \in DOMAIN <<f.A[2]>>
        OBVIOUS
      <4>3. ~<<f.A[1]>>[1] /\ ~<<f.A[2]>>[1]
        BY <2>1, <4>1, <4>2
      <4>4. QED
        BY <4>3
    <3>3. CASE kind = "single"
      <4>1. 1 \in ElementsOf(kind) /\ NumberOf(kind, f.A, 1) = <<f.A[1]>>
        BY <3>3 DEF ElementsOf, NumberOf
      <4>2. 1 \in DOMAIN <<f.A[1]>>
        OBVIOUS
      <4>3. ~<<f.A[1]>>[1]
        BY <2>1, <4>1, <4>2
      <4>4. QED
        BY <3>3, <4>3 DEF Narrowed
    <3>4. QED
      BY <3>1, <3>2, <3>3 DEF AllKinds
  <2>3. ~Some(f.A)
    BY <1>1, <2>2 DEF Some
  <2>4. \A i \in 1 .. 2 : ~r.A[i]
    BY <1>4, <2>3
  <2>5. ASSUME NEW e \in ElementsOf(kind)
        PROVE  Modest(NumberOf(kind, Stored(r).A, e), NumberOf(kind, Stored(r).D, e), s.deriv[e])
    <3>1. \A i \in DOMAIN NumberOf(kind, r.A, e) : ~NumberOf(kind, r.A, e)[i]
      BY <1>4, <2>4, NumberFlags
    <3>2. Modest(NumberOf(kind, r.A, e), NumberOf(kind, r.D, e), s.deriv[e])
      BY <2>1, <3>1 DEF Modest, ActiveDiscrete
    <3>3. QED
      BY <1>5, <3>2, Zenon
  <2>6. QED
    BY <2>5 DEF Discreet
<1>9. QED
  BY <1>2, <1>4, <1>7, <1>8 DEF dg_trick_warn

-----------------------------------------------------------------------------
(* The invariants.                                                         *)

\* The values of the inputs, by their index.
Inputs == [i \in 1 .. 2 |-> NumberOf(kind, initial, i)]

TypeInv ==
  /\ kind \in Kinds /\ initial \in Number(2)
  /\ StateOK(Now)
  /\ dg_disable \in Depths /\ steps \in 0 .. MaxSteps
  /\ cells \in [Cells -> Operands]
  /\ \A c \in Cells : Assigned(Now, cells[c])
  /\ flags \in [Cells -> FlagSets]
  /\ warned \in BOOLEAN /\ odd \in BOOLEAN

\* Indices, dot values and flags of a word fit its derivatives.
Sound(p, f) ==
  /\ Recorded(kind, Inputs, Now, p) /\ Forwarded(kind, p) /\ Narrowed(kind, f, p)
  /\ ~warned => Telling(kind, f, p)
  /\ ~odd => Discreet(kind, f, p)

TraceInv == /\ \A c \in Cells : Sound(cells[c], flags[c])
            /\ ~odd => ~warned

\* Sources of operands.
Sources == FromVariable \cup FromConstant

LEMMA WordsFacts ==
  ASSUME NEW H, H \subseteq Halves, NEW w \in Words(H)
  PROVE  w \in Number(2) /\ (kind = "single" => w[2] = {})
<1>1. {} \in Halves
  BY DEF Halves
<1> DEFINE U == IF kind = "single" THEN {{}} ELSE H
<1>2. U \subseteq Halves /\ (kind = "single" => U = {{}})
  BY <1>1
<1>3. w \in H \X U
  BY DEF Words
<1> HIDE DEF U
<1>4. PICK a \in H, b \in U : w = <<a, b>>
  BY <1>3
<1>5. a \in Halves /\ b \in Halves
  BY <1>2, <1>4
<1>6. <<a, b>> \in [1 .. 2 -> Halves] /\ <<a, b>>[2] = b
  BY <1>5, PairOf
<1>7. QED
  BY <1>2, <1>4, <1>6 DEF Number

LEMMA HalvesAssumption ==
  InputHalves \subseteq Halves /\ MaskHalves \subseteq Halves /\ Kinds \subseteq AllKinds
BY BitwiseAssumption DEF Halves, AllBits, SignBit, AllKinds

LEMMA NoFlagsType == NoFlags \in FlagSets
<1>1. FALSE \in BOOLEAN
  OBVIOUS
<1> DEFINE z == <<FALSE, FALSE>>
<1>2. z \in [1 .. 2 -> BOOLEAN]
  BY <1>1, PairOf, Zenon
<1> HIDE DEF z
<1>3. z \in Booleans(2)
  BY <1>2 DEF Booleans
<1>4. NoFlags = [A |-> z, D |-> z]
  BY DEF NoFlags, z
<1>5. QED
  BY <1>3, <1>4 DEF FlagSets

LEMMA SourceTypes ==
  ASSUME TypeInv, NEW p \in Sources
  PROVE  Assigned(Now, p.data) /\ p.flags \in FlagSets
<1>1. CASE p \in FromVariable
  <2>1. PICK c \in Cells : p = [data |-> cells[c], flags |-> flags[c]]
    BY <1>1 DEF FromVariable
  <2>2. QED
    BY <2>1 DEF TypeInv
<1>2. CASE p \in FromConstant
  <2>1. PICK w \in Words(MaskHalves) : p = [data |-> Constant(w), flags |-> NoFlags]
    BY <1>2 DEF FromConstant
  <2>2. w \in Number(2)
    BY HalvesAssumption, WordsFacts
  <2>3. StateOK(Now)
    BY DEF TypeInv
  <2>4. Assigned(Now, Constant(w))
    BY <2>2, <2>3, ConstantFacts
  <2>5. QED
    BY <2>1, <2>4, NoFlagsType
<1>3. QED
  BY <1>1, <1>2 DEF Sources

LEMMA SourceSound ==
  ASSUME TypeInv, TraceInv, NEW p \in Sources
  PROVE  Sound(p.data, p.flags)
<1>1. CASE p \in FromVariable
  <2>1. PICK c \in Cells : p = [data |-> cells[c], flags |-> flags[c]]
    BY <1>1 DEF FromVariable
  <2>2. QED
    BY <2>1 DEF TraceInv
<1>2. CASE p \in FromConstant
  <2>1. PICK w \in Words(MaskHalves) : p = [data |-> Constant(w), flags |-> NoFlags]
    BY <1>2 DEF FromConstant
  <2>2. w \in Number(2) /\ (kind = "single" => w[2] = {})
    BY HalvesAssumption, WordsFacts
  <2>3. StateOK(Now) /\ kind \in AllKinds
    BY HalvesAssumption DEF TypeInv
  <2>4. /\ Recorded(kind, Inputs, Now, Constant(w)) /\ Forwarded(kind, Constant(w))
        /\ Narrowed(kind, NoFlags, Constant(w))
        /\ Telling(kind, NoFlags, Constant(w)) /\ Discreet(kind, NoFlags, Constant(w))
    BY <2>2, <2>3, ConstantFacts
  <2>5. p.data = Constant(w) /\ p.flags = NoFlags
    BY <2>1
  <2>6. QED
    BY <2>4, <2>5 DEF Sound
<1>3. QED
  BY <1>1, <1>2 DEF Sources

\* What all operations have in common: the variable dst gets operand s and flags g,
\* and the handlers lead to state st.
Step(dst, s, g, st) ==
  /\ steps < MaxSteps /\ steps' = steps + 1
  /\ kind' = kind /\ initial' = initial /\ dg_disable' = dg_disable
  /\ cells' = [cells EXCEPT ![dst] = s]
  /\ flags' = [flags EXCEPT ![dst] = g]
  /\ Now' = st

LEMMA StepTypes ==
  ASSUME TypeInv, NEW dst \in Cells, NEW s, NEW g \in FlagSets, NEW st, Step(dst, s, g, st),
         StateOK(st), Extends(Now, st), Assigned(st, s), warned' \in BOOLEAN, odd' \in BOOLEAN
  PROVE  TypeInv'
<1>1. /\ steps \in 0 .. MaxSteps /\ cells \in [Cells -> Operands] /\ flags \in [Cells -> FlagSets]
      /\ kind \in Kinds /\ initial \in Number(2) /\ dg_disable \in Depths
  BY DEF TypeInv
<1>2. s \in Operands
  BY SMTT(40) DEF Assigned
<1>3. cells' \in [Cells -> Operands] /\ flags' \in [Cells -> FlagSets]
  BY <1>1, <1>2 DEF Step
<1>4. steps' \in 0 .. MaxSteps
  BY <1>1, BitwiseAssumption DEF Step
<1>5. ASSUME NEW c \in Cells PROVE Assigned(Now', cells'[c])
  <2>1. CASE c = dst
    BY <1>1, <2>1 DEF Step
  <2>2. CASE c # dst
    <3>1. cells'[c] = cells[c] /\ Now' = st
      BY <1>1, <2>2 DEF Step
    <3>2. Assigned(Now, cells[c])
      BY DEF TypeInv
    <3>3. IndicesOf(Now.tape) \subseteq IndicesOf(st.tape)
      BY DEF Extends
    <3>4. Assigned(st, cells[c])
      BY <3>2, <3>3 DEF Assigned
    <3>5. QED
      BY <3>1, <3>4
  <2>3. QED
    BY <2>1, <2>2
<1>6. StateOK(Now') /\ kind' \in Kinds /\ initial' \in Number(2) /\ dg_disable' \in Depths
  BY <1>1 DEF Step
<1>7. QED
  BY <1>3, <1>4, <1>5, <1>6 DEF TypeInv

LEMMA RecordedExtends ==
  ASSUME NEW k, NEW in, NEW st, NEW st2, NEW p, Recorded(k, in, st, p), Extends(st, st2)
  PROVE  Recorded(k, in, st2, p)
<1>1. IndicesOf(st.tape) \subseteq IndicesOf(st2.tape)
  BY DEF Extends
<1>2. p.idx \in [1 .. 2 -> IndicesOf(st2.tape)]
  BY <1>1 DEF Recorded
<1>3. \A e \in ElementsOf(k) :
        /\ Ranged(NumberOf(k, p.bits, e), p.deriv[e])
        /\ p.outside[e] => Fine(in, st2, NumberOf(k, p.bits, e), p.idx[e], p.deriv[e])
  BY FineExtends DEF Recorded
<1>4. QED
  BY <1>2, <1>3 DEF Recorded

LEMMA StepSound ==
  ASSUME TypeInv, TraceInv, NEW dst \in Cells, NEW s, NEW g, NEW st, Step(dst, s, g, st),
         Extends(Now, st), warned => warned', odd => odd',
         Recorded(kind, Inputs, st, s), Forwarded(kind, s), Narrowed(kind, g, s),
         ~warned' => Telling(kind, g, s), ~odd' => Discreet(kind, g, s) /\ ~warned'
  PROVE  TraceInv'
<1>1. cells \in [Cells -> Operands] /\ flags \in [Cells -> FlagSets]
  BY DEF TypeInv
<1>2. kind' = kind /\ Now' = st /\ Inputs' = Inputs
  BY DEF Step, Inputs
<1>3. ASSUME NEW c \in Cells
      PROVE  /\ Recorded(kind, Inputs, st, cells'[c]) /\ Forwarded(kind, cells'[c])
             /\ Narrowed(kind, flags'[c], cells'[c])
             /\ ~warned' => Telling(kind, flags'[c], cells'[c])
             /\ ~odd' => Discreet(kind, flags'[c], cells'[c])
  <2>1. CASE c = dst
    <3>1. cells'[c] = s /\ flags'[c] = g
      BY <1>1, <2>1 DEF Step
    <3>2. QED
      BY <3>1
  <2>2. CASE c # dst
    <3>1. cells'[c] = cells[c] /\ flags'[c] = flags[c]
      BY <1>1, <2>2 DEF Step
    <3>2. /\ Recorded(kind, Inputs, Now, cells[c]) /\ Forwarded(kind, cells[c])
          /\ Narrowed(kind, flags[c], cells[c])
          /\ ~warned => Telling(kind, flags[c], cells[c])
          /\ ~odd => Discreet(kind, flags[c], cells[c])
      BY DEF TraceInv, Sound
    <3>3. Recorded(kind, Inputs, st, cells[c])
      BY <3>2, RecordedExtends, Zenon
    <3>4. QED
      BY <3>1, <3>2, <3>3
  <2>3. QED
    BY <2>1, <2>2
<1>4. (\A c \in Cells : Sound(cells[c], flags[c]))'
  BY <1>2, <1>3 DEF Sound
<1>5. QED
  BY <1>4 DEF TraceInv

-----------------------------------------------------------------------------
(* The actions preserve the invariants.                                    *)

LEMMA StateRecord ==
  ASSUME NEW st, st \in States
  PROVE  st = [out |-> st.out, tape |-> st.tape, values |-> st.values]
BY DEF States

LEMMA FlagTypes ==
  ASSUME TypeInv, NEW op \in Ops, NEW p \in Sources, NEW q \in Sources,
         NEW r, r = FlagsOf(op, p.data, p.flags, q.data, q.flags)
  PROVE  r.A \in Booleans(2) /\ r.D \in Booleans(2) /\ r.warn \in BOOLEAN
<1>1. /\ Assigned(Now, p.data) /\ p.flags \in FlagSets
      /\ Assigned(Now, q.data) /\ q.flags \in FlagSets
  BY SourceTypes
<1> DEFINE x == p.data.bits
           y == q.data.bits
           xA == p.flags.A
           xD == p.flags.D
           yA == q.flags.A
           yD == q.flags.D
<1>2. r = dg_trick_bitwise64(op, x, xA, xD, y, yA, yD)
  BY DEF FlagsOf
<1>3. /\ x \in Number(2) /\ y \in Number(2)
      /\ xA \in Booleans(2) /\ xD \in Booleans(2) /\ yA \in Booleans(2) /\ yD \in Booleans(2)
  BY <1>1 DEF Assigned, Operands, FlagSets
<1> HIDE DEF x, y, xA, xD, yA, yD
<1>4. Typed(r, xA, xD, yA, yD)
  BY <1>2, <1>3, Trick64Types, Zenon
<1>5. QED
  BY <1>4 DEF Typed

LEMMA BitwiseStep ==
  ASSUME TypeInv, NEW op \in Ops, NEW dst \in Cells, NEW p \in Sources, NEW q \in Sources,
         BitwiseOperation(op, dst, p, q)
  PROVE  LET r == FlagsOf(op, p.data, p.flags, q.data, q.flags)
             s == ResultOf(op, Now, p.data, q.data)
         IN  /\ Step(dst, s, Stored(r), BarOf(op, Now, p.data, q.data))
             /\ warned' = (warned \/ dg_trick_warn(r))
             /\ odd' = (odd \/ Odd(s.deriv, {p.data, q.data}))
             /\ MixedFormats \/ ~(Misread(op, p.data) \/ Misread(op, q.data))
<1> DEFINE r == FlagsOf(op, p.data, p.flags, q.data, q.flags)
           s == ResultOf(op, Now, p.data, q.data)
           st == BarOf(op, Now, p.data, q.data)
<1>1. Operation(op, dst, p.data, q.data)
  BY DEF BitwiseOperation
<1>2. StateOK(Now) /\ Assigned(Now, p.data) /\ Assigned(Now, q.data) /\ cells \in [Cells -> Operands]
  BY SourceTypes DEF TypeInv
<1>3. StateOK(st)
  BY <1>2, ResultTypes
<1>4. /\ steps < MaxSteps /\ steps' = steps + 1 /\ kind' = kind /\ initial' = initial
      /\ dg_disable' = dg_disable /\ out' = st.out /\ tape' = st.tape /\ values' = st.values
      /\ MixedFormats \/ ~(Misread(op, p.data) \/ Misread(op, q.data))
  BY <1>1 DEF Operation, BarOf, Now
<1>5. cells' = [cells EXCEPT ![dst] = s]
  BY <1>1 DEF Operation, ResultOf, BarOf, DotOf, DerivOf, ForwardOf, OutsideOf, Now
<1>6. flags' = [flags EXCEPT ![dst] = Stored(r)] /\ warned' = (warned \/ dg_trick_warn(r))
  BY DEF BitwiseOperation, Assign, Stored, FlagsOf
<1> HIDE DEF st, s, r
<1>7. cells'[dst] = s
  BY <1>2, <1>5
<1>8. odd' = (odd \/ Odd(s.deriv, {p.data, q.data}))
  BY <1>7 DEF BitwiseOperation
<1>9. st = [out |-> st.out, tape |-> st.tape, values |-> st.values]
  BY <1>3, StateRecord DEF StateOK
<1>10. Now' = st
  BY <1>4, <1>9 DEF Now
<1>11. Step(dst, s, Stored(r), st)
  BY <1>4, <1>5, <1>6, <1>10 DEF Step
<1>12. QED
  BY <1>4, <1>6, <1>8, <1>11 DEF s, r, st

LEMMA BitwiseTypes ==
  ASSUME TypeInv, NEW op \in Ops, NEW dst \in Cells, NEW p \in Sources, NEW q \in Sources,
         BitwiseOperation(op, dst, p, q)
  PROVE  TypeInv'
<1> DEFINE r == FlagsOf(op, p.data, p.flags, q.data, q.flags)
           s == ResultOf(op, Now, p.data, q.data)
           st == BarOf(op, Now, p.data, q.data)
<1>1. /\ Step(dst, s, Stored(r), st)
      /\ warned' = (warned \/ dg_trick_warn(r))
      /\ odd' = (odd \/ Odd(s.deriv, {p.data, q.data}))
  BY BitwiseStep
<1>2. StateOK(Now) /\ Assigned(Now, p.data) /\ Assigned(Now, q.data)
  BY SourceTypes DEF TypeInv
<1>3. StateOK(st) /\ Extends(Now, st) /\ Assigned(st, s)
  BY <1>2, ResultTypes
<1>4. r.A \in Booleans(2) /\ r.D \in Booleans(2) /\ r.warn \in BOOLEAN
  BY FlagTypes
<1>5. Stored(r) \in FlagSets
  BY <1>4, StoredFacts
<1> HIDE DEF r, s, st
<1>6. warned' \in BOOLEAN /\ odd' \in BOOLEAN
  BY <1>1
<1>7. QED
  BY <1>1, <1>3, <1>5, <1>6, StepTypes

LEMMA BitwiseSound ==
  ASSUME ~MixedFormats, TypeInv, TraceInv, NEW op \in Ops, NEW dst \in Cells,
         NEW p \in Sources, NEW q \in Sources, BitwiseOperation(op, dst, p, q)
  PROVE  TraceInv'
<1> DEFINE r == FlagsOf(op, p.data, p.flags, q.data, q.flags)
           s == ResultOf(op, Now, p.data, q.data)
           st == BarOf(op, Now, p.data, q.data)
<1>1. /\ Step(dst, s, Stored(r), st)
      /\ warned' = (warned \/ dg_trick_warn(r))
      /\ odd' = (odd \/ Odd(s.deriv, {p.data, q.data}))
      /\ ~Misread(op, p.data) /\ ~Misread(op, q.data)
  BY BitwiseStep
<1>2. /\ StateOK(Now) /\ Assigned(Now, p.data) /\ Assigned(Now, q.data)
      /\ p.flags \in FlagSets /\ q.flags \in FlagSets
      /\ p.data \in Operands /\ q.data \in Operands /\ kind \in AllKinds
  BY SourceTypes, HalvesAssumption DEF TypeInv, Assigned
<1>3. /\ Recorded(kind, Inputs, Now, p.data) /\ Forwarded(kind, p.data)
      /\ Narrowed(kind, p.flags, p.data)
      /\ ~warned => Telling(kind, p.flags, p.data)
      /\ ~odd => Discreet(kind, p.flags, p.data)
  BY SourceSound DEF Sound
<1>4. /\ Recorded(kind, Inputs, Now, q.data) /\ Forwarded(kind, q.data)
      /\ Narrowed(kind, q.flags, q.data)
      /\ ~warned => Telling(kind, q.flags, q.data)
      /\ ~odd => Discreet(kind, q.flags, q.data)
  BY SourceSound DEF Sound
<1>5. Extends(Now, st)
  BY <1>2, ResultTypes
<1>6. Recorded(kind, Inputs, st, s) /\ Forwarded(kind, s)
  BY <1>1, <1>2, <1>3, <1>4, ResultSound
<1>7. r.A \in Booleans(2) /\ r.D \in Booleans(2) /\ r.warn \in BOOLEAN
  BY FlagTypes
<1>8. kind = "single" => ~Stored(r).A[2] /\ ~Stored(r).D[2]
  BY <1>7, StoredFacts
<1>9. /\ Telling(kind, p.flags, p.data) /\ Telling(kind, q.flags, q.data) /\ ~dg_trick_warn(r)
           => Telling(kind, Stored(r), s)
      /\ /\ Discreet(kind, p.flags, p.data) /\ Discreet(kind, q.flags, q.data)
         /\ ~Odd(s.deriv, {p.data, q.data})
         => ~dg_trick_warn(r) /\ Discreet(kind, Stored(r), s)
  <2> DEFINE x == p.data
             y == q.data
             f == p.flags
             g == q.flags
             n == Now
  <2>1. r = FlagsOf(op, x, f, y, g) /\ s = ResultOf(op, n, x, y)
    OBVIOUS
  <2> HIDE DEF x, y, f, g, r, s, n
  <2>2. /\ StateOK(n) /\ Assigned(n, x) /\ Assigned(n, y) /\ f \in FlagSets /\ g \in FlagSets
        /\ Narrowed(kind, f, x) /\ Narrowed(kind, g, y) /\ ~Misread(op, x) /\ ~Misread(op, y)
    BY <1>1, <1>2, <1>3, <1>4 DEF x, y, f, g, n
  <2>3. Flagged(r, s, f, x, g, y)
    BY <1>2, <2>1, <2>2, ResultFlags, Zenon
  <2>4. QED
    BY <2>3 DEF Flagged, x, y, f, g
<1> HIDE DEF r, s, st
<1>10. Narrowed(kind, Stored(r), s)
  BY <1>6, <1>8 DEF Narrowed, Recorded
<1>11. (warned => warned') /\ (odd => odd')
  BY <1>1
<1>12. ~warned' => Telling(kind, Stored(r), s)
  BY <1>1, <1>3, <1>4, <1>9
<1>13. ~odd' => Discreet(kind, Stored(r), s) /\ ~warned'
  BY <1>1, <1>3, <1>4, <1>9 DEF TraceInv
<1>14. QED
  BY <1>1, <1>5, <1>6, <1>10, <1>11, <1>12, <1>13, StepSound

LEMMA FloatStep ==
  ASSUME TypeInv, NEW dst \in Cells, NEW p \in Sources, FloatOperation(dst, p)
  PROVE  LET r == createTrickCode(p.flags)
         IN  /\ Step(dst, NegOperand(p.data), Stored(r), NegNow(p.data))
             /\ warned' = (warned \/ dg_trick_warn(r)) /\ odd' = odd
<1> DEFINE r == createTrickCode(p.flags)
           st == NegStatements(p.data)
<1>1. /\ steps < MaxSteps /\ steps' = steps + 1 /\ kind' = kind /\ initial' = initial
      /\ dg_disable' = dg_disable /\ out' = out /\ tape' = st.tape /\ values' = st.values /\ odd' = odd
  BY DEF FloatOperation
<1>2. cells' = [cells EXCEPT ![dst] = NegOperand(p.data)]
  BY DEF FloatOperation, NegOperand
<1>3. flags' = [flags EXCEPT ![dst] = Stored(r)] /\ warned' = (warned \/ dg_trick_warn(r))
  BY DEF FloatOperation, Assign, Stored
<1> HIDE DEF r, st
<1>4. Now' = [out |-> out, tape |-> st.tape, values |-> st.values]
  BY <1>1 DEF Now
<1>5. Now' = NegNow(p.data)
  BY <1>4 DEF NegNow, StateOf, st
<1>6. Step(dst, NegOperand(p.data), Stored(r), NegNow(p.data))
  BY <1>1, <1>2, <1>3, <1>5 DEF Step
<1>7. QED
  BY <1>1, <1>3, <1>6 DEF r

LEMMA FloatPreserves ==
  ASSUME TypeInv, NEW dst \in Cells, NEW p \in Sources, FloatOperation(dst, p)
  PROVE  TypeInv' /\ (TraceInv => TraceInv')
<1> DEFINE r == createTrickCode(p.flags)
           s == NegOperand(p.data)
           st == NegNow(p.data)
           x == p.data
           f == p.flags
<1>1. Step(dst, s, Stored(r), st) /\ warned' = (warned \/ dg_trick_warn(r)) /\ odd' = odd
  BY FloatStep
<1>2. /\ StateOK(Now) /\ Assigned(Now, x) /\ x \in Operands /\ f \in FlagSets
      /\ warned \in BOOLEAN /\ odd \in BOOLEAN /\ kind \in AllKinds
  BY SourceTypes, HalvesAssumption DEF TypeInv, Assigned
<1>3. StateOK(st) /\ Extends(Now, st) /\ Assigned(st, s)
  BY <1>2, NegTypes
<1>4. s.deriv = [e \in 1 .. 2 |-> Minus(x.deriv[e])] /\ s.outside = StillOutside(x)
  BY DEF NegOperand, Operand
<1>5. r.A \in Booleans(2) /\ r.D \in Booleans(2) /\ r.warn \in BOOLEAN
  <2>1. f.A \in Booleans(2) /\ DOMAIN f.A = 1 .. 2
    BY <1>2 DEF FlagSets, Booleans
  <2>2. r.A = OfNumbers(f.A) /\ r.D = Never(f.A) /\ r.warn = ActiveDiscrete(f.A, f.D)
    BY DEF createTrickCode, Result
  <2>3. Some(f.A) \in BOOLEAN
    BY DEF Some
  <2> HIDE DEF r, f
  <2>4. QED
    BY <2>1, <2>2, <2>3 DEF OfNumbers, Never, Booleans, ActiveDiscrete
<1>6. Stored(r) \in FlagSets /\ (kind = "single" => ~Stored(r).A[2] /\ ~Stored(r).D[2])
  BY <1>5, StoredFacts
<1>7. TypeInv'
  <2> HIDE DEF r, s, st
  <2>1. warned' \in BOOLEAN /\ odd' \in BOOLEAN
    BY <1>1, <1>2
  <2>2. QED
    BY <1>1, <1>3, <1>6, <2>1, StepTypes
<1>8. ASSUME TraceInv PROVE TraceInv'
  <2>1. /\ Recorded(kind, Inputs, Now, x) /\ Forwarded(kind, x) /\ Narrowed(kind, f, x)
        /\ ~warned => Telling(kind, f, x)
        /\ ~odd => Discreet(kind, f, x)
    BY <1>8, SourceSound DEF Sound
  <2>2. Recorded(kind, Inputs, st, s) /\ Forwarded(kind, s)
    BY <1>2, <2>1, NegSound
  <2> HIDE DEF x, f, s, st
  <2>3. r = createTrickCode(f)
    BY DEF f
  <2> HIDE DEF r
  <2>4. /\ Telling(kind, f, x) /\ ~dg_trick_warn(r) => Telling(kind, Stored(r), s)
        /\ Discreet(kind, f, x) => ~dg_trick_warn(r) /\ Discreet(kind, Stored(r), s)
    BY <1>2, <1>4, <2>1, <2>3, NegFlags
  <2>5. Narrowed(kind, Stored(r), s)
    BY <1>6, <2>2 DEF Narrowed, Recorded
  <2>6. (warned => warned') /\ (odd => odd')
    BY <1>1
  <2>7. ~warned' => Telling(kind, Stored(r), s)
    BY <1>1, <2>1, <2>4
  <2>8. ~odd' => Discreet(kind, Stored(r), s) /\ ~warned'
    BY <1>1, <1>8, <2>1, <2>4 DEF TraceInv
  <2>9. QED
    BY <1>1, <1>3, <1>8, <2>2, <2>5, <2>6, <2>7, <2>8, StepSound
<1>9. QED
  BY <1>7, <1>8

LEMMA UnhandledStep ==
  ASSUME TypeInv, NEW dst \in Cells, NEW p \in Sources, UnhandledOperation(dst, p)
  PROVE  LET r == Unknown([h \in 1 .. 2 |-> Some(p.flags.A)])
             s == NotOperand(p.data)
         IN  /\ Step(dst, s, Stored(r), Now)
             /\ warned' = (warned \/ dg_trick_warn(r)) /\ odd' = (odd \/ Odd(s.deriv, {p.data}))
<1> DEFINE r == Unknown([h \in 1 .. 2 |-> Some(p.flags.A)])
           s == NotOperand(p.data)
<1>1. /\ steps < MaxSteps /\ steps' = steps + 1 /\ kind' = kind /\ initial' = initial
      /\ dg_disable' = dg_disable /\ out' = out /\ tape' = tape /\ values' = values
  BY DEF UnhandledOperation
<1>2. cells' = [cells EXCEPT ![dst] = s]
  BY DEF UnhandledOperation, NotOperand, Passive
<1>3. flags' = [flags EXCEPT ![dst] = Stored(r)] /\ warned' = (warned \/ dg_trick_warn(r))
  BY DEF UnhandledOperation, Assign, Stored
<1>4. odd' = (odd \/ Odd(s.deriv, {p.data}))
  <2>1. s.deriv = [e \in 1 .. 2 |-> IF p.data.deriv[e] = {0} THEN {0} ELSE {}]
    BY DEF NotOperand, Passive, Operand
  <2> HIDE DEF s
  <2>2. QED
    BY <2>1 DEF UnhandledOperation
<1> HIDE DEF r, s
<1>5. Now' = Now
  BY <1>1 DEF Now
<1>6. Step(dst, s, Stored(r), Now)
  BY <1>1, <1>2, <1>3, <1>5 DEF Step
<1>7. QED
  BY <1>3, <1>4, <1>6 DEF r, s

LEMMA UnhandledPreserves ==
  ASSUME TypeInv, NEW dst \in Cells, NEW p \in Sources, UnhandledOperation(dst, p)
  PROVE  TypeInv' /\ (TraceInv => TraceInv')
<1> DEFINE x == p.data
           f == p.flags
           r == Unknown([h \in 1 .. 2 |-> Some(f.A)])
           s == NotOperand(x)
<1>1. Step(dst, s, Stored(r), Now) /\ warned' = (warned \/ dg_trick_warn(r)) /\ odd' = (odd \/ Odd(s.deriv, {x}))
  BY UnhandledStep
<1>2. /\ StateOK(Now) /\ x \in Operands /\ f \in FlagSets
      /\ warned \in BOOLEAN /\ odd \in BOOLEAN /\ kind \in AllKinds
  BY SourceTypes, HalvesAssumption DEF TypeInv, Assigned
<1>3. Extends(Now, Now)
  BY DEF Extends
<1> HIDE DEF x, f
<1>4. /\ Assigned(Now, s) /\ s.deriv = [e \in 1 .. 2 |-> IF x.deriv[e] = {0} THEN {0} ELSE {}]
      /\ s.outside = StillOutside(x)
      /\ Recorded(kind, Inputs, Now, s) /\ Forwarded(kind, s)
  BY <1>2, NotSound
<1>5. r.A \in Booleans(2) /\ r.D \in Booleans(2) /\ ~dg_trick_warn(r)
  <2>1. r.A = [h \in 1 .. 2 |-> Some(f.A)] /\ r.D = [i \in DOMAIN r.A |-> TRUE] /\ r.warn = FALSE
    BY DEF Unknown, Result
  <2>2. Some(f.A) \in BOOLEAN
    BY DEF Some
  <2>3. QED
    BY <2>1, <2>2 DEF Booleans, dg_trick_warn
<1>6. Stored(r) \in FlagSets /\ (kind = "single" => ~Stored(r).A[2] /\ ~Stored(r).D[2])
  BY <1>5, StoredFacts
<1>7. TypeInv'
  <2> HIDE DEF r, s
  <2>1. warned' \in BOOLEAN /\ odd' \in BOOLEAN
    BY <1>1, <1>2
  <2>2. QED
    BY <1>1, <1>2, <1>3, <1>4, <1>6, <2>1, StepTypes
<1>8. ASSUME TraceInv PROVE TraceInv'
  <2>1. /\ Narrowed(kind, f, x)
        /\ ~warned => Telling(kind, f, x)
        /\ ~odd => Discreet(kind, f, x)
    BY <1>8, SourceSound DEF Sound, f, x
  <2>0. IsUnknown(r, f) /\ HasLost(s, x)
    BY <1>4 DEF IsUnknown, HasLost
  <2> HIDE DEF s, r
  <2>2. /\ Telling(kind, f, x) => Telling(kind, Stored(r), s)
        /\ Discreet(kind, f, x) /\ ~Odd(s.deriv, {x}) => Discreet(kind, Stored(r), s)
    BY <1>2, <2>0, <2>1, NotFlags, Zenon
  <2>3. Narrowed(kind, Stored(r), s)
    BY <1>4, <1>6 DEF Narrowed, Recorded
  <2>4. (warned => warned') /\ (odd => odd')
    BY <1>1
  <2>5. ~warned' => Telling(kind, Stored(r), s)
    BY <1>1, <2>1, <2>2
  <2>6. ~odd' => Discreet(kind, Stored(r), s) /\ ~warned'
    BY <1>1, <1>5, <1>8, <2>1, <2>2 DEF TraceInv
  <2>7. QED
    BY <1>1, <1>3, <1>4, <1>8, <2>3, <2>4, <2>5, <2>6, StepSound
<1>9. QED
  BY <1>7, <1>8

-----------------------------------------------------------------------------
(* The initial states.                                                     *)

LEMMA InputFields ==
  ASSUME NEW w
  PROVE  LET p == InputOperand(w)
         IN  /\ p.bits = w /\ p.deriv = <<{1}, {2}>> /\ p.forward = <<TRUE, TRUE>>
             /\ p.outside = <<TRUE, TRUE>>
             /\ p.dot = IF kind = "double" THEN <<{0}, {0}>> ELSE Narrow(<<{0}, {1}>>, {})
             /\ p.idx = IF kind = "pair" THEN <<1, 2>> ELSE <<1, 0>>
             /\ p = [bits |-> p.bits, dot |-> p.dot, idx |-> p.idx, deriv |-> p.deriv,
                     forward |-> p.forward, outside |-> p.outside]
BY DEF InputOperand, Operand

LEMMA InputTypes ==
  ASSUME kind \in AllKinds, NEW w \in Number(2), NEW st, StateOK(st), NEW p, p = InputOperand(w)
  PROVE  /\ Assigned(st, p)
         /\ p.bits = w /\ \A e \in Elements : p.idx[e] = e /\ p.deriv[e] = {e}
         /\ \A e \in Elements : NumberOf(kind, p.dot, e) = SeedOf(kind, e)
         /\ kind = "single" => p.dot[2] = {}
<1>1. /\ p.bits = w /\ p.deriv = <<{1}, {2}>> /\ p.forward = <<TRUE, TRUE>>
      /\ p.outside = <<TRUE, TRUE>>
      /\ p.dot = IF kind = "double" THEN <<{0}, {0}>> ELSE Narrow(<<{0}, {1}>>, {})
      /\ p.idx = IF kind = "pair" THEN <<1, 2>> ELSE <<1, 0>>
      /\ p = [bits |-> p.bits, dot |-> p.dot, idx |-> p.idx, deriv |-> p.deriv,
              forward |-> p.forward, outside |-> p.outside]
  BY InputFields
<1>2. {0} \in Halves /\ {1} \in Halves /\ {} \in Halves
  BY BitwiseAssumption DEF Halves, AllBits, SignBit
<1>3. {0, 1, 2} \subseteq IndicesOf(st.tape) /\ IndicesOf(st.tape) \subseteq Nat
  BY DEF StateOK, States, IndicesOf, NumInputs
<1>4. p.idx \in [1 .. 2 -> IndicesOf(st.tape)] /\ p.idx \in [1 .. 2 -> Nat]
      /\ p.idx[1] = 1 /\ (kind = "pair" => p.idx[2] = 2)
  BY <1>1, <1>3, PairOf
<1>5. p.deriv \in [1 .. 2 -> SUBSET Int] /\ p.deriv[1] = {1} /\ p.deriv[2] = {2}
  BY <1>1
<1>6. p.forward \in [1 .. 2 -> BOOLEAN] /\ p.outside \in [1 .. 2 -> BOOLEAN]
  <2>1. TRUE \in BOOLEAN
    OBVIOUS
  <2>2. <<TRUE, TRUE>> \in [1 .. 2 -> BOOLEAN]
    BY <2>1, PairOf, Zenon
  <2>3. QED
    BY <1>1, <2>2
<1>7. /\ p.dot \in Number(2) /\ p.dot[1] = {0} /\ (kind = "double" => p.dot = <<{0}, {0}>>)
      /\ kind = "pair" => p.dot[2] = {1}
      /\ kind = "single" => p.dot[2] = {}
  <2> DEFINE z == <<{0}, {1}>>
  <2>1. z \in [1 .. 2 -> Halves] /\ z[1] = {0} /\ z[2] = {1}
    BY <1>2, PairOf
  <2>2. <<{0}, {0}>> \in [1 .. 2 -> Halves] /\ <<{0}, {0}>>[1] = {0}
    BY <1>2, PairOf
  <2>3. p.dot = IF kind = "double" THEN <<{0}, {0}>> ELSE Narrow(z, {})
    BY <1>1
  <2> HIDE DEF z
  <2>4. /\ Narrow(z, {}) \in [1 .. 2 -> Halves] /\ Narrow(z, {})[1] = z[1]
        /\ kind = "single" => Narrow(z, {})[2] = {}
        /\ kind # "single" => Narrow(z, {}) = z
    BY <1>2, <2>1, NarrowFacts
  <2>5. QED
    BY <2>1, <2>2, <2>3, <2>4 DEF Number
<1>8. p \in Operands
  BY <1>1, <1>4, <1>5, <1>6, <1>7 DEF Operands
<1>9. \A e \in Elements : p.idx[e] = e /\ p.deriv[e] = {e}
  BY <1>4, <1>5 DEF Elements
<1>10. ASSUME NEW e \in Elements PROVE NumberOf(kind, p.dot, e) = SeedOf(kind, e)
  <2>1. e = 1 \/ (e = 2 /\ kind = "pair")
    BY <1>10 DEF Elements
  <2>2. QED
    BY <1>7, <2>1 DEF NumberOf, SeedOf
<1>11. QED
  BY <1>1, <1>4, <1>7, <1>8, <1>9, <1>10 DEF Assigned

LEMMA InputSound ==
  ASSUME kind \in AllKinds, NEW w \in Number(2), kind = "single" => w[2] = {},
         \A e \in Elements : ~IsNaN(Part(w, e)),
         NEW in, in = [i \in 1 .. 2 |-> NumberOf(kind, w, i)],
         NEW st, StateOK(st), NEW p, p = InputOperand(w)
  PROVE  Recorded(kind, in, st, p) /\ Forwarded(kind, p)
<1>1. /\ Assigned(st, p)
      /\ p.bits = w /\ \A e \in Elements : p.idx[e] = e /\ p.deriv[e] = {e}
      /\ \A e \in Elements : NumberOf(kind, p.dot, e) = SeedOf(kind, e)
      /\ kind = "single" => p.dot[2] = {}
  BY InputTypes
<1>2. /\ Elements = ElementsOf(kind) /\ Elements \subseteq 1 .. 2
      /\ \A e : Part(w, e) = NumberOf(kind, w, e)
  BY OfKind
<1>3. TapeOK(st.tape) /\ 1 .. 2 \subseteq IndicesOf(st.tape)
  BY DEF StateOK, States, IndicesOf, NumInputs
<1>4. ASSUME NEW e \in Elements PROVE Fine(in, st, NumberOf(kind, p.bits, e), p.idx[e], p.deriv[e])
  <2>1. e \in 1 .. 2 /\ e \in IndicesOf(st.tape)
    BY <1>2, <1>3
  <2>2. Along(st.tape)[e] = e
    BY <1>3, <2>1, AlongRule DEF NumInputs
  <2>3. RecordedAs(in, st.values, e) = NumberOf(kind, w, e)
    BY <2>1 DEF RecordedAs, NumInputs
  <2>4. ~IsNaN(NumberOf(kind, w, e))
    BY <1>2
  <2> DEFINE D == {e}
             s == NumberOf(kind, w, e)
  <2>5. D \subseteq -2 .. 2 /\ e \in D
    BY <2>1
  <2>6. p.idx[e] = e /\ p.deriv[e] = D /\ NumberOf(kind, p.bits, e) = s
    BY <1>1
  <2> HIDE DEF D, s
  <2>7. Fine(in, st, s, e, D)
    BY <2>1, <2>2, <2>3, <2>4, <2>5 DEF Fine, SameNumber, s
  <2>8. QED
    BY <2>6, <2>7
<1>5. ASSUME NEW e \in Elements PROVE Flows(kind, NumberOf(kind, p.dot, e), p.deriv[e])
  <2>1. e \in 1 .. 2 /\ p.deriv[e] = {e} /\ NumberOf(kind, p.dot, e) = SeedOf(kind, e)
    BY <1>1, <1>2
  <2>2. Matches(kind, e, SeedOf(kind, e))
    BY <2>1 DEF Matches
  <2>3. QED
    BY <2>1, <2>2 DEF Flows
<1>6. \A e \in Elements : Ranged(NumberOf(kind, p.bits, e), p.deriv[e])
  BY <1>4 DEF Fine, Ranged
<1>7. QED
  BY <1>1, <1>2, <1>4, <1>5, <1>6 DEF Recorded, Forwarded, Assigned

LEMMA SingleOf ==
  ASSUME NEW S, NEW x \in S
  PROVE  DOMAIN <<x>> = {1} /\ <<x>>[1] = x
OBVIOUS

LEMMA MarkFacts ==
  ASSUME kind \in AllKinds, NEW w \in Number(2), kind = "single" => w[2] = {},
         NEW p, p.bits = w, \A e \in Elements : p.deriv[e] = {e}
  PROVE  /\ DG_MARK_FLOAT \in FlagSets /\ Narrowed(kind, DG_MARK_FLOAT, p)
         /\ Telling(kind, DG_MARK_FLOAT, p) /\ Discreet(kind, DG_MARK_FLOAT, p)
<1> DEFINE f == DG_MARK_FLOAT
           a == IF kind = "single" THEN <<TRUE, FALSE>> ELSE <<TRUE, TRUE>>
           d == <<FALSE, FALSE>>
<1>1. f = [A |-> a, D |-> d]
  <2>1. NoFlags = [A |-> d, D |-> d]
    BY Zenon DEF NoFlags
  <2>2. f = [NoFlags EXCEPT !.A = a]
    BY Zenon DEF DG_MARK_FLOAT
  <2> HIDE DEF a, d, f
  <2>3. QED
    BY <2>1, <2>2
<1>2. TRUE \in BOOLEAN /\ FALSE \in BOOLEAN
  OBVIOUS
<1>3. d \in [1 .. 2 -> BOOLEAN] /\ d[1] = FALSE /\ d[2] = FALSE
  BY <1>2, PairOf, Zenon
<1>4. <<TRUE, FALSE>> \in [1 .. 2 -> BOOLEAN] /\ <<TRUE, FALSE>>[1] = TRUE /\ <<TRUE, FALSE>>[2] = FALSE
  BY <1>2, PairOf, Zenon
<1>5. <<TRUE, TRUE>> \in [1 .. 2 -> BOOLEAN] /\ <<TRUE, TRUE>>[1] = TRUE /\ <<TRUE, TRUE>>[2] = TRUE
  BY <1>2, PairOf, Zenon
<1>6. /\ a \in [1 .. 2 -> BOOLEAN] /\ a[1] = TRUE /\ (kind # "single" => a[2] = TRUE)
      /\ kind = "single" => a[2] = FALSE
  <2>1. CASE kind = "single"
    <3>1. a = <<TRUE, FALSE>>
      BY <2>1
    <3>2. QED
      BY <1>4, <2>1, <3>1, Zenon
  <2>2. CASE kind # "single"
    <3>1. a = <<TRUE, TRUE>>
      BY <2>2
    <3>2. QED
      BY <1>5, <2>2, <3>1, Zenon
  <2>3. QED
    BY <2>1, <2>2
<1> HIDE DEF f, a, d
<1>7. f.A = a /\ f.D = d /\ f \in FlagSets
  BY <1>1, <1>3, <1>6 DEF FlagSets, Booleans
<1>8. Narrowed(kind, f, p)
  BY <1>3, <1>6, <1>7 DEF Narrowed
<1>9. ASSUME NEW e \in ElementsOf(kind)
      PROVE  LET A == NumberOf(kind, f.A, e)
                 D == NumberOf(kind, f.D, e)
             IN  Silent(A, D, p.deriv[e]) /\ Modest(A, D, p.deriv[e])
  <2> DEFINE A == NumberOf(kind, f.A, e)
             D == NumberOf(kind, f.D, e)
  <2>1. e \in Elements /\ (e = 1 \/ (e = 2 /\ kind = "pair"))
    BY <1>9, OfKind DEF ElementsOf
  <2>2. p.deriv[e] = {e} /\ {e} # {} /\ {e} # {0}
    BY <2>1
  <2>3. a[e] = TRUE /\ d[e] = FALSE
    BY <1>3, <1>6, <2>1
  <2>4. /\ A = IF kind = "double" THEN a ELSE <<a[e]>>
        /\ D = IF kind = "double" THEN d ELSE <<d[e]>>
    BY <1>7 DEF NumberOf
  <2>5. kind # "double" => DOMAIN A = {1} /\ A[1] = a[e] /\ D[1] = d[e]
    <3>1. /\ DOMAIN <<a[e]>> = {1} /\ <<a[e]>>[1] = a[e]
          /\ <<d[e]>>[1] = d[e]
      BY <1>2, <2>3, SingleOf, Zenon
    <3>2. QED
      BY <2>4, <3>1
  <2>6. \A i \in DOMAIN A : A[i] = TRUE /\ D[i] = FALSE
    <3>1. CASE kind = "double"
      <4>1. A = a /\ D = d /\ DOMAIN A = 1 .. 2
        BY <1>6, <2>4, <3>1
      <4>2. QED
        BY <1>3, <1>6, <3>1, <4>1
    <3>2. CASE kind # "double"
      BY <2>3, <2>5, <3>2
    <3>3. QED
      BY <3>1, <3>2
  <2> HIDE DEF A, D
  <2>7. ~ActiveDiscrete(A, D)
    BY <2>6 DEF ActiveDiscrete
  <2>8. QED
    BY <2>2, <2>6, <2>7 DEF Silent, Modest, A, D
<1>10. Telling(kind, f, p) /\ Discreet(kind, f, p)
  BY <1>9 DEF Telling, Discreet
<1>11. QED
  BY <1>7, <1>8, <1>10 DEF f

(* The invariants hold initially. *)
LEMMA InitInv ==
  ASSUME TrickInit
  PROVE  TypeInv /\ TraceInv
<1>1. /\ kind \in Kinds /\ out = <<0, 0>> /\ tape = <<>> /\ values = <<>> /\ steps = 0 /\ dg_disable = 0
      /\ flags = [c \in Cells |-> IF c = Input THEN DG_MARK_FLOAT ELSE NoFlags]
      /\ warned = FALSE /\ odd = FALSE
  BY DEF TrickInit, Init
<1>2. PICK w \in Words(InputHalves) :
        /\ \A e \in Elements : ~IsNaN(Part(w, e))
        /\ initial = w
        /\ cells = [c \in Cells |-> IF c = Input THEN InputOperand(w) ELSE Constant(<<{}, {}>>)]
  BY DEF TrickInit, Init
<1> DEFINE p == InputOperand(w)
           v == <<{}, {}>>
           q == Constant(v)
<1>3. kind \in AllKinds
  BY <1>1, HalvesAssumption
<1>4. /\ w \in Number(2) /\ (kind = "single" => w[2] = {})
      /\ v \in Number(2) /\ (kind = "single" => v[2] = {})
  <2>1. {} \in Halves
    BY DEF Halves
  <2>2. v \in [1 .. 2 -> Halves] /\ v[2] = {}
    BY <2>1, PairOf
  <2>3. w \in Number(2) /\ (kind = "single" => w[2] = {})
    BY HalvesAssumption, WordsFacts
  <2>4. QED
    BY <2>2, <2>3 DEF Number
<1>5. StateOK(Now)
  <2>1. /\ Now.out = <<0, 0>> /\ Now.tape = <<>> /\ Now.values = <<>>
        /\ Now = [out |-> <<0, 0>>, tape |-> <<>>, values |-> <<>>]
    BY <1>1 DEF Now
  <2>2. 0 \in Nat /\ 0 \in IndicesOf(Now.tape)
    BY <2>1 DEF IndicesOf, NumInputs
  <2>3. <<0, 0>> \in [1 .. 2 -> Nat] /\ <<0, 0>> \in [1 .. 2 -> IndicesOf(Now.tape)]
    BY <2>2, PairOf
  <2>4. TapeOK(Now.tape) /\ Len(Now.values) = Len(Now.tape) /\ Now \in States
    BY <2>1, <2>3 DEF TapeOK, States
  <2>5. QED
    BY <2>1, <2>3, <2>4 DEF StateOK
<1>6. Inputs = [i \in 1 .. 2 |-> NumberOf(kind, w, i)]
  BY <1>2 DEF Inputs
<1>7. /\ Assigned(Now, p) /\ p.bits = w /\ (\A e \in Elements : p.deriv[e] = {e})
      /\ Recorded(kind, Inputs, Now, p) /\ Forwarded(kind, p)
  <2>1. p = InputOperand(w)
    OBVIOUS
  <2> HIDE DEF p
  <2>2. Assigned(Now, p) /\ p.bits = w /\ (\A e \in Elements : p.deriv[e] = {e})
    BY <1>3, <1>4, <1>5, <2>1, InputTypes
  <2>3. Recorded(kind, Inputs, Now, p) /\ Forwarded(kind, p)
    BY <1>2, <1>3, <1>4, <1>5, <1>6, <2>1, InputSound
  <2>4. QED
    BY <2>2, <2>3
<1>8. /\ Assigned(Now, q) /\ Recorded(kind, Inputs, Now, q) /\ Forwarded(kind, q)
      /\ Narrowed(kind, NoFlags, q) /\ Telling(kind, NoFlags, q) /\ Discreet(kind, NoFlags, q)
  BY <1>3, <1>4, <1>5, ConstantFacts
<1> HIDE DEF p, q
<1>9. /\ DG_MARK_FLOAT \in FlagSets /\ Narrowed(kind, DG_MARK_FLOAT, p)
      /\ Telling(kind, DG_MARK_FLOAT, p) /\ Discreet(kind, DG_MARK_FLOAT, p)
  BY <1>3, <1>4, <1>7, MarkFacts
<1>10. ASSUME NEW c \in Cells
       PROVE  \/ cells[c] = p /\ flags[c] = DG_MARK_FLOAT
              \/ cells[c] = q /\ flags[c] = NoFlags
  BY <1>1, <1>2 DEF p, q
<1>11. cells = [c \in Cells |-> cells[c]] /\ flags = [c \in Cells |-> flags[c]]
  <2>1. cells = [c \in Cells |-> IF c = Input THEN p ELSE q]
    BY <1>2 DEF p, q
  <2>2. QED
    BY <1>1, <2>1
<1>12. ASSUME NEW c \in Cells PROVE Assigned(Now, cells[c]) /\ cells[c] \in Operands /\ flags[c] \in FlagSets
  BY <1>7, <1>8, <1>9, <1>10, NoFlagsType DEF Assigned
<1>13. TypeInv
  <2>1. cells \in [Cells -> Operands] /\ flags \in [Cells -> FlagSets]
    BY <1>11, <1>12
  <2>2. steps \in 0 .. MaxSteps /\ dg_disable \in Depths
    BY <1>1, BitwiseAssumption
  <2>3. warned \in BOOLEAN /\ odd \in BOOLEAN
    BY <1>1
  <2>4. QED
    BY <1>1, <1>2, <1>4, <1>5, <1>12, <2>1, <2>2, <2>3 DEF TypeInv
<1>14. ASSUME NEW c \in Cells PROVE Sound(cells[c], flags[c])
  <2>1. CASE cells[c] = p /\ flags[c] = DG_MARK_FLOAT
    BY <1>7, <1>9, <2>1 DEF Sound
  <2>2. CASE cells[c] = q /\ flags[c] = NoFlags
    BY <1>8, <2>2 DEF Sound
  <2>3. QED
    BY <1>10, <2>1, <2>2
<1>15. QED
  BY <1>1, <1>13, <1>14 DEF TraceInv

-----------------------------------------------------------------------------
(* The invariants.                                                         *)

\* What steps have in common that enter or leave a bracket, or change nothing.
OnlyBrackets ==
  /\ kind' = kind /\ cells' = cells /\ out' = out /\ tape' = tape /\ values' = values
  /\ initial' = initial /\ steps' = steps /\ flags' = flags /\ warned' = warned /\ odd' = odd
  /\ dg_disable \in Depths => dg_disable' \in Depths

LEMMA OnlyBracketsPreserve ==
  ASSUME OnlyBrackets
  PROVE  (TypeInv => TypeInv') /\ (TraceInv => TraceInv')
<1>1. /\ kind' = kind /\ cells' = cells /\ out' = out /\ tape' = tape /\ values' = values
      /\ initial' = initial /\ steps' = steps /\ flags' = flags /\ warned' = warned /\ odd' = odd
      /\ dg_disable \in Depths => dg_disable' \in Depths
  BY DEF OnlyBrackets
<1>2. Now' = Now /\ Inputs' = Inputs
  BY <1>1 DEF Now, Inputs
<1>3. TypeInv => TypeInv'
  BY <1>1, <1>2 DEF TypeInv
<1>4. TraceInv => TraceInv'
  BY <1>1, <1>2 DEF TraceInv, Sound
<1>5. QED
  BY <1>3, <1>4

LEMMA TrickStutter ==
  ASSUME UNCHANGED allVars
  PROVE  (TypeInv => TypeInv') /\ (TraceInv => TraceInv')
<1>1. OnlyBrackets
  BY DEF OnlyBrackets, allVars, vars, trickVars
<1>2. QED
  BY <1>1, OnlyBracketsPreserve

\* The request DG_DISABLE.
Bracket == \E plus, minus \in {0, 1} : DG_DISABLE(plus, minus) /\ UNCHANGED trickVars

LEMMA BracketPreserves ==
  ASSUME Bracket
  PROVE  (TypeInv => TypeInv') /\ (TraceInv => TraceInv')
<1>1. OnlyBrackets
  BY DEF OnlyBrackets, Bracket, DG_DISABLE, trickVars
<1>2. QED
  BY <1>1, OnlyBracketsPreserve

\* An operation of the program.
ProgramStep ==
  \E dst \in Cells, p \in Sources :
    \/ \E op \in Ops, q \in Sources : BitwiseOperation(op, dst, p, q)
    \/ FloatOperation(dst, p)
    \/ UnhandledOperation(dst, p)

(* The disjuncts of the next-state relation. *)
LEMMA TrickSteps ==
  ASSUME TrickNext
  PROVE  Bracket \/ ProgramStep
<1> SUFFICES ASSUME ~Bracket PROVE ProgramStep
  OBVIOUS
<1>1. PICK dst \in Cells, p \in FromVariable :
        \/ \E op \in {"and", "or", "xor"}, q \in FromVariable \cup FromConstant :
             BitwiseOperation(op, dst, p, q) \/ BitwiseOperation(op, dst, q, p)
        \/ FloatOperation(dst, p)
        \/ UnhandledOperation(dst, p)
  BY Zenon DEF TrickNext, Bracket
<1>2. p \in Sources
  BY DEF Sources
<1>3. CASE \E op \in {"and", "or", "xor"}, q \in FromVariable \cup FromConstant :
             BitwiseOperation(op, dst, p, q) \/ BitwiseOperation(op, dst, q, p)
  <2>1. PICK op \in Ops, q \in Sources : BitwiseOperation(op, dst, p, q) \/ BitwiseOperation(op, dst, q, p)
    BY <1>3, Zenon DEF Ops, Sources
  <2>2. QED
    BY <1>2, <2>1, Zenon DEF ProgramStep
<1>4. QED
  BY <1>1, <1>2, <1>3, Zenon DEF ProgramStep

LEMMA NextTypes ==
  ASSUME TypeInv, [TrickNext]_allVars
  PROVE  TypeInv'
<1>1. CASE TrickNext
  <2>1. ASSUME NEW dst \in Cells, NEW p \in Sources, NEW op \in Ops, NEW q \in Sources,
               BitwiseOperation(op, dst, p, q)
        PROVE  TypeInv'
    BY <2>1, BitwiseTypes, Zenon
  <2>2. ASSUME NEW dst \in Cells, NEW p \in Sources, FloatOperation(dst, p) PROVE TypeInv'
    BY <2>2, FloatPreserves, Zenon
  <2>3. ASSUME NEW dst \in Cells, NEW p \in Sources, UnhandledOperation(dst, p) PROVE TypeInv'
    BY <2>3, UnhandledPreserves, Zenon
  <2>4. CASE Bracket
    BY <2>4, BracketPreserves, Zenon
  <2>5. QED
    BY <1>1, <2>1, <2>2, <2>3, <2>4, TrickSteps, Zenon DEF ProgramStep
<1>2. CASE UNCHANGED allVars
  BY <1>2, TrickStutter
<1>3. QED
  BY <1>1, <1>2

LEMMA NextTrace ==
  ASSUME ~MixedFormats, TypeInv, TraceInv, [TrickNext]_allVars
  PROVE  TraceInv'
<1>1. CASE TrickNext
  <2>1. ASSUME NEW dst \in Cells, NEW p \in Sources, NEW op \in Ops, NEW q \in Sources,
               BitwiseOperation(op, dst, p, q)
        PROVE  TraceInv'
    BY <2>1, BitwiseSound, Zenon
  <2>2. ASSUME NEW dst \in Cells, NEW p \in Sources, FloatOperation(dst, p) PROVE TraceInv'
    BY <2>2, FloatPreserves, Zenon
  <2>3. ASSUME NEW dst \in Cells, NEW p \in Sources, UnhandledOperation(dst, p) PROVE TraceInv'
    BY <2>3, UnhandledPreserves, Zenon
  <2>4. CASE Bracket
    BY <2>4, BracketPreserves, Zenon
  <2>5. QED
    BY <1>1, <2>1, <2>2, <2>3, <2>4, TrickSteps, Zenon DEF ProgramStep
<1>2. CASE UNCHANGED allVars
  BY <1>2, TrickStutter
<1>3. QED
  BY <1>1, <1>2

-----------------------------------------------------------------------------
(* What the invariants imply.                                              *)

LEMMA PairsOf ==
  ASSUME NEW S, NEW w \in [1 .. 2 -> S]
  PROVE  w \in S \X S
<1>1. w = <<w[1], w[2]>> /\ w[1] \in S /\ w[2] \in S
  OBVIOUS
<1>2. QED
  BY <1>1

LEMMA TypeInvImplies ==
  ASSUME TypeInv
  PROVE  TypeOK
<1>1. StateOK(Now) /\ Now.tape = tape /\ Now.out = out /\ Now.values = values
  BY DEF TypeInv, Now
<1>2. IndicesOf(Now.tape) = Indices
  BY <1>1 DEF Indices
<1>3. /\ TapeOK(tape) /\ Len(values) = Len(tape)
      /\ out \in [1 .. 2 -> Indices]
  BY <1>1, <1>2 DEF StateOK
<1>4. out \in Indices \X Indices
  BY <1>3, PairsOf
<1>5. ASSUME NEW c \in Cells
      PROVE  /\ cells[c].bits \in Halves \X Halves
             /\ cells[c].dot \in Halves \X Halves
             /\ cells[c].idx \in Indices \X Indices
  <2>1. /\ cells[c].bits \in [1 .. 2 -> Halves] /\ cells[c].dot \in [1 .. 2 -> Halves]
        /\ cells[c].idx \in [1 .. 2 -> Indices]
    BY <1>2 DEF TypeInv, Assigned, Operands, Number
  <2>2. QED
    BY <2>1, PairsOf
<1>6. \A i \in 1 .. Len(tape) : tape[i] \in 1 .. NumInputs + i - 1
  BY <1>3 DEF TapeOK
<1>7. kind \in Kinds /\ steps \in 0 .. MaxSteps /\ dg_disable \in Depths
  BY DEF TypeInv
<1>8. QED
  BY <1>3, <1>4, <1>5, <1>6, <1>7 DEF TypeOK

(* The invariants of a number of a variable. *)
LEMMA NumberInv ==
  ASSUME TypeInv, TraceInv, NEW c \in Cells, NEW e \in Elements
  PROVE  /\ Ranged(Part(cells[c].bits, e), cells[c].deriv[e])
         /\ cells[c].outside[e] =>
              Fine(Inputs, Now, Part(cells[c].bits, e), cells[c].idx[e], cells[c].deriv[e])
         /\ cells[c].forward[e] => Flows(kind, Part(cells[c].dot, e), cells[c].deriv[e])
         /\ ~warned /\ cells[c].outside[e] =>
              Silent(Part(flags[c].A, e), Part(flags[c].D, e), cells[c].deriv[e])
<1>1. /\ Recorded(kind, Inputs, Now, cells[c]) /\ Forwarded(kind, cells[c])
      /\ ~warned => Telling(kind, flags[c], cells[c])
  BY DEF TraceInv, Sound
<1>2. e \in ElementsOf(kind) /\ \A w : Part(w, e) = NumberOf(kind, w, e)
  BY OfKind
<1>3. QED
  BY <1>1, <1>2 DEF Recorded, Forwarded, Telling

LEMMA RecordedImplies ==
  ASSUME TypeInv, TraceInv
  PROVE  RecordedDerivative /\ RecordedValue
<1>1. ASSUME NEW c \in Cells, NEW e \in Elements, cells[c].deriv[e] # {}, cells[c].outside[e]
      PROVE  /\ Along(tape)[cells[c].idx[e]] \in cells[c].deriv[e]
             /\ cells[c].idx[e] # 0 =>
                  SameNumber(ValueOf(values, cells[c].idx[e]), Part(cells[c].bits, e))
  <2> DEFINE i == cells[c].idx[e]
             D == cells[c].deriv[e]
             s == Part(cells[c].bits, e)
  <2>1. Fine(Inputs, Now, s, i, D) /\ D # {}
    BY <1>1, NumberInv
  <2>2. Now.tape = tape /\ Now.values = values /\ StateOK(Now)
    BY DEF Now, TypeInv
  <2> HIDE DEF i, D, s
  <2>3. /\ Along(tape)[i] \in D /\ i \in IndicesOf(tape)
        /\ i # 0 => SameNumber(RecordedAs(Inputs, values, i), s)
    BY <2>1, <2>2 DEF Fine
  <2>4. i \in Nat
    BY <2>2, <2>3 DEF IndicesOf, NumInputs, StateOK, States
  <2>5. i # 0 => RecordedAs(Inputs, values, i) = ValueOf(values, i)
    <3>1. CASE i \in 1 .. 2
      <4>1. Inputs[i] = Part(initial, i)
        BY <3>1, OfKind DEF Inputs
      <4>2. QED
        BY <3>1, <4>1 DEF RecordedAs, ValueOf, NumInputs
    <3>2. CASE i > 2
      BY <3>2, <2>4 DEF RecordedAs, ValueOf, NumInputs
    <3>3. QED
      BY <2>4, <3>1, <3>2
  <2>6. QED
    BY <2>3, <2>5 DEF i, D, s
<1>2. QED
  BY <1>1 DEF RecordedDerivative, RecordedValue

LEMMA ForwardImplies ==
  ASSUME TypeInv, TraceInv
  PROVE  ForwardDerivative
<1>1. ASSUME NEW c \in Cells, NEW e \in Elements, cells[c].deriv[e] # {}, cells[c].forward[e]
      PROVE  \E v \in cells[c].deriv[e] :
               CASE v = 0 -> IsZero(Part(cells[c].dot, e))
                 [] v > 0 -> Part(cells[c].dot, e) = Seed(v)
                 [] v < 0 -> Part(cells[c].dot, e) = Negate(Seed(-v))
  <2> DEFINE D == cells[c].deriv[e]
             d == Part(cells[c].dot, e)
  <2>1. Flows(kind, d, D) /\ D # {}
    BY <1>1, NumberInv
  <2>2. Ranged(Part(cells[c].bits, e), D)
    BY NumberInv
  <2>3. D \subseteq -2 .. 2
    BY <2>2 DEF Ranged
  <2> HIDE DEF D, d
  <2>4. PICK v \in D : Matches(kind, v, d)
    BY <2>1 DEF Flows
  <2>5. v \in Int /\ \A i : Seed(i) = SeedOf(kind, i)
    BY <2>3 DEF Seed, SeedOf
  <2>6. /\ v = 0 => IsZero(d)
        /\ v > 0 => d = Seed(v)
        /\ v < 0 => d = Negate(Seed(-v))
    BY <2>4, <2>5 DEF Matches
  <2>7. (CASE v = 0 -> IsZero(d)
           [] v > 0 -> d = Seed(v)
           [] v < 0 -> d = Negate(Seed(-v)))
    <3>1. v = 0 \/ v > 0 \/ v < 0
      BY <2>5
    <3>2. QED
      BY ONLY <2>6, <3>1, Zenon
  <2>8. QED
    BY <2>7, Zenon DEF D, d
<1>2. QED
  BY <1>1, Zenon DEF ForwardDerivative

LEMMA FlagsImply ==
  ASSUME TypeInv, TraceInv
  PROVE  SilenceMeansKnown /\ WarnsOfTricksOnly
<1>1. ASSUME ~warned, NEW c \in Cells, NEW e \in Elements, cells[c].outside[e]
      PROVE  /\ Suspect(c, e) \/ cells[c].deriv[e] # {}
             /\ Active(c, e) \/ cells[c].deriv[e] = {0}
  <2> DEFINE A == Part(flags[c].A, e)
             D == Part(flags[c].D, e)
             dv == cells[c].deriv[e]
  <2>1. Silent(A, D, dv)
    BY <1>1, NumberInv
  <2>2. 1 \in DOMAIN A
    <3>1. flags[c].A \in Booleans(2) /\ DOMAIN <<flags[c].A[e]>> = {1}
      <4>1. flags[c].A \in Booleans(2)
        BY DEF TypeInv, FlagSets
      <4>2. e \in 1 .. 2
        BY OfKind
      <4>3. flags[c].A[e] \in BOOLEAN
        BY <4>1, <4>2 DEF Booleans
      <4>4. QED
        BY <4>1, <4>3, SingleOf, Zenon
    <3>2. QED
      BY <3>1 DEF Part, Booleans
  <2> HIDE DEF A, D, dv
  <2>3. (dv = {0} \/ Some(A)) /\ (ActiveDiscrete(A, D) \/ dv # {})
    BY <2>1, <2>2 DEF Silent, Some
  <2>4. QED
    BY <2>3 DEF Suspect, Active, A, D, dv
<1>2. WarnsOfTricksOnly
  BY DEF TypeInv, TraceInv, WarnsOfTricksOnly
<1>3. QED
  BY <1>1, <1>2 DEF SilenceMeansKnown

-----------------------------------------------------------------------------
(* The theorems.                                                           *)

(***************************************************************************)
(* TrickFinder, TypeOK: after any number of operations, on words and masks *)
(* of any formats, dg_bar_bitwise_out and the shadow of every variable     *)
(* hold indices that tapeAddStatement has assigned, each statement of the  *)
(* tape refers to an earlier index, and every statement has its value.     *)
(***************************************************************************)
THEOREM TrickTypes == TrickSpec => []TypeOK
<1>1. TrickInit => TypeInv
  BY InitInv
<1>2. TypeInv /\ [TrickNext]_allVars => TypeInv'
  BY NextTypes
<1>3. TypeInv => TypeOK
  BY TypeInvImplies
<1>4. QED
  BY <1>1, <1>2, <1>3, PTL DEF TrickSpec

(* The inductive invariant, for programs that do not mix formats. *)
LEMMA TrickInductive ==
  ASSUME ~MixedFormats
  PROVE  TrickSpec => [](TypeInv /\ TraceInv)
<1>1. TrickInit => TypeInv /\ TraceInv
  BY InitInv
<1>2. TypeInv /\ TraceInv /\ [TrickNext]_allVars => (TypeInv /\ TraceInv)'
  BY NextTypes, NextTrace
<1>3. QED
  BY <1>1, <1>2, PTL DEF TrickSpec

(***************************************************************************)
(* TrickFinder, RecordedDerivative: if no mask is read in another format   *)
(* than the operand's, then the index that dg_bar_bitwise.c and Iop_Neg    *)
(* leave for a number leads, along the statements on the tape, to the      *)
(* number's derivative, for floats, doubles and pairs of floats of any     *)
(* width and any number of operations and of brackets of DG_DISABLE,       *)
(* unless an operation in a bracket has led to the number; a stale index   *)
(* in dg_bar_bitwise_out never reaches a number.                           *)
(***************************************************************************)
THEOREM TrickRecordedDerivative ==
  ASSUME ~MixedFormats
  PROVE  TrickSpec => []RecordedDerivative
<1>1. TypeInv /\ TraceInv => RecordedDerivative
  BY RecordedImplies
<1>2. QED
  BY <1>1, TrickInductive, PTL

(***************************************************************************)
(* TrickFinder, RecordedValue: under the same condition, the value that    *)
(* --record-values=yes stores under the index of a number is the number,   *)
(* unless an operation in a bracket has led to it.                         *)
(***************************************************************************)
THEOREM TrickRecordedValue ==
  ASSUME ~MixedFormats
  PROVE  TrickSpec => []RecordedValue
<1>1. TypeInv /\ TraceInv => RecordedValue
  BY RecordedImplies
<1>2. QED
  BY <1>1, TrickInductive, PTL

(***************************************************************************)
(* TrickFinder, ForwardDerivative: under the same condition, the dot value *)
(* that dg_dot_bitwise.c and Iop_Neg compute is the number's derivative    *)
(* (one of the two at a kink), wherever forward mode is expected to        *)
(* follow, in brackets and outside of them.                                *)
(***************************************************************************)
THEOREM TrickForwardDerivative ==
  ASSUME ~MixedFormats
  PROVE  TrickSpec => []ForwardDerivative
<1>1. TypeInv /\ TraceInv => ForwardDerivative
  BY ForwardImplies
<1>2. QED
  BY <1>1, TrickInductive, PTL

(***************************************************************************)
(* TrickFinder, SilenceMeansKnown: under the same condition, the finder    *)
(* misses nothing that happens outside of the brackets of DG_DISABLE, in   *)
(* which it is silent: as long as it has not warned, a number whose        *)
(* derivative the other modes lose carries flags that make its next        *)
(* floating-point use warn, and a number that depends on an input is       *)
(* flagged as active, whatever the brackets have done to other numbers.    *)
(***************************************************************************)
THEOREM TrickSilenceMeansKnown ==
  ASSUME ~MixedFormats
  PROVE  TrickSpec => []SilenceMeansKnown
<1>1. TypeInv /\ TraceInv => SilenceMeansKnown
  BY FlagsImply
<1>2. QED
  BY <1>1, TrickInductive, PTL

(***************************************************************************)
(* TrickFinder, WarnsOfTricksOnly: under the same condition, absolute      *)
(* values, changes of sign and moves alone never make the finder warn,     *)
(* whichever of them are done in a bracket.                                *)
(***************************************************************************)
THEOREM TrickWarnsOfTricksOnly ==
  ASSUME ~MixedFormats
  PROVE  TrickSpec => []WarnsOfTricksOnly
<1>1. TypeInv /\ TraceInv => WarnsOfTricksOnly
  BY FlagsImply
<1>2. QED
  BY <1>1, TrickInductive, PTL
=============================================================================
