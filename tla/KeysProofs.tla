------------------------------ MODULE KeysProofs ------------------------------
(***************************************************************************)
(* Proof that the keys of the queue are decoded to what was encoded, that  *)
(* no key replaces another, and that their order as bytes is that of the   *)
(* numbers in them, for any radix, width, separator and names.             *)
(***************************************************************************)
EXTENDS QueueKeys, SequenceTheorems, WellFoundedInduction, TLAPS

-----------------------------------------------------------------------------
(* Numbers and recursive functions *)

LEMMA Least ==
    ASSUME NEW T, T \subseteq Nat, T # {}
    PROVE  \E x \in T : \A y \in T : x =< y
<1>1. PICK x \in T : \A y \in T : <<y, x>> \notin OpToRel(<, Nat)
  BY NatLessThanWellFounded, WFMin, Zenon
<1>2. ASSUME NEW y \in T PROVE x =< y
  <2>1. x \in Nat /\ y \in Nat
    OBVIOUS
  <2>2. ~(y < x)
    BY <1>1, <2>1, Zenon DEF OpToRel
  <2>. QED  BY <2>1, <2>2
<1>. QED  BY <1>2

LEMMA Division ==
    ASSUME NEW a \in Nat, NEW b \in Nat \ {0}
    PROVE  /\ a \div b \in Nat /\ a % b \in 0..(b - 1)
           /\ a = b * (a \div b) + (a % b)
OBVIOUS

LEMMA DivisionByOne ==
    ASSUME NEW a \in Nat
    PROVE  a \div 1 = a
OBVIOUS

LEMMA DivisionOfLess ==
    ASSUME NEW b \in Nat, NEW a \in 0..(b - 1)
    PROVE  a \div b = 0
OBVIOUS

LEMMA DivisionTwice ==
    ASSUME NEW a \in Nat, NEW b \in Nat \ {0}, NEW c \in Nat \ {0}
    PROVE  a \div (c * b) = (a \div b) \div c
OBVIOUS

LEMMA DivisionMonotonic ==
    ASSUME NEW a \in Nat, NEW c \in Nat, NEW b \in Nat \ {0}, a =< c
    PROVE  a \div b =< c \div b
OBVIOUS

Recurs(g, S, first, next, m) ==
    /\ g \in [0..m -> S] /\ g[0] = first
    /\ \A n \in 1..m : g[n] = next[n][g[n - 1]]

(* What starts with first and goes on with next has a value at each step.  *)
LEMMA RecursionExists ==
    ASSUME NEW N \in Nat, NEW S, NEW first \in S, NEW next \in [1..N -> [S -> S]]
    PROVE  \E g : Recurs(g, S, first, next, N)
<1> DEFINE bad == {m \in 0..N : ~\E g : Recurs(g, S, first, next, m)}
<1>1. SUFFICES ASSUME bad # {} PROVE FALSE
  OBVIOUS
<1>2. bad \subseteq Nat
  OBVIOUS
<1>3. PICK m \in bad : \A l \in bad : m =< l
  <2> HIDE DEF bad
  <2>. QED  BY <1>1, <1>2, Least
<1>4. m \in 0..N /\ ~\E g : Recurs(g, S, first, next, m)
  OBVIOUS
<1>5. m # 0
  <2> SUFFICES ASSUME m = 0 PROVE FALSE
    OBVIOUS
  <2>1. Recurs([n \in 0..m |-> first], S, first, next, m)
    BY DEF Recurs
  <2>. QED  BY <1>4, <2>1
<1>6. m - 1 \in 0..N /\ m \in 1..N /\ ~(m =< m - 1)
  BY <1>4, <1>5
<1>7. PICK g : Recurs(g, S, first, next, m - 1)
  BY <1>3, <1>6
<1> DEFINE h == [n \in 0..m |-> IF n = m THEN next[m][g[m - 1]] ELSE g[n]]
<1>8. g \in [0..(m - 1) -> S] /\ g[m - 1] \in S /\ g[0] = first
  BY <1>6, <1>7 DEF Recurs
<1>9. h \in [0..m -> S]
  <2>1. next[m][g[m - 1]] \in S
    BY <1>6, <1>8
  <2>2. \A n \in 0..m : n = m \/ n \in 0..(m - 1)
    BY <1>6
  <2>. QED  BY <1>8, <2>1, <2>2
<1>10. h[0] = first
  BY <1>5, <1>6, <1>8
<1>11. ASSUME NEW n \in 1..m PROVE h[n] = next[n][h[n - 1]]
  <2>1. n \in 0..m /\ n - 1 \in 0..m /\ n - 1 # m /\ h[n - 1] = g[n - 1]
    BY <1>6
  <2>2. CASE n = m
    BY <2>1, <2>2
  <2>3. CASE n # m
    <3>1. n \in 1..(m - 1)
      BY <1>6, <2>3
    <3>2. g[n] = next[n][g[n - 1]]
      BY <1>7, <3>1 DEF Recurs
    <3>. QED  BY <2>1, <2>3, <3>2
  <2>. QED  BY <2>2, <2>3
<1>12. Recurs(h, S, first, next, m)
  <2> HIDE DEF h
  <2>. QED  BY <1>9, <1>10, <1>11 DEF Recurs
<1>. QED  BY <1>4, <1>12

-----------------------------------------------------------------------------
(* Numbers of fixed width *)

LEMMA Bytes ==
    /\ Radix \in Nat \ {0} /\ Width \in Nat /\ Slash \in Byte /\ Byte \subseteq Nat
    /\ Byte = 0..(Radix - 1)
BY QueueKeysAssumption DEF Byte

LEMMA Powers ==
    /\ Power \in [0..Width -> Nat \ {0}] /\ Power[0] = 1
    /\ \A n \in 1..Width : Power[n] = Radix * Power[n - 1]
<1> DEFINE Positive == Nat \ {0}
           next == [n \in 1..Width |-> [x \in Positive |-> Radix * x]]
           Of(g) == [n \in 0..Width |-> IF n = 0 THEN 1 ELSE Radix * g[n - 1]]
<1>1. Radix \in Positive /\ Width \in Nat /\ 1 \in Positive
  BY Bytes
<1>2. next \in [1..Width -> [Positive -> Positive]]
  BY <1>1
<1>3. PICK g : Recurs(g, Positive, 1, next, Width)
  <2> HIDE DEF next, Positive
  <2>. QED  BY <1>1, <1>2, RecursionExists
<1>4. g \in [0..Width -> Positive] /\ g[0] = 1
  BY <1>3 DEF Recurs
<1>5. \A n \in 1..Width : n - 1 \in 0..Width /\ n \in 0..Width /\ n # 0
  BY <1>1
<1>6. \A n \in 1..Width : g[n] = Radix * g[n - 1]
  BY <1>3, <1>4, <1>5 DEF Recurs
<1>7. g = Of(g)
  <2>1. g = [n \in 0..Width |-> g[n]]
    BY <1>4
  <2>2. \A n \in 0..Width : n = 0 \/ n \in 1..Width
    BY <1>1
  <2>3. \A n \in 0..Width : g[n] = IF n = 0 THEN 1 ELSE Radix * g[n - 1]
    BY <1>4, <1>6, <2>2
  <2>. QED  BY <2>1, <2>3
<1>8. Power = CHOOSE f : f = Of(f)
  BY DEF Power
<1>9. Power = Of(Power)
  <2> HIDE DEF Of
  <2>. QED  BY <1>7, <1>8
<1>10. Power[0] = 1
  BY <1>1, <1>9
<1>11. \A n \in 1..Width : Power[n] = Radix * Power[n - 1]
  BY <1>5, <1>9
<1> DEFINE bad == {n \in 0..Width : Power[n] \notin Positive}
<1>12. bad = {}
  <2> SUFFICES ASSUME bad # {} PROVE FALSE
    OBVIOUS
  <2>1. bad \subseteq Nat
    OBVIOUS
  <2>2. PICK n \in bad : \A l \in bad : n =< l
    <3> HIDE DEF bad
    <3>. QED  BY <2>1, Least
  <2>3. n \in 0..Width /\ Power[n] \notin Positive
    OBVIOUS
  <2>4. n # 0
    BY <1>1, <1>10, <2>3
  <2>5. n \in 1..Width /\ n - 1 \in 0..Width /\ ~(n =< n - 1)
    BY <1>1, <2>3, <2>4
  <2>6. Power[n - 1] \in Positive
    BY <2>2, <2>5
  <2>. QED  BY <1>1, <1>11, <2>3, <2>5, <2>6
<1>13. Power = [n \in 0..Width |-> Power[n]]
  BY <1>9
<1>. QED  BY <1>10, <1>11, <1>12, <1>13

(* The numbers Width bytes can hold. *)
Words == 0..(Modulus - 1)

LEMMA Moduli ==
    /\ Modulus \in Nat \ {0} /\ Half \in Nat /\ 2 * Half =< Modulus
    /\ Words \subseteq Nat
    /\ TaskPriorities \subseteq -Half..(Half - 1)
    /\ ReadyTimes \subseteq Words /\ Sequences \subseteq Words
<1>1. Modulus \in Nat \ {0}
  BY Powers, Bytes DEF Modulus
<1>2. Half \in Nat /\ 2 * Half =< Modulus
  BY <1>1 DEF Half
<1>. QED  BY <1>1, <1>2, QueueKeysAssumption DEF Words

(* What is left of n when all but its first i bytes are cut off.           *)
Leading(n, i) == n \div Power[Width - i]

LEMMA Cuts ==
    ASSUME NEW n \in Words
    PROVE  /\ \A i \in 0..Width : Leading(n, i) \in Nat
           /\ Leading(n, 0) = 0 /\ Leading(n, Width) = n
           /\ \A i \in 1..Width : Leading(n, i - 1) = Leading(n, i) \div Radix
<1>1. n \in Nat /\ Width \in Nat /\ Radix \in Nat \ {0}
  BY Bytes, Moduli
<1>2. \A i \in 0..Width : Width - i \in 0..Width /\ Power[Width - i] \in Nat \ {0}
  BY <1>1, Powers
<1>3. \A i \in 0..Width : Leading(n, i) \in Nat
  BY <1>1, <1>2, Division DEF Leading
<1>4. Leading(n, 0) = 0
  BY <1>1, Moduli, DivisionOfLess DEF Leading, Words, Modulus
<1>5. Leading(n, Width) = n
  BY <1>1, Powers, DivisionByOne DEF Leading
<1>6. ASSUME NEW i \in 1..Width
      PROVE  Leading(n, i - 1) = Leading(n, i) \div Radix
  <2>1. /\ Width - (i - 1) = Width - i + 1
        /\ Width - i + 1 \in 1..Width /\ (Width - i + 1) - 1 = Width - i
        /\ i \in 0..Width
    BY <1>1
  <2>2. Power[Width - (i - 1)] = Radix * Power[Width - i]
    BY <2>1, Powers
  <2>3. n \div (Radix * Power[Width - i]) = (n \div Power[Width - i]) \div Radix
    BY <1>1, <1>2, <2>1, DivisionTwice
  <2>. QED  BY <2>2, <2>3 DEF Leading
<1>. QED  BY <1>3, <1>4, <1>5, <1>6

LEMMA EncodedWord ==
    ASSUME NEW n \in Words
    PROVE  /\ encodeU64BE(n) \in Seq(Byte) /\ Len(encodeU64BE(n)) = Width
           /\ \A i \in 1..Width : encodeU64BE(n)[i] = Leading(n, i) % Radix
<1>1. \A i \in 1..Width : encodeU64BE(n)[i] = Leading(n, i) % Radix
  BY DEF encodeU64BE, Leading
<1>2. \A i \in 1..Width : Leading(n, i) % Radix \in Byte
  <2>1. \A i \in 1..Width : Leading(n, i) \in Nat
    BY Cuts, Bytes
  <2>. QED  BY <2>1, Bytes, Division
<1>3. encodeU64BE(n) \in [1..Width -> Byte]
  BY <1>2 DEF encodeU64BE, Leading
<1>. QED  BY <1>1, <1>3, Bytes

(* Bytes that are those of n are decoded to n, whatever follows them.      *)
LEMMA DecodedWord ==
    ASSUME NEW n \in Words, NEW bytes,
           \A i \in 1..Width : bytes[i] = encodeU64BE(n)[i]
    PROVE  decodeU64BE(bytes) = n
<1> DEFINE Of(g) == [i \in 0..Width |-> IF i = 0 THEN 0 ELSE g[i - 1] * Radix + bytes[i]]
           cut == [i \in 0..Width |-> Leading(n, i)]
           value == CHOOSE g : g = Of(g)
<1>1. Width \in Nat /\ Radix \in Nat \ {0}
  BY Bytes
<1>2. \A i \in 1..Width : i \in 0..Width /\ i - 1 \in 0..Width /\ i # 0
  BY <1>1
<1>3. ASSUME NEW i \in 1..Width
      PROVE  Leading(n, i) = Leading(n, i - 1) * Radix + bytes[i]
  <2> DEFINE x == Leading(n, i)
  <2>1. x \in Nat /\ Leading(n, i - 1) = x \div Radix
    BY <1>2, Cuts
  <2>2. bytes[i] = x % Radix
    BY EncodedWord
  <2> HIDE DEF x
  <2>3. x \div Radix \in Nat /\ x = Radix * (x \div Radix) + (x % Radix)
    BY <1>1, <2>1, Division
  <2>4. x = (x \div Radix) * Radix + (x % Radix)
    BY <1>1, <2>3
  <2>. QED  BY <2>1, <2>2, <2>4 DEF x
<1>4. cut = Of(cut)
  <2>1. \A i \in 0..Width : i = 0 \/ i \in 1..Width
    BY <1>1
  <2>2. \A i \in 0..Width :
          Leading(n, i) = IF i = 0 THEN 0 ELSE Leading(n, i - 1) * Radix + bytes[i]
    BY <1>3, <2>1, Cuts
  <2>3. \A i \in 0..Width :
          Leading(n, i) = IF i = 0 THEN 0 ELSE cut[i - 1] * Radix + bytes[i]
    BY <1>2, <2>1, <2>2
  <2>. QED  BY <2>3
<1>5. value = Of(value)
  <2> HIDE DEF Of, cut
  <2>. QED  BY <1>4
<1>6. decodeU64BE(bytes) = value[Width]
  BY DEF decodeU64BE
<1> HIDE DEF value
<1> DEFINE bad == {i \in 0..Width : value[i] # Leading(n, i)}
<1>7. bad = {}
  <2> SUFFICES ASSUME bad # {} PROVE FALSE
    OBVIOUS
  <2>1. bad \subseteq Nat
    OBVIOUS
  <2>2. PICK i \in bad : \A l \in bad : i =< l
    <3> HIDE DEF bad
    <3>. QED  BY <2>1, Least
  <2>3. i \in 0..Width /\ value[i] # Leading(n, i)
    OBVIOUS
  <2>4. value[0] = 0
    BY <1>1, <1>5
  <2>5. i \in 1..Width /\ i - 1 \in 0..Width /\ ~(i =< i - 1)
    BY <1>1, <2>3, <2>4, Cuts
  <2>6. value[i - 1] = Leading(n, i - 1)
    BY <2>2, <2>5
  <2>7. value[i] = value[i - 1] * Radix + bytes[i]
    BY <1>2, <1>5, <2>5
  <2>. QED  BY <1>3, <2>3, <2>5, <2>6, <2>7
<1>. QED  BY <1>1, <1>6, <1>7, Cuts

(* Of two numbers the smaller one has the smaller byte where they differ.  *)
LEMMA WordsSorted ==
    ASSUME NEW m \in Words, NEW n \in Words, m < n
    PROVE  \E i \in 1..Width :
             /\ \A j \in 1..(i - 1) : encodeU64BE(m)[j] = encodeU64BE(n)[j]
             /\ encodeU64BE(m)[i] < encodeU64BE(n)[i]
<1>1. m \in Nat /\ n \in Nat /\ Width \in Nat /\ Radix \in Nat \ {0}
  BY Bytes, Moduli
<1> DEFINE apart == {i \in 0..Width : Leading(m, i) # Leading(n, i)}
<1>2. Width \in apart /\ 0 \notin apart /\ apart \subseteq Nat
  BY <1>1, Cuts
<1>3. PICK i \in apart : \A l \in apart : i =< l
  <2> HIDE DEF apart
  <2>. QED  BY <1>2, Least
<1>4. i \in 1..Width /\ i \in 0..Width /\ i - 1 \in 0..Width /\ ~(i =< i - 1)
  BY <1>1, <1>2, <1>3
<1>5. ASSUME NEW j \in 1..(i - 1)
      PROVE  encodeU64BE(m)[j] = encodeU64BE(n)[j]
  <2>1. j \in 1..Width /\ j \in 0..Width /\ ~(i =< j)
    BY <1>1, <1>4
  <2>2. Leading(m, j) = Leading(n, j)
    BY <1>3, <2>1
  <2>. QED  BY <2>1, <2>2, EncodedWord
<1>6. encodeU64BE(m)[i] < encodeU64BE(n)[i]
  <2> DEFINE a == Leading(m, i)
             b == Leading(n, i)
  <2>1. a \in Nat /\ b \in Nat /\ a # b
    BY <1>3, <1>4, Cuts
  <2>2. a =< b
    <3>1. Width - i \in 0..Width
      BY <1>1, <1>4
    <3>. QED  BY <1>1, <3>1, Powers, DivisionMonotonic DEF Leading
  <2>3. a \div Radix = b \div Radix
    <3>1. Leading(m, i - 1) = Leading(n, i - 1)
      BY <1>3, <1>4
    <3>. QED  BY <1>4, <3>1, Cuts
  <2>4. encodeU64BE(m)[i] = a % Radix /\ encodeU64BE(n)[i] = b % Radix
    BY <1>4, EncodedWord
  <2> HIDE DEF a, b
  <2>5. /\ a % Radix \in 0..(Radix - 1)
        /\ a = Radix * (a \div Radix) + (a % Radix)
    BY <1>1, <2>1, Division
  <2>6. /\ b % Radix \in 0..(Radix - 1)
        /\ b = Radix * (b \div Radix) + (b % Radix)
    BY <1>1, <2>1, Division
  <2>7. a % Radix < b % Radix
    BY <1>1, <2>1, <2>2, <2>3, <2>5, <2>6
  <2>. QED  BY <2>4, <2>7
<1>. QED  BY <1>4, <1>5, <1>6

(* The offset makes of the signed numbers, in their order, unsigned ones.  *)
LEMMA SignedWord ==
    ASSUME NEW p \in -Half..(Half - 1)
    PROVE  p + Half \in Words /\ encodeI64BE(p) = encodeU64BE(p + Half)
<1>1. p + Half \in Words
  BY Moduli DEF Words
<1>2. (p + Half) % Modulus = p + Half
  BY <1>1, Moduli DEF Words
<1>. QED  BY <1>1, <1>2 DEF encodeI64BE

-----------------------------------------------------------------------------
(* The parts of a key *)

LEMMA SlashSeq == <<Slash>> \in Seq(Byte) /\ Len(<<Slash>>) = 1 /\ <<Slash>>[1] = Slash
BY Bytes

LEMMA Joined ==
    ASSUME NEW s \in Seq(Byte), NEW t \in Seq(Byte)
    PROVE  /\ s \o t \in Seq(Byte) /\ Len(s) \in Nat /\ Len(t) \in Nat
           /\ Len(s \o t) = Len(s) + Len(t)
           /\ \A i \in 1..Len(s) : (s \o t)[i] = s[i]
           /\ \A i \in 1..Len(t) : (s \o t)[Len(s) + i] = t[i]
<1>1. Len(s) \in Nat /\ Len(t) \in Nat
  BY LenProperties
<1>2. /\ s \o t \in Seq(Byte) /\ Len(s \o t) = Len(s) + Len(t)
      /\ \A i \in 1..(Len(s) + Len(t)) :
           (s \o t)[i] = IF i =< Len(s) THEN s[i] ELSE t[i - Len(s)]
  BY ConcatProperties
<1>3. ASSUME NEW i \in 1..Len(s) PROVE (s \o t)[i] = s[i]
  BY <1>1, <1>2
<1>4. ASSUME NEW i \in 1..Len(t) PROVE (s \o t)[Len(s) + i] = t[i]
  <2>1. Len(s) + i \in 1..(Len(s) + Len(t)) /\ ~(Len(s) + i =< Len(s))
        /\ (Len(s) + i) - Len(s) = i
    BY <1>1
  <2>. QED  BY <1>2, <2>1
<1>. QED  BY <1>1, <1>2, <1>3, <1>4

(* A part of the key with the separator before it. *)
LEMMA Separated ==
    ASSUME NEW s \in Seq(Byte), NEW t \in Seq(Byte)
    PROVE  /\ s \o <<Slash>> \o t \in Seq(Byte)
           /\ Len(s \o <<Slash>> \o t) = Len(s) + 1 + Len(t)
           /\ \A i \in 1..Len(s) : (s \o <<Slash>> \o t)[i] = s[i]
           /\ (s \o <<Slash>> \o t)[Len(s) + 1] = Slash
           /\ \A i \in 1..Len(t) : (s \o <<Slash>> \o t)[Len(s) + 1 + i] = t[i]
<1> DEFINE u == s \o <<Slash>>
<1>1. /\ u \in Seq(Byte) /\ Len(u) = Len(s) + 1 /\ Len(s) \in Nat /\ Len(t) \in Nat
      /\ \A i \in 1..Len(s) : u[i] = s[i]
      /\ u[Len(s) + 1] = Slash
  <2>1. 1 \in 1..Len(<<Slash>>)
    BY SlashSeq
  <2>. QED  BY <2>1, Joined, SlashSeq
<1>2. /\ u \o t \in Seq(Byte) /\ Len(u \o t) = Len(u) + Len(t)
      /\ \A i \in 1..Len(u) : (u \o t)[i] = u[i]
      /\ \A i \in 1..Len(t) : (u \o t)[Len(u) + i] = t[i]
  <2> HIDE DEF u
  <2>. QED  BY <1>1, Joined
<1>3. /\ \A i \in 1..Len(s) : i \in 1..Len(u)
      /\ Len(s) + 1 \in 1..Len(u)
  BY <1>1
<1> HIDE DEF u
<1>4. /\ u \o t \in Seq(Byte) /\ Len(u \o t) = Len(s) + 1 + Len(t)
      /\ \A i \in 1..Len(s) : (u \o t)[i] = s[i]
      /\ (u \o t)[Len(s) + 1] = Slash
      /\ \A i \in 1..Len(t) : (u \o t)[Len(s) + 1 + i] = t[i]
  BY <1>1, <1>2, <1>3
<1>. QED  BY <1>4 DEF u

LEMMA KeyTyped ==
    ASSUME NEW k \in QueueKey
    PROVE  /\ k.queue \in Seq(Byte) /\ k.task \in Seq(Byte) /\ Prefix \in Seq(Byte)
           /\ \A i \in 1..Len(k.queue) : k.queue[i] # Slash
           /\ k.task # <<>> /\ Len(k.task) \in Nat \ {0}
           /\ k.priority \in -Half..(Half - 1) /\ k.priority + Half \in Words
           /\ k.readyTs \in Words /\ k.sequence \in Words
<1>1. /\ k.queue \in QueueIDs /\ k.task \in TaskIDs /\ k.priority \in TaskPriorities
      /\ k.readyTs \in ReadyTimes /\ k.sequence \in Sequences
  BY DEF QueueKey
<1>2. k.queue \in Seq(Byte) /\ k.task \in Seq(Byte) /\ Prefix \in Seq(Byte) /\ k.task # <<>>
  BY <1>1, QueueKeysAssumption
<1>3. \A i \in 1..Len(k.queue) : k.queue[i] # Slash
  BY <1>1, <1>2, LenProperties, QueueKeysAssumption
<1>4. Len(k.task) \in Nat \ {0}
  BY <1>2, EmptySeq
<1>5. k.priority \in -Half..(Half - 1) /\ k.readyTs \in Words /\ k.sequence \in Words
  BY <1>1, Moduli
<1>. QED  BY <1>2, <1>3, <1>4, <1>5, SignedWord

(* Where the n-th separator behind the name of the queue is.               *)
Mark(k, n) == Len(Prefix) + Len(k.queue) + 1 + n * (Width + 1)

LEMMA Marks ==
    ASSUME NEW k \in QueueKey
    PROVE  /\ Len(Prefix) \in Nat /\ Len(k.queue) \in Nat
           /\ Mark(k, 0) = Len(Prefix) + Len(k.queue) + 1
           /\ Mark(k, 1) = Mark(k, 0) + Width + 1
           /\ Mark(k, 2) = Mark(k, 1) + Width + 1
           /\ Mark(k, 3) = Mark(k, 2) + Width + 1
           /\ Mark(k, 0) \in Nat /\ Mark(k, 1) \in Nat /\ Mark(k, 2) \in Nat
           /\ Mark(k, 3) \in Nat /\ Mark(k, 3) = Mark(k, 0) + Numbers
<1>1. Len(Prefix) \in Nat /\ Len(k.queue) \in Nat
  BY KeyTyped, LenProperties
<1>2. /\ 0 * (Width + 1) = 0 /\ 1 * (Width + 1) = Width + 1
      /\ 2 * (Width + 1) = Width + 1 + Width + 1
      /\ 3 * (Width + 1) = Width + 1 + Width + 1 + Width + 1 /\ Width \in Nat
  BY Bytes
<1> DEFINE start == Len(Prefix) + Len(k.queue) + 1
<1>3. /\ Mark(k, 0) = start + 0 * (Width + 1) /\ Mark(k, 1) = start + 1 * (Width + 1)
      /\ Mark(k, 2) = start + 2 * (Width + 1) /\ Mark(k, 3) = start + 3 * (Width + 1)
      /\ Numbers = 3 * (Width + 1) /\ start \in Nat
  BY <1>1 DEF Mark, Numbers
<1> HIDE DEF start
<1>4. /\ Mark(k, 0) = start
      /\ Mark(k, 1) = Mark(k, 0) + Width + 1
      /\ Mark(k, 2) = Mark(k, 1) + Width + 1
      /\ Mark(k, 3) = Mark(k, 2) + Width + 1
      /\ Mark(k, 0) \in Nat /\ Mark(k, 1) \in Nat /\ Mark(k, 2) \in Nat
      /\ Mark(k, 3) \in Nat /\ Mark(k, 3) = Mark(k, 0) + Numbers
  BY <1>2, <1>3
<1>. QED  BY <1>1, <1>4 DEF start

Parts(k, d) ==
    /\ d \in Seq(Byte) /\ Len(d) = Mark(k, 3) + Len(k.task)
    /\ \A i \in 1..Len(Prefix) : d[i] = Prefix[i]
    /\ \A i \in 1..Len(k.queue) : d[Len(Prefix) + i] = k.queue[i]
    /\ d[Mark(k, 0)] = Slash /\ d[Mark(k, 1)] = Slash
    /\ d[Mark(k, 2)] = Slash /\ d[Mark(k, 3)] = Slash
    /\ \A i \in 1..Width :
         /\ d[Mark(k, 0) + i] = encodeU64BE(k.priority + Half)[i]
         /\ d[Mark(k, 1) + i] = encodeU64BE(k.readyTs)[i]
         /\ d[Mark(k, 2) + i] = encodeU64BE(k.sequence)[i]
    /\ \A i \in 1..Len(k.task) : d[Mark(k, 3) + i] = k.task[i]

LEMMA EncodedParts ==
    ASSUME NEW k \in QueueKey
    PROVE  Parts(k, Encode(k))
<1> DEFINE p == encodeU64BE(k.priority + Half)
           r == encodeU64BE(k.readyTs)
           q == encodeU64BE(k.sequence)
           a == Prefix \o k.queue
           b == a \o <<Slash>> \o p
           c == b \o <<Slash>> \o r
           e == c \o <<Slash>> \o q
           d == e \o <<Slash>> \o k.task
<1>1. Encode(k) = d
  BY KeyTyped, SignedWord DEF Encode
<1>2. /\ p \in Seq(Byte) /\ Len(p) = Width /\ r \in Seq(Byte) /\ Len(r) = Width
      /\ q \in Seq(Byte) /\ Len(q) = Width
  BY KeyTyped, EncodedWord
<1> HIDE DEF p, r, q
<1>3. /\ a \in Seq(Byte) /\ Len(a) = Len(Prefix) + Len(k.queue)
      /\ \A i \in 1..Len(Prefix) : a[i] = Prefix[i]
      /\ \A i \in 1..Len(k.queue) : a[Len(Prefix) + i] = k.queue[i]
  BY KeyTyped, Joined
<1> HIDE DEF a
<1>4. /\ b \in Seq(Byte) /\ Len(b) = Len(a) + 1 + Width
      /\ \A i \in 1..Len(a) : b[i] = a[i]
      /\ b[Len(a) + 1] = Slash
      /\ \A i \in 1..Width : b[Len(a) + 1 + i] = p[i]
  <2>1. /\ b \in Seq(Byte) /\ Len(b) = Len(a) + 1 + Len(p)
        /\ \A i \in 1..Len(a) : b[i] = a[i]
        /\ b[Len(a) + 1] = Slash
        /\ \A i \in 1..Len(p) : b[Len(a) + 1 + i] = p[i]
    BY <1>2, <1>3, Separated
  <2> HIDE DEF b
  <2>. QED  BY <1>2, <2>1
<1> HIDE DEF b
<1>5. /\ c \in Seq(Byte) /\ Len(c) = Len(b) + 1 + Width
      /\ \A i \in 1..Len(b) : c[i] = b[i]
      /\ c[Len(b) + 1] = Slash
      /\ \A i \in 1..Width : c[Len(b) + 1 + i] = r[i]
  <2>1. /\ c \in Seq(Byte) /\ Len(c) = Len(b) + 1 + Len(r)
        /\ \A i \in 1..Len(b) : c[i] = b[i]
        /\ c[Len(b) + 1] = Slash
        /\ \A i \in 1..Len(r) : c[Len(b) + 1 + i] = r[i]
    BY <1>2, <1>4, Separated
  <2> HIDE DEF c
  <2>. QED  BY <1>2, <2>1
<1> HIDE DEF c
<1>6. /\ e \in Seq(Byte) /\ Len(e) = Len(c) + 1 + Width
      /\ \A i \in 1..Len(c) : e[i] = c[i]
      /\ e[Len(c) + 1] = Slash
      /\ \A i \in 1..Width : e[Len(c) + 1 + i] = q[i]
  <2>1. /\ e \in Seq(Byte) /\ Len(e) = Len(c) + 1 + Len(q)
        /\ \A i \in 1..Len(c) : e[i] = c[i]
        /\ e[Len(c) + 1] = Slash
        /\ \A i \in 1..Len(q) : e[Len(c) + 1 + i] = q[i]
    BY ZenonT(40), <1>2, <1>5, Separated
  <2> HIDE DEF e
  <2>. QED  BY <1>2, <2>1
<1> HIDE DEF e
<1>7. /\ d \in Seq(Byte) /\ Len(d) = Len(e) + 1 + Len(k.task)
      /\ \A i \in 1..Len(e) : d[i] = e[i]
      /\ d[Len(e) + 1] = Slash
      /\ \A i \in 1..Len(k.task) : d[Len(e) + 1 + i] = k.task[i]
  BY ZenonT(40), <1>6, KeyTyped, Separated
<1> HIDE DEF d
<1>8. /\ Len(a) + 1 = Mark(k, 0) /\ Len(b) + 1 = Mark(k, 1)
      /\ Len(c) + 1 = Mark(k, 2) /\ Len(e) + 1 = Mark(k, 3)
      /\ Len(a) \in Nat /\ Len(b) \in Nat /\ Len(c) \in Nat /\ Len(e) \in Nat
      /\ Width \in Nat
  <2>1. Width \in Nat /\ Len(a) \in Nat /\ Len(a) + 1 = Mark(k, 0)
    <3>1. /\ Len(Prefix) \in Nat /\ Len(k.queue) \in Nat
          /\ Mark(k, 0) = Len(Prefix) + Len(k.queue) + 1
      BY Marks
    <3>2. Len(a) = Len(Prefix) + Len(k.queue)
      BY <1>3
    <3>. QED  BY <3>1, <3>2, Bytes
  <2>2. Len(b) \in Nat /\ Len(b) + 1 = Mark(k, 1)
    BY <1>4, <2>1, Marks
  <2>3. Len(c) \in Nat /\ Len(c) + 1 = Mark(k, 2)
    BY <1>5, <2>1, <2>2, Marks
  <2>4. Len(e) \in Nat /\ Len(e) + 1 = Mark(k, 3)
    BY <1>6, <2>1, <2>3, Marks
  <2>. QED  BY <2>1, <2>2, <2>3, <2>4
<1>9. \A i \in 1..Len(c) : d[i] = c[i] /\ i \in 1..Len(e)
  <2>1. \A i \in 1..Len(c) : i \in 1..Len(e)
    BY <1>6, <1>8
  <2>. QED  BY <1>6, <1>7, <2>1
<1>10. \A i \in 1..Len(b) : d[i] = b[i] /\ i \in 1..Len(c)
  BY <1>5, <1>8, <1>9
<1>11. \A i \in 1..Len(a) : d[i] = a[i] /\ i \in 1..Len(b)
  BY <1>4, <1>8, <1>10
<1>12. /\ \A i \in 1..Len(Prefix) : i \in 1..Len(a)
       /\ \A i \in 1..Len(k.queue) : Len(Prefix) + i \in 1..Len(a)
  BY <1>3, Marks
<1>13. /\ \A i \in 1..Len(Prefix) : d[i] = Prefix[i]
       /\ \A i \in 1..Len(k.queue) : d[Len(Prefix) + i] = k.queue[i]
  BY <1>3, <1>11, <1>12
<1>14. /\ Len(a) + 1 \in 1..Len(b) /\ \A i \in 1..Width : Len(a) + 1 + i \in 1..Len(b)
  BY <1>4, <1>8
<1>15. /\ Len(b) + 1 \in 1..Len(c) /\ \A i \in 1..Width : Len(b) + 1 + i \in 1..Len(c)
  BY <1>5, <1>8
<1>16. /\ Len(c) + 1 \in 1..Len(e) /\ \A i \in 1..Width : Len(c) + 1 + i \in 1..Len(e)
  BY <1>6, <1>8
<1>17. d[Len(a) + 1] = Slash /\ \A i \in 1..Width : d[Len(a) + 1 + i] = p[i]
  BY <1>4, <1>10, <1>14
<1>18. d[Len(b) + 1] = Slash /\ \A i \in 1..Width : d[Len(b) + 1 + i] = r[i]
  BY <1>5, <1>9, <1>15
<1>19. d[Len(c) + 1] = Slash /\ \A i \in 1..Width : d[Len(c) + 1 + i] = q[i]
  BY <1>6, <1>7, <1>16
<1>20. Len(d) = Mark(k, 3) + Len(k.task)
  BY <1>7, <1>8
<1>21. Parts(k, d)
  BY <1>7, <1>8, <1>13, <1>17, <1>18, <1>19, <1>20 DEF Parts, p, r, q
<1>. QED  BY <1>1, <1>21

-----------------------------------------------------------------------------
(* Decoding *)

LEMMA Cut ==
    ASSUME NEW d \in Seq(Byte), NEW t \in Seq(Byte), NEW m \in Nat,
           m + Len(t) =< Len(d), \A i \in 1..Len(t) : d[m + i] = t[i]
    PROVE  SubSeq(d, m + 1, m + Len(t)) = t
<1> DEFINE n == m + Len(t)
           u == SubSeq(d, m + 1, n)
<1>1. Len(t) \in Nat /\ Len(d) \in Nat /\ m + 1 \in Int /\ n \in Int
  BY LenProperties
<1>2. \A i \in (m + 1)..n : d[i] \in Byte
  <2>1. \A i \in (m + 1)..n : i \in 1..Len(d)
    BY <1>1
  <2>. QED  BY <2>1, ElementOfSeq
<1>3. /\ u \in Seq(Byte) /\ Len(u) = IF m + 1 =< n THEN n - (m + 1) + 1 ELSE 0
      /\ \A i \in 1..(n - (m + 1) + 1) : u[i] = d[m + 1 + i - 1]
  <2> HIDE DEF n
  <2>. QED  BY <1>1, <1>2, SubSeqProperties
<1> HIDE DEF u
<1>4. Len(u) = Len(t)
  BY <1>1, <1>3
<1>5. ASSUME NEW i \in 1..Len(u) PROVE u[i] = t[i]
  <2>1. i \in 1..Len(t) /\ i \in 1..(n - (m + 1) + 1) /\ m + 1 + i - 1 = m + i
    BY <1>1, <1>4
  <2>. QED  BY <1>3, <2>1
<1>6. u = t
  BY <1>3, <1>4, <1>5, SeqEqual
<1>. QED  BY <1>6 DEF u

(* The name of the queue ends at the first separator with room behind it:  *)
(* it has none itself.                                                     *)
LEMMA NameEnds ==
    ASSUME NEW k \in QueueKey, NEW d, Parts(k, d)
    PROVE  Boundaries(d) # {} /\ Min(Boundaries(d)) = Mark(k, 0)
<1> DEFINE end == Mark(k, 0)
<1>1. /\ Len(Prefix) \in Nat /\ Len(k.queue) \in Nat /\ end \in Nat /\ Numbers \in Nat
      /\ end = Len(Prefix) + Len(k.queue) + 1
      /\ Len(d) = end + Numbers + Len(k.task) /\ Len(k.task) \in Nat \ {0}
  <2>1. Numbers \in Nat
    BY Bytes DEF Numbers
  <2>. QED  BY <2>1, Marks, KeyTyped DEF Parts
<1>2. Len(d) - end >= Numbers + 1
  <2> DEFINE room == Len(k.task)
             beyond == Numbers
  <2>1. /\ end \in Nat /\ beyond \in Nat /\ room \in Nat /\ room >= 1
        /\ Len(d) = end + (beyond + room)
    BY <1>1
  <2> HIDE DEF end, room, beyond
  <2>2. Len(d) - end = beyond + room
    BY <2>1
  <2>3. beyond + room >= beyond + 1
    BY <2>1
  <2>. QED  BY <2>2, <2>3 DEF beyond
<1>3. end \in (Len(Prefix) + 1)..Len(d) /\ d[end] = Slash
  BY SMTT(30), <1>1 DEF Parts
<1>4. end \in Boundaries(d)
  BY <1>2, <1>3 DEF Boundaries, LeavesRoom
<1>5. ASSUME NEW i \in Boundaries(d) PROVE end =< i
  <2>1. i \in (Len(Prefix) + 1)..Len(d) /\ d[i] = Slash
    BY DEF Boundaries
  <2>2. SUFFICES ASSUME ~(end =< i) PROVE FALSE
    OBVIOUS
  <2>3. i - Len(Prefix) \in 1..Len(k.queue) /\ Len(Prefix) + (i - Len(Prefix)) = i
    BY <1>1, <2>1, <2>2
  <2>4. d[i] = k.queue[i - Len(Prefix)]
    BY <2>3 DEF Parts
  <2>. QED  BY <2>1, <2>3, <2>4, KeyTyped
<1> HIDE DEF end
<1>6. \A x \in Boundaries(d) : (\A y \in Boundaries(d) : x =< y) => x = end
  <2>1. \A x \in Boundaries(d) : x \in Int
    BY <1>1 DEF Boundaries
  <2>. QED  BY <1>1, <1>4, <1>5, <2>1
<1>7. Min(Boundaries(d)) = end
  BY <1>4, <1>5, <1>6 DEF Min
<1>. QED  BY <1>4, <1>7 DEF end

LEMMA DecodedKey ==
    ASSUME NEW k \in QueueKey, NEW d, Parts(k, d)
    PROVE  DecodeQueueKey(d) = k
<1> DEFINE Start(n) == Mark(k, 0) + n * (Width + 1)
           Field(n) == SubSeq(d, Start(n) + 1, Start(n) + Width)
<1>1. /\ d \in Seq(Byte) /\ Prefix \in Seq(Byte)
      /\ k.queue \in Seq(Byte) /\ k.task \in Seq(Byte)
      /\ Len(Prefix) \in Nat /\ Len(k.queue) \in Nat /\ Len(k.task) \in Nat \ {0}
      /\ Width \in Nat
  BY Marks, KeyTyped, Bytes DEF Parts
<1>2. /\ Mark(k, 0) = Len(Prefix) + Len(k.queue) + 1
      /\ Mark(k, 1) = Mark(k, 0) + Width + 1
      /\ Mark(k, 2) = Mark(k, 1) + Width + 1
      /\ Mark(k, 3) = Mark(k, 2) + Width + 1
      /\ Mark(k, 0) \in Nat /\ Mark(k, 1) \in Nat /\ Mark(k, 2) \in Nat /\ Mark(k, 3) \in Nat
      /\ Len(d) = Mark(k, 3) + Len(k.task)
  BY Marks DEF Parts
<1> DEFINE m0 == Mark(k, 0)
           m1 == Mark(k, 1)
           m2 == Mark(k, 2)
           m3 == Mark(k, 3)
           name == Len(k.queue)
           rest == Len(k.task)
           head == Len(Prefix)
           N == Len(d)
<1>3. /\ m0 = head + name + 1 /\ m1 = m0 + Width + 1 /\ m2 = m1 + Width + 1
      /\ m3 = m2 + Width + 1 /\ N = m3 + rest
      /\ m0 \in Nat /\ m1 \in Nat /\ m2 \in Nat /\ m3 \in Nat
      /\ head \in Nat /\ name \in Nat /\ rest \in Nat /\ Width \in Nat
  BY <1>1, <1>2
<1>4. /\ m1 = m0 + 1 * (Width + 1) /\ m2 = m0 + 2 * (Width + 1)
      /\ m3 = m0 + 3 * (Width + 1) /\ m0 = m0 + 0 * (Width + 1)
      /\ head =< N /\ head + name =< N /\ m0 - 1 = head + name /\ m3 + rest =< N
      /\ m0 + Width =< N /\ m1 + Width =< N /\ m2 + Width =< N
  <2> HIDE DEF m0, m1, m2, m3, name, rest, head, N
  <2>. QED  BY <1>3
<1>5. /\ Start(0) = Mark(k, 0) /\ Start(1) = Mark(k, 1)
      /\ Start(2) = Mark(k, 2) /\ Start(3) = Mark(k, 3)
  BY <1>4
<1>6. IsPrefix(Prefix, d)
  <2>1. Len(Prefix) =< Len(d) /\ 0 + Len(Prefix) = Len(Prefix)
    BY <1>1, <1>4
  <2>2. \A i \in 1..Len(Prefix) : d[0 + i] = Prefix[i] /\ Prefix[0 + i] = Prefix[i]
    BY <1>1 DEF Parts
  <2>3. SubSeq(d, 0 + 1, 0 + Len(Prefix)) = Prefix
    BY <1>1, <2>1, <2>2, Cut
  <2>4. SubSeq(Prefix, 1, Len(Prefix)) = Prefix
    BY <1>1, SubSeqFull
  <2>. QED  BY <2>1, <2>3, <2>4 DEF IsPrefix
<1>7. SubSeq(d, Len(Prefix) + 1, Mark(k, 0) - 1) = k.queue
  <2>1. Mark(k, 0) - 1 = Len(Prefix) + Len(k.queue) /\ Len(Prefix) + Len(k.queue) =< Len(d)
    BY <1>4
  <2>2. \A i \in 1..Len(k.queue) : d[Len(Prefix) + i] = k.queue[i]
    BY DEF Parts
  <2>. QED  BY <1>1, <2>1, <2>2, Cut
<1>8. SubSeq(d, Mark(k, 3) + 1, Len(d)) = k.task
  <2>1. \A i \in 1..Len(k.task) : d[Mark(k, 3) + i] = k.task[i]
    BY DEF Parts
  <2>2. Mark(k, 3) + Len(k.task) =< Len(d)
    BY <1>4
  <2>. QED  BY ZenonT(40), <1>1, <1>2, <2>1, <2>2, Cut
<1>9. ASSUME NEW m \in Nat, m + Width =< Len(d), NEW n \in Words,
             \A i \in 1..Width : d[m + i] = encodeU64BE(n)[i]
      PROVE  decodeU64BE(SubSeq(d, m + 1, m + Width)) = n
  <2>1. encodeU64BE(n) \in Seq(Byte) /\ Len(encodeU64BE(n)) = Width
    BY EncodedWord
  <2>2. SubSeq(d, m + 1, m + Width) = encodeU64BE(n)
    BY <1>1, <1>9, <2>1, Cut
  <2>. QED  BY <2>2, DecodedWord
<1>10. /\ Mark(k, 0) + Width =< Len(d) /\ Mark(k, 1) + Width =< Len(d)
      /\ Mark(k, 2) + Width =< Len(d)
  BY <1>4
<1>11. decodeU64BE(Field(0)) = k.priority + Half
  <2>1. \A i \in 1..Width : d[Mark(k, 0) + i] = encodeU64BE(k.priority + Half)[i]
    BY DEF Parts
  <2>2. k.priority + Half \in Words
    BY KeyTyped
  <2>3. decodeU64BE(SubSeq(d, Mark(k, 0) + 1, Mark(k, 0) + Width)) = k.priority + Half
    BY <1>2, <1>9, <1>10, <2>1, <2>2
  <2>. QED  BY <1>5, <2>3
<1>12. decodeU64BE(Field(1)) = k.readyTs
  <2>1. \A i \in 1..Width : d[Mark(k, 1) + i] = encodeU64BE(k.readyTs)[i]
    BY DEF Parts
  <2>2. k.readyTs \in Words
    BY KeyTyped
  <2>3. decodeU64BE(SubSeq(d, Mark(k, 1) + 1, Mark(k, 1) + Width)) = k.readyTs
    BY <1>2, <1>9, <1>10, <2>1, <2>2
  <2>. QED  BY <1>5, <2>3
<1>13. decodeU64BE(Field(2)) = k.sequence
  <2>1. \A i \in 1..Width : d[Mark(k, 2) + i] = encodeU64BE(k.sequence)[i]
    BY DEF Parts
  <2>2. k.sequence \in Words
    BY KeyTyped
  <2>3. decodeU64BE(SubSeq(d, Mark(k, 2) + 1, Mark(k, 2) + Width)) = k.sequence
    BY <1>2, <1>9, <1>10, <2>1, <2>2
  <2>. QED  BY <1>5, <2>3
<1>14. decodeI64BE(Field(0)) = k.priority
  <2>1. k.priority \in Int /\ Half \in Int
    BY KeyTyped, Moduli
  <2>. QED  BY <1>11, <2>1 DEF decodeI64BE
<1>15. \A n \in 1..3 : d[Start(n)] = Slash
  <2>1. \A n \in 1..3 : n = 1 \/ n = 2 \/ n = 3
    OBVIOUS
  <2>. QED  BY <1>5, <2>1 DEF Parts
<1>16. SubSeq(d, Start(3) + 1, Len(d)) = k.task
  BY <1>5, <1>8
<1>17. DecodeAfter(d, Mark(k, 0)) =
         IF \E n \in 1..3 : d[Start(n)] # Slash THEN InvalidKey
         ELSE [queue    |-> SubSeq(d, Len(Prefix) + 1, Mark(k, 0) - 1),
               priority |-> decodeI64BE(Field(0)),
               readyTs  |-> decodeU64BE(Field(1)),
               sequence |-> decodeU64BE(Field(2)),
               task     |-> SubSeq(d, Start(3) + 1, Len(d))]
  BY DEF DecodeAfter
<1>18. DecodeQueueKey(d) = DecodeAfter(d, Mark(k, 0))
  BY <1>6, NameEnds DEF DecodeQueueKey
<1> HIDE DEF Start, Field
<1>19. DecodeAfter(d, Mark(k, 0)) =
         [queue |-> k.queue, priority |-> k.priority, readyTs |-> k.readyTs,
          sequence |-> k.sequence, task |-> k.task]
  BY <1>7, <1>12, <1>13, <1>14, <1>15, <1>16, <1>17
<1>20. k = [queue |-> k.queue, priority |-> k.priority, readyTs |-> k.readyTs,
            sequence |-> k.sequence, task |-> k.task]
  BY DEF QueueKey
<1>. QED  BY <1>18, <1>19, <1>20

(* A key is decoded to what was encoded, so no two tasks share a key       *)
(* (Encode, queue.go:123, and DecodeQueueKey, queue.go:391).                *)
THEOREM KeysDistinct ==
    ASSUME NEW a \in QueueKey, NEW b \in QueueKey
    PROVE  /\ DecodeQueueKey(Encode(a)) = a
           /\ Encode(a) = Encode(b) => a = b
<1>1. DecodeQueueKey(Encode(a)) = a /\ DecodeQueueKey(Encode(b)) = b
  BY EncodedParts, DecodedKey
<1>. QED  BY <1>1

-----------------------------------------------------------------------------
(* The order of a scan *)

(* Where s and t part, s has ended or has the smaller element.             *)
PartAt(s, t, i) ==
    /\ i \in 1..Len(t) /\ i =< Len(s) + 1
    /\ \A j \in 1..(i - 1) : s[j] = t[j]
    /\ i = Len(s) + 1 \/ s[i] < t[i]

LEMMA PrecedesWherePart ==
    ASSUME NEW s, NEW t, Len(s) \in Nat, Len(t) \in Nat
    PROVE  Precedes(s, t) <=> \E i \in Nat : PartAt(s, t, i)
<1> DEFINE a == Len(s) + 1
           b == Len(t)
           m == Min({a, b})
<1>1. a \in Nat /\ b \in Nat
  OBVIOUS
<1>2. m = IF a =< b THEN a ELSE b
  <2> HIDE DEF a, b
  <2>1. \A x \in {a, b} : (\A y \in {a, b} : x =< y) => x = IF a =< b THEN a ELSE b
    BY <1>1
  <2>2. \E x \in {a, b} : \A y \in {a, b} : x =< y
    BY <1>1
  <2>. QED  BY <2>1, <2>2 DEF Min
<1>3. \A i : i \in 1..m <=> i \in 1..b /\ i =< a
  <2> HIDE DEF a, b, m
  <2>. QED  BY <1>1, <1>2
<1>4. Precedes(s, t) <=>
        \E i \in 1..m : (\A j \in 1..(i - 1) : s[j] = t[j]) /\ (i = Len(s) + 1 \/ s[i] < t[i])
  BY DEF Precedes
<1>5. \A i \in 1..b : i \in Nat
  BY <1>1
<1> HIDE DEF m
<1>. QED  BY <1>3, <1>4, <1>5 DEF PartAt

LEMMA PrecedesAsymmetric ==
    ASSUME NEW s \in Seq(Int), NEW t \in Seq(Int), Precedes(s, t)
    PROVE  ~Precedes(t, s)
<1>1. Len(s) \in Nat /\ Len(t) \in Nat
  BY LenProperties
<1>2. PICK i \in Nat : PartAt(s, t, i)
  BY <1>1, PrecedesWherePart
<1>3. SUFFICES ASSUME NEW j \in Nat, PartAt(t, s, j) PROVE FALSE
  BY <1>1, PrecedesWherePart
<1>4. CASE i < j
  <2>1. i \in 1..(j - 1) /\ i # Len(s) + 1
    BY <1>1, <1>2, <1>3, <1>4 DEF PartAt
  <2>2. t[i] = s[i] /\ s[i] < t[i] /\ i \in 1..Len(s)
    BY <1>1, <1>2, <1>3, <1>4, <2>1 DEF PartAt
  <2>. QED  BY <2>2, ElementOfSeq
<1>5. CASE j < i
  <2>1. j \in 1..(i - 1) /\ j # Len(t) + 1
    BY <1>1, <1>2, <1>3, <1>5 DEF PartAt
  <2>2. t[j] = s[j] /\ t[j] < s[j] /\ j \in 1..Len(t)
    BY <1>1, <1>2, <1>3, <1>5, <2>1 DEF PartAt
  <2>. QED  BY <2>2, ElementOfSeq
<1>6. CASE i = j
  <2>1. i \in 1..Len(s) /\ i \in 1..Len(t) /\ s[i] < t[i] /\ t[i] < s[i]
    BY <1>1, <1>2, <1>3, <1>6 DEF PartAt
  <2>2. s[i] \in Int /\ t[i] \in Int
    BY <2>1, ElementOfSeq
  <2>. QED  BY <2>1, <2>2
<1>. QED  BY <1>4, <1>5, <1>6

(* Which of two tasks is due first. *)
DueFirst(a, b) ==
    \/ a.priority < b.priority
    \/ a.priority = b.priority /\ a.readyTs < b.readyTs
    \/ a.priority = b.priority /\ a.readyTs = b.readyTs /\ a.sequence < b.sequence

LEMMA DueNumbers ==
    ASSUME NEW k \in QueueKey
    PROVE  /\ k.priority \in Int /\ k.readyTs \in Nat /\ k.sequence \in Nat
           /\ Due(k) \in Seq(Int) /\ Len(Due(k)) = 3
           /\ Due(k)[1] = k.priority /\ Due(k)[2] = k.readyTs /\ Due(k)[3] = k.sequence
<1>1. k.priority \in -Half..(Half - 1) /\ k.readyTs \in Words /\ k.sequence \in Words
  BY KeyTyped
<1>2. Half \in Nat /\ Words \subseteq Nat
  BY Moduli
<1>3. k.priority \in Int
  BY <1>1, <1>2
<1>4. k.readyTs \in Nat /\ k.sequence \in Nat
  BY <1>1, <1>2
<1>. QED  BY <1>3, <1>4 DEF Due

LEMMA DueOrder ==
    ASSUME NEW a \in QueueKey, NEW b \in QueueKey
    PROVE  /\ DueFirst(a, b) => Precedes(Due(a), Due(b))
           /\ Due(a) # Due(b) => DueFirst(a, b) \/ DueFirst(b, a)
<1> DEFINE s == Due(a)
           t == Due(b)
<1>1. /\ Len(s) = 3 /\ Len(t) = 3
      /\ s[1] = a.priority /\ s[2] = a.readyTs /\ s[3] = a.sequence
      /\ t[1] = b.priority /\ t[2] = b.readyTs /\ t[3] = b.sequence
  BY DueNumbers
<1>2. ASSUME DueFirst(a, b) PROVE Precedes(s, t)
  <2> HIDE DEF s, t
  <2>1. CASE a.priority < b.priority
    <3>1. PartAt(s, t, 1)
      BY <1>1, <2>1 DEF PartAt
    <3>. QED  BY <1>1, <3>1, PrecedesWherePart
  <2>2. CASE a.priority = b.priority /\ a.readyTs < b.readyTs
    <3>1. \A j \in 1..(2 - 1) : j = 1
      OBVIOUS
    <3>2. PartAt(s, t, 2)
      BY <1>1, <2>2, <3>1 DEF PartAt
    <3>. QED  BY <1>1, <3>2, PrecedesWherePart
  <2>3. CASE a.priority = b.priority /\ a.readyTs = b.readyTs /\ a.sequence < b.sequence
    <3>1. \A j \in 1..(3 - 1) : j = 1 \/ j = 2
      OBVIOUS
    <3>2. PartAt(s, t, 3)
      BY <1>1, <2>3, <3>1 DEF PartAt
    <3>. QED  BY <1>1, <3>2, PrecedesWherePart
  <2>. QED  BY <1>2, <2>1, <2>2, <2>3 DEF DueFirst
<1>3. ASSUME s # t PROVE DueFirst(a, b) \/ DueFirst(b, a)
  <2>1. a.priority # b.priority \/ a.readyTs # b.readyTs \/ a.sequence # b.sequence
    BY <1>3 DEF Due
  <2>2. /\ a.priority \in Int /\ a.readyTs \in Nat /\ a.sequence \in Nat
        /\ b.priority \in Int /\ b.readyTs \in Nat /\ b.sequence \in Nat
    BY DueNumbers
  <2>. QED  BY <2>1, <2>2 DEF DueFirst
<1>. QED  BY <1>2, <1>3

Agree(d, e, m) == \A i \in 1..m : d[i] = e[i]

(* Keys that agree up to a number are sorted by that number, or agree up   *)
(* to the next one.                                                        *)
LEMMA SortedByNumber ==
    ASSUME NEW d \in Seq(Byte), NEW e \in Seq(Byte), NEW m \in Nat,
           m + Width =< Len(d), m + Width =< Len(e), Agree(d, e, m),
           NEW x \in Words, NEW y \in Words, x < y,
           \A i \in 1..Width : d[m + i] = encodeU64BE(x)[i] /\ e[m + i] = encodeU64BE(y)[i]
    PROVE  Precedes(d, e)
<1>1. Len(d) \in Nat /\ Len(e) \in Nat /\ Width \in Nat
  BY LenProperties, Bytes
<1>2. PICK i \in 1..Width :
        /\ \A j \in 1..(i - 1) : encodeU64BE(x)[j] = encodeU64BE(y)[j]
        /\ encodeU64BE(x)[i] < encodeU64BE(y)[i]
  BY WordsSorted
<1>3. ASSUME NEW j \in 1..((m + i) - 1) PROVE d[j] = e[j]
  <2>1. CASE j =< m
    BY <1>1, <2>1 DEF Agree
  <2>2. CASE ~(j =< m)
    <3>1. j - m \in 1..(i - 1) /\ j - m \in 1..Width /\ m + (j - m) = j
      BY <1>1, <2>2
    <3>. QED  BY <1>2, <3>1
  <2>. QED  BY <2>1, <2>2
<1>4. m + i \in 1..Len(e) /\ m + i =< Len(d) + 1 /\ m + i \in Nat
  BY <1>1
<1>5. PartAt(d, e, m + i)
  BY <1>2, <1>3, <1>4 DEF PartAt
<1>. QED  BY <1>1, <1>4, <1>5, PrecedesWherePart

LEMMA AgreeBeyond ==
    ASSUME NEW d, NEW e, NEW m \in Nat, Agree(d, e, m), NEW w, NEW next, next = m + Width + 1,
           \A i \in 1..Width : d[m + i] = w[i] /\ e[m + i] = w[i],
           d[next] = Slash, e[next] = Slash
    PROVE  Agree(d, e, next)
<1>1. Width \in Nat
  BY Bytes
<1>2. ASSUME NEW j \in 1..next PROVE d[j] = e[j]
  <2>1. CASE j =< m
    BY <1>1, <2>1 DEF Agree
  <2>2. CASE j = next
    BY <2>2
  <2>3. CASE ~(j =< m) /\ j # next
    <3>1. j - m \in 1..Width /\ m + (j - m) = j
      BY <1>1, <2>3
    <3>. QED  BY <3>1
  <2>. QED  BY <2>1, <2>2, <2>3
<1>. QED  BY <1>2 DEF Agree

(* In a queue, the key of the task that is due first comes first.          *)
LEMMA SortedKeys ==
    ASSUME NEW a \in QueueKey, NEW b \in QueueKey, a.queue = b.queue, DueFirst(a, b),
           NEW d, Parts(a, d), NEW e, Parts(b, e)
    PROVE  Precedes(d, e)
<1> DEFINE head == Len(Prefix)
           name == Len(a.queue)
           m0 == Mark(a, 0)
           m1 == Mark(a, 1)
           m2 == Mark(a, 2)
           m3 == Mark(a, 3)
<1>1. /\ head \in Nat /\ name \in Nat /\ Width \in Nat
      /\ m0 \in Nat /\ m1 \in Nat /\ m2 \in Nat /\ m3 \in Nat
      /\ m0 = head + name + 1 /\ m1 = m0 + Width + 1
      /\ m2 = m1 + Width + 1 /\ m3 = m2 + Width + 1
  BY Marks, Bytes
<1>2. /\ Mark(b, 0) = m0 /\ Mark(b, 1) = m1 /\ Mark(b, 2) = m2 /\ Mark(b, 3) = m3
  BY DEF Mark
<1>3. d \in Seq(Byte) /\ e \in Seq(Byte)
  BY DEF Parts
<1>4. m3 =< Len(d) /\ m3 =< Len(e)
  <2>1. Len(a.task) \in Nat /\ Len(b.task) \in Nat
    BY KeyTyped
  <2>2. Len(d) = m3 + Len(a.task) /\ Len(e) = m3 + Len(b.task)
    BY <1>2 DEF Parts
  <2>3. m3 \in Nat
    BY <1>1
  <2> HIDE DEF m3
  <2>. QED  BY <2>1, <2>2, <2>3
<1>5. Agree(d, e, m0)
  <2>1. /\ \A i \in 1..head : d[i] = e[i]
        /\ \A i \in 1..name : d[head + i] = e[head + i]
        /\ d[m0] = e[m0]
    <3>1. /\ \A i \in 1..head : d[i] = Prefix[i]
          /\ \A i \in 1..name : d[head + i] = a.queue[i]
          /\ d[m0] = Slash
      BY DEF Parts
    <3>2. /\ \A i \in 1..head : e[i] = Prefix[i]
          /\ \A i \in 1..name : e[head + i] = a.queue[i]
          /\ e[m0] = Slash
      BY <1>2 DEF Parts
    <3>. QED  BY <3>1, <3>2
  <2> HIDE DEF head, name, m0
  <2>2. ASSUME NEW i \in 1..m0 PROVE d[i] = e[i]
    <3>1. CASE i =< head
      BY <1>1, <2>1, <3>1
    <3>2. CASE i = m0
      BY <2>1, <3>2
    <3>3. CASE ~(i =< head) /\ i # m0
      <4>1. i - head \in 1..name /\ head + (i - head) = i
        BY <1>1, <3>3
      <4>. QED  BY <2>1, <4>1
    <3>. QED  BY <3>1, <3>2, <3>3
  <2>. QED  BY <2>2 DEF Agree
<1>6. /\ a.priority + Half \in Words /\ a.readyTs \in Words /\ a.sequence \in Words
      /\ b.priority + Half \in Words /\ b.readyTs \in Words /\ b.sequence \in Words
  BY KeyTyped
<1>7. /\ d[m1] = Slash /\ e[m1] = Slash /\ d[m2] = Slash /\ e[m2] = Slash
  BY <1>2 DEF Parts
<1>8. \A i \in 1..Width : /\ d[m0 + i] = encodeU64BE(a.priority + Half)[i]
                         /\ e[m0 + i] = encodeU64BE(b.priority + Half)[i]
  BY <1>2 DEF Parts
<1>9. \A i \in 1..Width : /\ d[m1 + i] = encodeU64BE(a.readyTs)[i]
                         /\ e[m1 + i] = encodeU64BE(b.readyTs)[i]
  BY <1>2 DEF Parts
<1>10. \A i \in 1..Width : /\ d[m2 + i] = encodeU64BE(a.sequence)[i]
                          /\ e[m2 + i] = encodeU64BE(b.sequence)[i]
  BY <1>2 DEF Parts
<1> HIDE DEF head, name, m0, m1, m2, m3
<1>11. /\ m0 + Width =< Len(d) /\ m0 + Width =< Len(e)
       /\ m1 + Width =< Len(d) /\ m1 + Width =< Len(e)
       /\ m2 + Width =< Len(d) /\ m2 + Width =< Len(e)
  <2>1. Len(d) \in Nat /\ Len(e) \in Nat
    BY <1>3, LenProperties
  <2>. QED  BY <1>1, <1>4, <2>1
<1>12. CASE a.priority < b.priority
  <2>1. a.priority + Half < b.priority + Half
    <3>1. a.priority \in Int /\ b.priority \in Int /\ Half \in Nat
      BY DueNumbers, Moduli
    <3>. QED  BY <1>12, <3>1
  <2> DEFINE x == a.priority + Half
             y == b.priority + Half
  <2>2. /\ x \in Words /\ y \in Words /\ x < y
        /\ \A i \in 1..Width : d[m0 + i] = encodeU64BE(x)[i] /\ e[m0 + i] = encodeU64BE(y)[i]
    BY <1>6, <1>8, <2>1
  <2> HIDE DEF x, y
  <2>3. /\ d \in Seq(Byte) /\ e \in Seq(Byte) /\ m0 \in Nat
        /\ m0 + Width =< Len(d) /\ m0 + Width =< Len(e) /\ Agree(d, e, m0)
    BY <1>1, <1>3, <1>5, <1>11
  <2>. QED  BY ZenonT(40), <2>2, <2>3, SortedByNumber
<1>13. ASSUME a.priority = b.priority PROVE Agree(d, e, m1)
  BY <1>1, <1>5, <1>7, <1>8, <1>13, AgreeBeyond
<1>14. CASE a.priority = b.priority /\ a.readyTs < b.readyTs
  <2>1. /\ d \in Seq(Byte) /\ e \in Seq(Byte) /\ m1 \in Nat
        /\ m1 + Width =< Len(d) /\ m1 + Width =< Len(e) /\ Agree(d, e, m1)
    BY <1>1, <1>3, <1>11, <1>13, <1>14
  <2>2. /\ a.readyTs \in Words /\ b.readyTs \in Words /\ a.readyTs < b.readyTs
    BY <1>6, <1>14
  <2>. QED  BY ZenonT(40), <1>9, <2>1, <2>2, SortedByNumber
<1>15. CASE a.priority = b.priority /\ a.readyTs = b.readyTs /\ a.sequence < b.sequence
  <2>1. Agree(d, e, m2)
    BY <1>1, <1>7, <1>9, <1>13, <1>15, AgreeBeyond
  <2>2. /\ a.sequence \in Words /\ b.sequence \in Words /\ a.sequence < b.sequence
    BY <1>6, <1>15
  <2>3. /\ d \in Seq(Byte) /\ e \in Seq(Byte) /\ m2 \in Nat
        /\ m2 + Width =< Len(d) /\ m2 + Width =< Len(e) /\ Agree(d, e, m2)
    BY <1>1, <1>3, <1>11, <2>1
  <2>. QED  BY ZenonT(40), <1>10, <2>2, <2>3, SortedByNumber
<1>. QED  BY <1>12, <1>14, <1>15 DEF DueFirst

-----------------------------------------------------------------------------
(* What is stored under a key is what the key was encoded from.            *)
KeysInv == \A d \in DOMAIN entries : entries[d] \in QueueKey /\ d = Encode(entries[d])

(* Every key in the store is the encoding of the task it was stored for    *)
(* (Encode, queue.go:123, and the Put of Enqueue, queue.go:253).           *)
THEOREM KeysInvariant == KeysSpec => []KeysInv
<1>1. KeysInit => KeysInv
  BY DEF KeysInit, KeysInv
<1>2. ASSUME KeysInv, [KeysNext]_entries PROVE KeysInv'
  <2>1. CASE UNCHANGED entries
    BY <1>2, <2>1 DEF KeysInv
  <2>2. ASSUME NEW k \in QueueKey, StoreKey(k) PROVE KeysInv'
    <3>1. /\ DOMAIN entries' = DOMAIN entries \cup {Encode(k)}
          /\ \A d \in DOMAIN entries' :
               entries'[d] = IF d = Encode(k) THEN k ELSE entries[d]
      BY <2>2 DEF StoreKey
    <3>2. ASSUME NEW d \in DOMAIN entries'
          PROVE  entries'[d] \in QueueKey /\ d = Encode(entries'[d])
      BY <1>2, <3>1 DEF KeysInv
    <3>. QED  BY <3>2 DEF KeysInv
  <2>. QED  BY <1>2, <2>1, <2>2 DEF KeysNext
<1>. QED  BY <1>1, <1>2, PTL DEF KeysSpec

(* Whatever the names, the numbers and the bytes in them, every stored key *)
(* is decoded to what was encoded, and the keys of a queue are in the      *)
(* order in which their tasks are due (DecodeQueueKey, queue.go:391; the   *)
(* order is what encodeI64BE, queue.go:94, is written for).                *)
THEOREM KeysAlwaysFaithful == KeysSpec => []KeysFaithful
<1>1. ASSUME KeysInv PROVE KeysFaithful
  <2>1. ASSUME NEW d \in DOMAIN entries
        PROVE  /\ entries[d] \in QueueKey /\ Parts(entries[d], d)
               /\ DecodeQueueKey(d) = entries[d]
               /\ d \in Seq(Int) /\ Due(entries[d]) \in Seq(Int)
    <3>1. entries[d] \in QueueKey /\ d = Encode(entries[d])
      BY <1>1 DEF KeysInv
    <3>2. Parts(entries[d], d)
      BY <3>1, EncodedParts
    <3>3. d \in Seq(Int)
      <4>1. d \in Seq(Byte) /\ Byte \subseteq Int
        BY <3>2, Bytes DEF Parts
      <4>. QED  BY <4>1, SeqMonotonic
    <3>. QED  BY <3>1, <3>2, <3>3, DecodedKey, DueNumbers
  <2>2. ASSUME NEW a \in DOMAIN entries, NEW b \in DOMAIN entries,
               entries[a].queue = entries[b].queue, DueFirst(entries[a], entries[b])
        PROVE  Precedes(a, b) /\ Precedes(Due(entries[a]), Due(entries[b]))
    BY <2>1, <2>2, SortedKeys, DueOrder
  <2>3. ASSUME NEW a \in DOMAIN entries, NEW b \in DOMAIN entries,
               entries[a].queue = entries[b].queue, Due(entries[a]) # Due(entries[b])
        PROVE  Precedes(a, b) <=> Precedes(Due(entries[a]), Due(entries[b]))
    <3>1. CASE DueFirst(entries[a], entries[b])
      BY <2>2, <2>3, <3>1
    <3>2. CASE DueFirst(entries[b], entries[a])
      <4>1. Precedes(b, a) /\ Precedes(Due(entries[b]), Due(entries[a]))
        BY <2>2, <2>3, <3>2
      <4>. QED  BY <2>1, <4>1, PrecedesAsymmetric
    <3>. QED  BY <2>1, <2>3, <3>1, <3>2, DueOrder
  <2>. QED  BY <2>1, <2>3 DEF KeysFaithful
<1>. QED  BY <1>1, KeysInvariant, PTL
=============================================================================
