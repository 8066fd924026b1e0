-------------------------- MODULE Conversions_proofs -------------------------
(***************************************************************************)
(* What the conversions are worth, for any values a caller may pass, any   *)
(* part of Unicode, any alphabets and any limits.  Documents: the order of *)
(* a scope, a canonical document left alone, one form for one meaning, the *)
(* cost of whole milliseconds.  Keys and signatures: a faithful copy reads *)
(* back, another spelling does not.  JSON values: which are refused, what  *)
(* the bytes mean, the order of keys.                                      *)
(***************************************************************************)
EXTENDS Conversions, SequenceTheorems, FiniteSetTheorems, TLAPS

\* Induction, with the property given as the set of numbers that have it.
LEMMA ForEveryNumber ==
    ASSUME NEW S, 0 \in S, \A n \in Nat : n \in S => n + 1 \in S
    PROVE  Nat \subseteq S
<1> DEFINE T == Nat \ S
           R == OpToRel(<, Nat)
<1> SUFFICES ASSUME T # {} PROVE FALSE
  OBVIOUS
<1>1. IsWellFoundedOn(R, Nat)
  BY NatLessThanWellFounded
<1>2. T \subseteq Nat
  OBVIOUS
<1> HIDE DEF R, T
<1>3. PICK n \in T : \A m \in T : <<m, n>> \notin R
  BY <1>1, <1>2, WFMin
<1>4. n \in Nat /\ n \notin S /\ n # 0
  BY DEF T
<1>5. n - 1 \in Nat /\ n - 1 \notin S
  BY <1>4
<1>6. <<n - 1, n>> \in R
  BY <1>4, <1>5 DEF R, OpToRel
<1> QED
  BY <1>3, <1>5, <1>6 DEF T

\* A set of numbers with a bound has a greatest member.
LEMMA Greatest ==
    ASSUME NEW n \in Nat, NEW S, S \subseteq 0..n, S # {}
    PROVE  Max(S) \in S /\ \A y \in S : y =< Max(S)
<1> DEFINE Has(m) == \A T : T \subseteq 0..m /\ T # {} => \E x \in T : \A y \in T : x >= y
           H == {m \in Nat : Has(m)}
<1>1. 0 \in H
  OBVIOUS
<1>2. ASSUME NEW m \in Nat, m \in H PROVE m + 1 \in H
  <2> SUFFICES ASSUME NEW T, T \subseteq 0..(m + 1), T # {}
               PROVE  \E x \in T : \A y \in T : x >= y
    OBVIOUS
  <2>1. CASE m + 1 \in T
    BY <2>1
  <2>2. CASE m + 1 \notin T
    <3>1. T \subseteq 0..m
      BY <2>2
    <3> QED
      BY <1>2, <3>1
  <2> QED
    BY <2>1, <2>2
<1> HIDE DEF H
<1>3. n \in H
  BY <1>1, <1>2, ForEveryNumber
<1>4. \E x \in S : \A y \in S : x >= y
  BY <1>3 DEF H
<1>5. Max(S) \in S /\ \A y \in S : Max(S) >= y
  BY <1>4 DEF Max
<1> QED
  BY <1>5

-----------------------------------------------------------------------------
(***************************************************************************)
(* A text spelled out: each character by the sequence that a table has for *)
(* it.  UTF-16 is such a spelling, and so is canonical decomposition.      *)
(***************************************************************************)
spelled(table, text) == FlattenSeq([i \in DOMAIN text |-> table[text[i]]])

\* What FlattenSeq computes, one part after the other.
LEMMA Flattening ==
    ASSUME NEW C, NEW parts \in Seq(Seq(C))
    PROVE  \E f \in [0..Len(parts) -> Seq(C)] :
              /\ f[0] = << >>
              /\ \A i \in 1..Len(parts) : f[i] = f[i - 1] \o parts[i]
              /\ FlattenSeq(parts) = f[Len(parts)]
<1> DEFINE n == Len(parts)
           Def(m) == {f \in [0..m -> Seq(C)] :
                         f[0] = << >> /\ \A i \in 1..m : f[i] = f[i - 1] \o parts[i]}
           S == {m \in Nat : m =< n => Def(m) # {}}
<1>1. n \in Nat /\ \A i \in 1..n : parts[i] \in Seq(C)
  OBVIOUS
<1> HIDE DEF n
<1>2. 0 \in S
  <2>1. [i \in 0..0 |-> << >>] \in Def(0)
    OBVIOUS
  <2> QED
    BY <2>1
<1>3. ASSUME NEW m \in Nat, m \in S PROVE m + 1 \in S
  <2> HIDE DEF Def
  <2> SUFFICES ASSUME m + 1 =< n PROVE Def(m + 1) # {}
    OBVIOUS
  <2>1. PICK f \in [0..m -> Seq(C)] : f[0] = << >> /\ \A i \in 1..m : f[i] = f[i - 1] \o parts[i]
    <3>1. Def(m) # {}
      BY <1>1, <1>3
    <3> QED
      BY <3>1 DEF Def
  <2> DEFINE g == [i \in 0..(m + 1) |-> IF i = m + 1 THEN f[m] \o parts[m + 1] ELSE f[i]]
  <2>2. f[m] \in Seq(C) /\ parts[m + 1] \in Seq(C)
    BY <1>1, <2>1
  <2>3. g \in [0..(m + 1) -> Seq(C)]
    BY <2>1, <2>2
  <2>4. g[m + 1] = f[m] \o parts[m + 1] /\ \A i \in 0..m : g[i] = f[i]
    OBVIOUS
  <2> HIDE DEF g
  <2>5. ASSUME NEW i \in 1..(m + 1) PROVE g[i] = g[i - 1] \o parts[i]
    <3>1. CASE i = m + 1
      <4>1. i - 1 = m /\ m \in 0..m
        BY <3>1
      <4> QED
        BY <2>4, <3>1, <4>1
    <3>2. CASE i # m + 1
      <4>1. i \in 1..m /\ i \in 0..m /\ i - 1 \in 0..m
        BY <3>2
      <4> QED
        BY <2>1, <2>4, <4>1
    <3> QED
      BY <3>1, <3>2
  <2>6. g \in Def(m + 1)
    <3>1. g[0] = << >>
      BY <2>1, <2>4
    <3>2. \A i \in 1..(m + 1) : g[i] = g[i - 1] \o parts[i]
      BY <2>5
    <3> QED
      BY <2>3, <3>1, <3>2 DEF Def
  <2> QED
    BY <2>6
<1>4. PICK f \in [0..n -> Seq(C)] : f[0] = << >> /\ \A i \in 1..n : f[i] = f[i - 1] \o parts[i]
  <2> HIDE DEF Def
  <2>1. n \in S
    BY <1>1, <1>2, <1>3, ForEveryNumber
  <2>2. Def(n) # {}
    BY <1>1, <2>1
  <2> QED
    BY <2>2 DEF Def
<1> HIDE DEF Def, S
<1>5. CASE n = 0
  <2>1. FlattenSeq(parts) = << >>
    BY <1>5 DEF FlattenSeq, n
  <2> QED
    BY <1>4, <1>5, <2>1 DEF n
<1>6. CASE n # 0
  <2> DEFINE flatten[i \in 1..n] == IF i = 1 THEN parts[i] ELSE flatten[i - 1] \o parts[i]
             h == [i \in 1..n |-> f[i]]
  <2>1. FlattenSeq(parts) = flatten[n]
    BY <1>6 DEF FlattenSeq, n
  <2>2. h = [i \in 1..n |-> IF i = 1 THEN parts[i] ELSE h[i - 1] \o parts[i]]
    <3> HIDE DEF flatten
    <3> SUFFICES ASSUME NEW i \in 1..n
                 PROVE  h[i] = IF i = 1 THEN parts[i] ELSE h[i - 1] \o parts[i]
      OBVIOUS
    <3>1. f[i] = f[i - 1] \o parts[i] /\ parts[i] \in Seq(C)
      BY <1>1, <1>4
    <3>2. CASE i = 1
      <4>1. f[i - 1] = << >>
        BY <1>4, <3>2
      <4> QED
        BY <3>1, <3>2, <4>1
    <3>3. CASE i # 1
      <4>1. h[i - 1] = f[i - 1]
        BY <1>1, <3>3
      <4> QED
        BY <3>1, <3>3, <4>1
    <3> QED
      BY <3>2, <3>3
  <2>3. flatten = [i \in 1..n |-> IF i = 1 THEN parts[i] ELSE flatten[i - 1] \o parts[i]]
    BY <2>2
  <2> HIDE DEF flatten
  <2>4. \A i \in 1..n : flatten[i] = IF i = 1 THEN parts[i] ELSE flatten[i - 1] \o parts[i]
    BY <2>3
  <2> DEFINE U == {m \in Nat : m \in 1..n => flatten[m] = f[m]}
  <2>5. 0 \in U
    OBVIOUS
  <2>6. ASSUME NEW m \in Nat, m \in U PROVE m + 1 \in U
    <3> SUFFICES ASSUME m + 1 \in 1..n PROVE flatten[m + 1] = f[m + 1]
      OBVIOUS
    <3>1. flatten[m + 1] = IF m = 0 THEN parts[m + 1] ELSE flatten[m] \o parts[m + 1]
      BY <2>4
    <3>2. f[m + 1] = f[m] \o parts[m + 1] /\ parts[m + 1] \in Seq(C)
      <4>1. PICK i \in 1..n : i = m + 1
        OBVIOUS
      <4>2. f[i] = f[i - 1] \o parts[i] /\ parts[i] \in Seq(C)
        BY <1>1, <1>4
      <4>3. i - 1 = m
        BY <4>1
      <4> QED
        BY <4>1, <4>2, <4>3
    <3>3. CASE m = 0
      <4>1. f[m] = << >>
        BY <1>4, <3>3
      <4> QED
        BY <3>1, <3>2, <3>3, <4>1
    <3>4. CASE m # 0
      <4>1. m \in 1..n
        BY <1>1, <3>4
      <4> QED
        BY <2>6, <3>1, <3>2, <3>4, <4>1
    <3> QED
      BY <3>3, <3>4
  <2>7. n \in U
    BY <1>1, <2>5, <2>6, ForEveryNumber
  <2>8. flatten[n] = f[n]
    BY <1>1, <1>6, <2>7
  <2> QED
    BY <1>4, <2>1, <2>8 DEF n
<1> QED
  BY <1>5, <1>6

LEMMA Spelling ==
    ASSUME NEW C, NEW D, NEW table \in [C -> Seq(D)], NEW text \in Seq(C)
    PROVE  LET parts == [i \in DOMAIN text |-> table[text[i]]]
           IN  parts \in Seq(Seq(D)) /\ Len(parts) = Len(text)
               /\ \A i \in 1..Len(text) : parts[i] = table[text[i]]
<1> DEFINE parts == [i \in 1..Len(text) |-> table[text[i]]]
<1>1. Len(text) \in Nat /\ DOMAIN text = 1..Len(text) /\ \A i \in 1..Len(text) : text[i] \in C
  OBVIOUS
<1>2. parts \in [1..Len(text) -> Seq(D)]
  BY <1>1
<1>3. parts \in Seq(Seq(D)) /\ Len(parts) = Len(text)
  BY <1>1, <1>2
<1> QED
  BY <1>1, <1>3

\* A text is spelled character by character.
LEMMA SpelledMore ==
    ASSUME NEW C, NEW D, NEW table \in [C -> Seq(D)], NEW text \in Seq(C), NEW c \in C
    PROVE  spelled(table, Append(text, c)) = spelled(table, text) \o table[c]
<1> DEFINE n == Len(text)
           parts == [i \in DOMAIN text |-> table[text[i]]]
           more == [i \in DOMAIN Append(text, c) |-> table[Append(text, c)[i]]]
<1>1. n \in Nat /\ Append(text, c) \in Seq(C) /\ Len(Append(text, c)) = n + 1
      /\ Append(text, c)[n + 1] = c /\ \A i \in 1..n : Append(text, c)[i] = text[i]
  BY AppendProperties
<1>2. parts \in Seq(Seq(D)) /\ Len(parts) = n /\ \A i \in 1..n : parts[i] = table[text[i]]
  BY Spelling
<1>3. more \in Seq(Seq(D)) /\ Len(more) = n + 1
      /\ \A i \in 1..(n + 1) : more[i] = table[Append(text, c)[i]]
  BY <1>1, Spelling
<1>4. spelled(table, text) = FlattenSeq(parts)
      /\ spelled(table, Append(text, c)) = FlattenSeq(more)
  BY DEF spelled
<1>5. \A i \in 1..n : more[i] = parts[i]
  BY <1>1, <1>2, <1>3
<1>6. more[n + 1] = table[c]
  BY <1>1, <1>3
<1> HIDE DEF n, parts, more
<1>7. PICK f \in [0..n -> Seq(D)] :
          /\ f[0] = << >>
          /\ \A i \in 1..n : f[i] = f[i - 1] \o parts[i]
          /\ FlattenSeq(parts) = f[n]
  BY <1>2, Flattening
<1>8. PICK k \in Nat : k = n + 1
  BY <1>1
<1>9. PICK g \in [0..k -> Seq(D)] :
          /\ g[0] = << >>
          /\ \A i \in 1..k : g[i] = g[i - 1] \o more[i]
          /\ FlattenSeq(more) = g[k]
  <2>1. Len(more) = k
    BY <1>3, <1>8
  <2> QED
    BY <1>3, <2>1, Flattening
<1> DEFINE S == {m \in Nat : m =< n => g[m] = f[m]}
<1>10. 0 \in S
  BY <1>7, <1>9
<1>11. ASSUME NEW m \in Nat, m \in S PROVE m + 1 \in S
  <2> SUFFICES ASSUME m + 1 =< n PROVE g[m + 1] = f[m + 1]
    OBVIOUS
  <2>1. PICK i \in 1..n : i = m + 1
    BY <1>1
  <2>2. f[i] = f[i - 1] \o parts[i]
    BY <1>7
  <2>3. i \in 1..k
    BY <1>1, <1>8
  <2>4. g[i] = g[i - 1] \o parts[i]
    BY <1>5, <1>9, <2>3
  <2>5. i - 1 = m /\ g[m] = f[m]
    BY <1>1, <1>11, <2>1
  <2> QED
    BY <2>1, <2>2, <2>4, <2>5
<1> HIDE DEF S
<1>12. n \in S
  BY <1>1, <1>10, <1>11, ForEveryNumber
<1>13. g[n] = f[n] /\ f[n] \in Seq(D)
  BY <1>1, <1>7, <1>12 DEF S
<1>14. g[k] = g[n] \o more[k]
  <2>1. k \in 1..k /\ k - 1 = n
    BY <1>1, <1>8
  <2> QED
    BY <1>9, <2>1
<1> QED
  BY <1>4, <1>6, <1>7, <1>8, <1>9, <1>13, <1>14

LEMMA SpelledIsText ==
    ASSUME NEW C, NEW D, NEW table \in [C -> Seq(D)], NEW text \in Seq(C)
    PROVE  spelled(table, text) \in Seq(D)
<1> DEFINE parts == [i \in DOMAIN text |-> table[text[i]]]
<1>1. parts \in Seq(Seq(D)) /\ Len(parts) \in Nat
  BY Spelling
<1>2. spelled(table, text) = FlattenSeq(parts)
  BY DEF spelled
<1> HIDE DEF parts
<1>3. PICK f \in [0..Len(parts) -> Seq(D)] : FlattenSeq(parts) = f[Len(parts)]
  BY <1>1, Flattening
<1> QED
  BY <1>1, <1>2, <1>3

LEMMA SpelledNothing ==
    ASSUME NEW table
    PROVE  spelled(table, << >>) = << >>
BY DEF spelled, FlattenSeq

\* Induction over texts, with the property given as the set of texts that have it.
LEMMA ForEveryText ==
    ASSUME NEW C, NEW S, << >> \in S,
           \A s \in Seq(C), c \in C : s \in S => Append(s, c) \in S
    PROVE  Seq(C) \subseteq S
<1> DEFINE N == {n \in Nat : \A s \in Seq(C) : Len(s) = n => s \in S}
<1>1. 0 \in N
  <2>1. \A s \in Seq(C) : Len(s) = 0 => s = << >>
    BY EmptySeq
  <2> QED
    BY <2>1
<1>2. ASSUME NEW n \in Nat, n \in N PROVE n + 1 \in N
  <2> SUFFICES ASSUME NEW s \in Seq(C), Len(s) = n + 1 PROVE s \in S
    OBVIOUS
  <2>1. s # << >>
    OBVIOUS
  <2>2. PICK t \in Seq(C), c \in C : s = Append(t, c)
    BY <2>1, SequenceEmptyOrAppend
  <2>3. Len(s) = Len(t) + 1 /\ Len(t) \in Nat
    BY <2>2, AppendProperties
  <2>4. t \in S
    BY <1>2, <2>3
  <2> QED
    BY <2>2, <2>4
<1> HIDE DEF N
<1>3. Nat \subseteq N
  BY <1>1, <1>2, ForEveryNumber
<1> QED
  <2> SUFFICES ASSUME NEW s \in Seq(C) PROVE s \in S
    OBVIOUS
  <2>1. Len(s) \in N
    BY <1>3
  <2> QED
    BY <2>1 DEF N

LEMMA SpelledJoined ==
    ASSUME NEW C, NEW D, NEW table \in [C -> Seq(D)], NEW s \in Seq(C), NEW t \in Seq(C)
    PROVE  spelled(table, s \o t) = spelled(table, s) \o spelled(table, t)
<1> DEFINE S == {u \in Seq(C) : spelled(table, s \o u) = spelled(table, s) \o spelled(table, u)}
<1>1. \A u \in Seq(C) : spelled(table, u) \in Seq(D)
  BY SpelledIsText
<1>2. << >> \in S
  <2>1. s \o << >> = s /\ spelled(table, s) \in Seq(D)
    BY <1>1
  <2>2. spelled(table, s) \o << >> = spelled(table, s)
    BY <2>1
  <2> QED
    BY <2>1, <2>2, SpelledNothing
<1>3. ASSUME NEW u \in Seq(C), NEW c \in C, u \in S PROVE Append(u, c) \in S
  <2>1. s \o Append(u, c) = Append(s \o u, c) /\ s \o u \in Seq(C) /\ Append(u, c) \in Seq(C)
    OBVIOUS
  <2>2. \A v \in Seq(C) : spelled(table, Append(v, c)) = spelled(table, v) \o table[c]
    BY SpelledMore
  <2>3. /\ spelled(table, Append(s \o u, c)) = spelled(table, s \o u) \o table[c]
        /\ spelled(table, Append(u, c)) = spelled(table, u) \o table[c]
    BY <2>1, <2>2
  <2>4. spelled(table, s) \in Seq(D) /\ spelled(table, u) \in Seq(D) /\ table[c] \in Seq(D)
    BY <1>1
  <2>5. (spelled(table, s) \o spelled(table, u)) \o table[c]
            = spelled(table, s) \o (spelled(table, u) \o table[c])
    BY <2>4, ConcatAssociative
  <2> QED
    BY <1>3, <2>1, <2>3, <2>5
<1> HIDE DEF S
<1>4. t \in S
  BY <1>2, <1>3, ForEveryText
<1> QED
  BY <1>1, <1>4 DEF S

-----------------------------------------------------------------------------
(***************************************************************************)
(* Folding a text: FoldLeft, one character after the other.  step is the   *)
(* function of what is done and the next character.                        *)
(***************************************************************************)
FoldedBy(step, text, f) ==
    /\ f[0] = << >>
    /\ \A i \in 1..Len(text) : f[i] = step[<<f[i - 1], text[i]>>]

Steps(D, C, step) == << >> \in D /\ step \in [D \X C -> D]

Folds(step, text, g) ==
    \A s \in SUBSET DOMAIN text :
       g[s] = IF s = {} THEN << >> ELSE step[<<g[s \ {Max(s)}], text[Max(s)]>>]

FoldsWithin(D, step, text, iter) ==
    /\ iter[{}] = << >>
    /\ \A m \in 1..Len(text) :
          iter[(1..m) \ {Max(1..m)}] \in D
             => iter[1..m] = step[<<iter[(1..m) \ {Max(1..m)}], text[Max(1..m)]>>]

\* The function that FoldLeft chooses exists.
LEMMA FoldExists ==
    ASSUME NEW C, NEW D, NEW step, Steps(D, C, step), NEW text \in Seq(C)
    PROVE  \E g \in [SUBSET DOMAIN text -> D] : Folds(step, text, g)
<1> DEFINE n == Len(text)
           Step(g, s) == IF s = {} THEN << >> ELSE step[<<g[s \ {Max(s)}], text[Max(s)]>>]
           Def(m) == {g \in [SUBSET (1..m) -> D] : \A s \in SUBSET (1..m) : g[s] = Step(g, s)}
           S == {m \in Nat : m =< n => Def(m) # {}}
<1> USE DEF Steps
<1>1. n \in Nat /\ DOMAIN text = 1..n /\ \A i \in 1..n : text[i] \in C
  OBVIOUS
<1> HIDE DEF n
<1>2. ASSUME NEW m \in Nat, NEW s \in SUBSET (1..m), s # {}
      PROVE  Max(s) \in s /\ Max(s) \in 1..m /\ \A y \in s : y =< Max(s)
  <2>1. s \subseteq 0..m
    OBVIOUS
  <2> QED
    BY <1>2, <2>1, Greatest
<1>3. 0 \in S
  <2>1. [s \in SUBSET (1..0) |-> << >>] \in Def(0)
    OBVIOUS
  <2> QED
    BY <2>1
<1>4. ASSUME NEW m \in Nat, m \in S PROVE m + 1 \in S
  <2> HIDE DEF Def
  <2> SUFFICES ASSUME m + 1 =< n PROVE Def(m + 1) # {}
    OBVIOUS
  <2>1. PICK g \in [SUBSET (1..m) -> D] : \A s \in SUBSET (1..m) : g[s] = Step(g, s)
    <3>1. Def(m) # {}
      BY <1>1, <1>4
    <3> QED
      BY <3>1 DEF Def
  <2> DEFINE last == text[m + 1]
             h == [s \in SUBSET (1..(m + 1)) |->
                      IF m + 1 \in s THEN step[<<g[s \ {m + 1}], last>>] ELSE g[s]]
  <2>2. last \in C
    BY <1>1
  <2>3. ASSUME NEW s \in SUBSET (1..(m + 1))
        PROVE  s \ {m + 1} \in SUBSET (1..m) /\ (m + 1 \notin s => s \in SUBSET (1..m))
    OBVIOUS
  <2>4. h \in [SUBSET (1..(m + 1)) -> D]
    <3> SUFFICES ASSUME NEW s \in SUBSET (1..(m + 1))
                 PROVE  (IF m + 1 \in s THEN step[<<g[s \ {m + 1}], last>>] ELSE g[s]) \in D
      OBVIOUS
    <3>1. g[s \ {m + 1}] \in D
      BY <2>1, <2>3
    <3>2. step[<<g[s \ {m + 1}], last>>] \in D
      BY <2>2, <3>1
    <3> QED
      BY <2>1, <2>3, <3>2
  <2>5. \A s \in SUBSET (1..m) : h[s] = g[s]
    <3> SUFFICES ASSUME NEW s \in SUBSET (1..m) PROVE h[s] = g[s]
      OBVIOUS
    <3>1. s \in SUBSET (1..(m + 1)) /\ m + 1 \notin s
      OBVIOUS
    <3> QED
      BY <3>1
  <2>6. \A s \in SUBSET (1..(m + 1)) : m + 1 \in s => h[s] = step[<<g[s \ {m + 1}], last>>]
    OBVIOUS
  <2> HIDE DEF h
  <2>7. ASSUME NEW s \in SUBSET (1..(m + 1)) PROVE h[s] = Step(h, s)
    <3>1. CASE m + 1 \in s
      <4>1. Max(s) = m + 1
        <5>1. Max(s) \in 1..(m + 1) /\ m + 1 =< Max(s)
          BY <1>2, <3>1
        <5> QED
          BY <5>1
      <4>2. h[s \ {m + 1}] = g[s \ {m + 1}]
        BY <2>3, <2>5
      <4> QED
        BY <2>6, <3>1, <4>1, <4>2
    <3>2. CASE m + 1 \notin s
      <4>1. s \in SUBSET (1..m) /\ s \ {Max(s)} \in SUBSET (1..m)
        BY <2>3, <3>2
      <4> QED
        BY <2>1, <2>5, <4>1
    <3> QED
      BY <3>1, <3>2
  <2>8. h \in Def(m + 1)
    BY <2>4, <2>7 DEF Def
  <2> QED
    BY <2>8
<1> HIDE DEF S
<1>5. n \in S
  BY <1>1, <1>3, <1>4, ForEveryNumber
<1> HIDE DEF Def
<1>6. Def(n) # {}
  BY <1>1, <1>5 DEF S
<1> QED
  BY <1>1, <1>6 DEF Def, Folds

\* What it says of the front parts of the text is what the fold has done so far.  other is what
\* FoldLeft applies, which is step as long as what is done stays in D.
LEMMA FoldByStep ==
    ASSUME NEW C, NEW D, NEW step, Steps(D, C, step), NEW text \in Seq(C),
           NEW iter, FoldsWithin(D, step, text, iter)
    PROVE  \E f \in [0..Len(text) -> D] : FoldedBy(step, text, f) /\ f[Len(text)] = iter[DOMAIN text]
<1> DEFINE n == Len(text)
           f == [i \in 0..n |-> iter[1..i]]
           U == {m \in Nat : m =< n => iter[1..m] \in D}
<1> USE DEF Steps, FoldsWithin
<1>1. n \in Nat /\ DOMAIN text = 1..n /\ \A i \in 1..n : text[i] \in C
  OBVIOUS
<1> HIDE DEF n
<1>2. ASSUME NEW m \in 1..n, iter[1..(m - 1)] \in D
      PROVE  iter[1..m] = step[<<iter[1..(m - 1)], text[m]>>]
  <2>1. 1..m \subseteq 0..m /\ 1..m # {} /\ m \in 1..m /\ m \in Nat
    BY <1>1
  <2>2. Max(1..m) \in 1..m /\ m =< Max(1..m)
    BY <2>1, Greatest
  <2>3. Max(1..m) = m /\ (1..m) \ {m} = 1..(m - 1)
    BY <2>1, <2>2
  <2> QED
    BY <1>2, <2>3 DEF n
<1>3. 1..0 = {} /\ iter[1..0] = << >>
  <2>1. 1..0 = {}
    OBVIOUS
  <2> QED
    BY <2>1
<1>4. 0 \in U
  BY <1>3
<1>5. ASSUME NEW m \in Nat, m \in U PROVE m + 1 \in U
  <2> SUFFICES ASSUME m + 1 =< n PROVE iter[1..(m + 1)] \in D
    OBVIOUS
  <2>1. PICK i \in 1..n : i = m + 1
    BY <1>1
  <2>2. i - 1 = m /\ iter[1..m] \in D
    BY <1>1, <1>5, <2>1
  <2>3. iter[1..i] = step[<<iter[1..m], text[i]>>] /\ text[i] \in C
    BY <1>1, <1>2, <2>2
  <2> QED
    BY <2>1, <2>2, <2>3
<1> HIDE DEF U
<1>6. \A i \in 0..n : iter[1..i] \in D
  <2>1. Nat \subseteq U
    BY <1>4, <1>5, ForEveryNumber
  <2> QED
    BY <1>1, <2>1 DEF U
<1>7. f \in [0..n -> D] /\ f[0] = << >> /\ f[n] = iter[1..n]
  BY <1>1, <1>3, <1>6
<1>8. \A i \in 1..n : f[i] = step[<<f[i - 1], text[i]>>]
  <2> SUFFICES ASSUME NEW i \in 1..n PROVE f[i] = step[<<f[i - 1], text[i]>>]
    OBVIOUS
  <2>1. i \in 0..n /\ i - 1 \in 0..n
    BY <1>1
  <2> QED
    BY <1>2, <1>6, <2>1
<1> HIDE DEF f
<1> QED
  BY <1>1, <1>7, <1>8 DEF n, FoldedBy

\* A text that is one character longer is folded by one step more.
LEMMA FoldedMore ==
    ASSUME NEW C, NEW step, NEW text \in Seq(C), NEW c \in C,
           NEW f, FoldedBy(step, text, f), NEW g, FoldedBy(step, Append(text, c), g)
    PROVE  g[Len(Append(text, c))] = step[<<f[Len(text)], c>>]
<1> DEFINE n == Len(text)
           more == Append(text, c)
           k == Len(more)
<1>1. n \in Nat /\ k = n + 1 /\ more[n + 1] = c /\ \A i \in 1..n : more[i] = text[i]
  BY AppendProperties
<1>2. /\ f[0] = << >> /\ \A i \in 1..n : f[i] = step[<<f[i - 1], text[i]>>]
      /\ g[0] = << >> /\ \A i \in 1..k : g[i] = step[<<g[i - 1], more[i]>>]
  BY DEF FoldedBy
<1> HIDE DEF n, more, k
<1> DEFINE S == {m \in Nat : m =< n => g[m] = f[m]}
<1>3. 0 \in S
  BY <1>2
<1>4. ASSUME NEW m \in Nat, m \in S PROVE m + 1 \in S
  <2> SUFFICES ASSUME m + 1 =< n PROVE g[m + 1] = f[m + 1]
    OBVIOUS
  <2>1. PICK i \in 1..n : i = m + 1
    BY <1>1
  <2>2. i \in 1..k
    BY <1>1
  <2>3. f[i] = step[<<f[i - 1], text[i]>>] /\ g[i] = step[<<g[i - 1], text[i]>>]
    BY <1>1, <1>2, <2>2
  <2>4. i - 1 = m /\ g[m] = f[m]
    BY <1>1, <1>4, <2>1
  <2> QED
    BY <2>1, <2>3, <2>4
<1> HIDE DEF S
<1>5. n \in S
  BY <1>1, <1>3, <1>4, ForEveryNumber
<1>6. g[n] = f[n]
  BY <1>1, <1>5 DEF S
<1>7. g[k] = step[<<g[n], more[k]>>]
  <2>1. k \in 1..k /\ k - 1 = n
    BY <1>1
  <2> QED
    BY <1>2, <2>1
<1> QED
  BY <1>1, <1>6, <1>7 DEF n, more, k

-----------------------------------------------------------------------------
(***************************************************************************)
(* Canonical ordering: where a mark is placed, and that two marks of       *)
(* different classes are placed the same in either order.                  *)
(***************************************************************************)
stops(b, c) == combining(c) = 0 \/ combining(b) =< combining(c)

stays(done, c) == SelectLastInSeq(done, LAMBDA b : combining(c) = 0 \/ combining(b) =< combining(c))

letter(done) == SelectLastInSeq(done, LAMBDA b : combining(b) = 0)

inserted(done, k, c) ==
    [i \in 1..(Len(done) + 1) |-> IF i =< k THEN done[i] ELSE IF i = k + 1 THEN c ELSE done[i - 1]]

LEMMA Classes ==
    \A c : combining(c) \in Nat /\ (combining(c) # 0 <=> c \in DOMAIN Combining)
<1> SUFFICES ASSUME NEW c
             PROVE  combining(c) \in Nat /\ (combining(c) # 0 <=> c \in DOMAIN Combining)
  OBVIOUS
<1>1. CASE c \in DOMAIN Combining
  <2>1. Combining[c] \in Nat \ {0}
    BY <1>1, UnicodeAssumption
  <2> QED
    BY <1>1, <2>1 DEF combining
<1>2. CASE c \notin DOMAIN Combining
  BY <1>2 DEF combining
<1> QED
  BY <1>1, <1>2

\* A mark is placed behind the last character that it does not pass.
LEMMA Stays ==
    ASSUME NEW C, NEW done \in Seq(C), NEW c
    PROVE  /\ stays(done, c) \in 0..Len(done)
           /\ stays(done, c) # 0 => stops(done[stays(done, c)], c)
           /\ \A i \in 1..Len(done) : i > stays(done, c) => ~ stops(done[i], c)
<1> DEFINE I == {i \in 1..Len(done) : stops(done[i], c)}
<1>1. stays(done, c) = IF I # {} THEN Max(I) ELSE 0
  BY DEF stays, SelectLastInSeq, stops
<1>2. I \subseteq 0..Len(done) /\ Len(done) \in Nat /\ I \subseteq 1..Len(done)
  OBVIOUS
<1>3. I # {} => Max(I) \in I /\ \A y \in I : y =< Max(I)
  <2> HIDE DEF I
  <2> QED
    BY <1>2, Greatest
<1>4. \A i \in 1..Len(done) : stops(done[i], c) => I # {} /\ i =< Max(I)
  BY <1>3
<1>5. I # {} => Max(I) \in 1..Len(done) /\ stops(done[Max(I)], c)
  BY <1>3
<1> HIDE DEF I
<1>6. CASE I = {}
  BY <1>1, <1>2, <1>4, <1>6
<1>7. CASE I # {}
  <2>1. stays(done, c) = Max(I)
    BY <1>1, <1>7
  <2> QED
    BY <1>2, <1>4, <1>5, <1>7, <2>1
<1> QED
  BY <1>6, <1>7

LEMMA StaysThere ==
    ASSUME NEW C, NEW done \in Seq(C), NEW c, NEW k \in 0..Len(done), k # 0 => stops(done[k], c),
           \A i \in 1..Len(done) : i > k => ~ stops(done[i], c)
    PROVE  stays(done, c) = k
<1> DEFINE j == stays(done, c)
<1>1. j \in 0..Len(done) /\ Len(done) \in Nat
      /\ (j # 0 => stops(done[j], c)) /\ \A i \in 1..Len(done) : i > j => ~ stops(done[i], c)
  BY Stays
<1> HIDE DEF j
<1>2. ~ j > k
  BY <1>1
<1>3. ~ k > j
  BY <1>1
<1>4. j = k
  BY <1>1, <1>2, <1>3
<1> QED
  BY <1>4 DEF j

Inserting(C, done, k, c) ==
    /\ inserted(done, k, c) \in Seq(C)
    /\ Len(inserted(done, k, c)) = Len(done) + 1
    /\ \A i \in 1..(Len(done) + 1) :
          inserted(done, k, c)[i] = IF i =< k THEN done[i] ELSE IF i = k + 1 THEN c ELSE done[i - 1]

LEMMA Inserted ==
    ASSUME NEW C, NEW done \in Seq(C), NEW c \in C, NEW k \in 0..Len(done)
    PROVE  Inserting(C, done, k, c)
<1> DEFINE s == inserted(done, k, c)
<1>1. \A i \in 1..(Len(done) + 1) :
         /\ i =< k => i \in 1..Len(done)
         /\ ~ i =< k /\ i # k + 1 => i - 1 \in 1..Len(done)
  OBVIOUS
<1>2. s \in [1..(Len(done) + 1) -> C]
  BY <1>1 DEF inserted
<1> QED
  BY <1>2 DEF inserted, Inserting

\* InsertAt, by position.
LEMMA PlacedByPosition ==
    ASSUME NEW C, NEW done \in Seq(C), NEW c \in C
    PROVE  placed(done, c) = inserted(done, stays(done, c), c)
<1> DEFINE k == stays(done, c)
           s == SubSeq(done, 1, k)
           t == SubSeq(done, k + 1, Len(done))
<1>1. k \in 0..Len(done) /\ Len(done) \in Nat
  BY Stays
<1>2. placed(done, c) = InsertAt(done, k + 1, c)
  BY DEF placed, stays
<1> HIDE DEF k
<1>3. placed(done, c) = (s \o <<c>>) \o t
  <2>1. (k + 1) - 1 = k
    BY <1>1
  <2> QED
    BY <1>2, <2>1 DEF InsertAt
<1>4. s \in Seq(C) /\ Len(s) = k /\ \A i \in 1..k : s[i] = done[i]
  BY <1>1, SubSeqProperties
<1>5. t \in Seq(C) /\ Len(t) = Len(done) - k /\ \A i \in 1..(Len(done) - k) : t[i] = done[k + i]
  BY <1>1, SubSeqProperties
<1> HIDE DEF s, t
<1>6. s \o <<c>> \in Seq(C) /\ Len(s \o <<c>>) = k + 1
      /\ (\A i \in 1..k : (s \o <<c>>)[i] = done[i]) /\ (s \o <<c>>)[k + 1] = c
  BY <1>1, <1>4
<1> DEFINE u == s \o <<c>>
           v == u \o t
<1> HIDE DEF u
<1>7. u \in Seq(C) /\ Len(u) = k + 1 /\ (\A i \in 1..k : u[i] = done[i]) /\ u[k + 1] = c
  BY <1>6 DEF u
<1>8. v \in Seq(C) /\ Len(v) = Len(done) + 1
      /\ \A i \in 1..(Len(done) + 1) : v[i] = IF i =< k + 1 THEN u[i] ELSE t[i - (k + 1)]
  <2>1. /\ u \o t \in Seq(C) /\ Len(u \o t) = Len(u) + Len(t)
        /\ \A i \in 1..(Len(u) + Len(t)) : (u \o t)[i] = IF i =< Len(u) THEN u[i] ELSE t[i - Len(u)]
    BY <1>5, <1>7, ConcatProperties
  <2>2. Len(u) + Len(t) = Len(done) + 1
    BY <1>1, <1>5, <1>7
  <2> QED
    BY <1>7, <2>1, <2>2
<1> HIDE DEF v
<1>9. ASSUME NEW i \in 1..(Len(done) + 1)
      PROVE  v[i] = IF i =< k THEN done[i] ELSE IF i = k + 1 THEN c ELSE done[i - 1]
  <2>1. CASE i =< k + 1
    BY <1>1, <1>7, <1>8, <2>1
  <2>2. CASE i > k + 1
    <3>1. i - (k + 1) \in 1..(Len(done) - k) /\ k + (i - (k + 1)) = i - 1
      BY <1>1, <2>2
    <3>2. v[i] = t[i - (k + 1)] /\ t[i - (k + 1)] = done[i - 1]
      BY <1>1, <1>5, <1>8, <2>2, <3>1
    <3> QED
      BY <1>1, <2>2, <3>2
  <2> QED
    BY <1>1, <2>1, <2>2
<1>10. v = inserted(done, k, c)
  <2>1. inserted(done, k, c) \in Seq(C) /\ Len(inserted(done, k, c)) = Len(done) + 1
        /\ \A i \in 1..(Len(done) + 1) :
             inserted(done, k, c)[i] = IF i =< k THEN done[i] ELSE IF i = k + 1 THEN c ELSE done[i - 1]
    <3>1. Inserting(C, done, k, c)
      BY <1>1, Inserted
    <3> QED
      BY <3>1 DEF Inserting
  <2> QED
    BY <1>8, <1>9, <2>1, SeqEqual
<1> QED
  BY <1>3, <1>10 DEF u, v, k

\* placed, by position, and what it keeps.
LEMMA Placed ==
    ASSUME NEW C, NEW done \in Seq(C), NEW c \in C
    PROVE  /\ placed(done, c) \in Seq(C)
           /\ Len(placed(done, c)) = Len(done) + 1
           /\ placed(done, c) = inserted(done, stays(done, c), c)
<1>1. stays(done, c) \in 0..Len(done)
  BY Stays
<1> QED
  <2>1. Inserting(C, done, stays(done, c), c)
    BY <1>1, Inserted
  <2> QED
    BY <2>1, PlacedByPosition DEF Inserting

\* A character that does not pass the last one is placed at the end.
LEMMA PlacedLast ==
    ASSUME NEW C, NEW done \in Seq(C), NEW c \in C, done # << >> => stops(done[Len(done)], c)
    PROVE  placed(done, c) = Append(done, c)
<1> DEFINE n == Len(done)
<1>1. n \in Nat /\ (n # 0 => done # << >>)
  OBVIOUS
<1>2. stays(done, c) = n
  <2>1. n \in 0..n /\ (n # 0 => stops(done[n], c)) /\ \A i \in 1..n : ~ i > n
    BY <1>1
  <2> QED
    BY <2>1, StaysThere
<1>3. placed(done, c) = inserted(done, n, c)
  BY <1>2, Placed
<1>4. /\ inserted(done, n, c) \in Seq(C) /\ Len(inserted(done, n, c)) = n + 1
      /\ \A i \in 1..(n + 1) :
           inserted(done, n, c)[i] = IF i =< n THEN done[i] ELSE IF i = n + 1 THEN c ELSE done[i - 1]
  <2>1. n \in 0..Len(done)
    BY <1>1
  <2> HIDE DEF n
  <2>2. /\ inserted(done, n, c) \in Seq(C) /\ Len(inserted(done, n, c)) = Len(done) + 1
        /\ \A i \in 1..(Len(done) + 1) :
             inserted(done, n, c)[i] = IF i =< n THEN done[i] ELSE IF i = n + 1 THEN c ELSE done[i - 1]
    <3>1. Inserting(C, done, n, c)
      BY <2>1, Inserted
    <3> QED
      BY <3>1 DEF Inserting
  <2> QED
    BY <2>2 DEF n
<1>5. /\ Append(done, c) \in Seq(C) /\ Len(Append(done, c)) = n + 1
      /\ (\A i \in 1..n : Append(done, c)[i] = done[i]) /\ Append(done, c)[n + 1] = c
  BY AppendProperties
<1>6. \A i \in 1..(n + 1) : inserted(done, n, c)[i] = Append(done, c)[i]
  <2> HIDE DEF n
  <2> QED
    BY <1>1, <1>4, <1>5
<1> QED
  BY <1>3, <1>4, <1>5, <1>6, SeqEqual

\* Two insertions are one another's.
LEMMA InsertedTwice ==
    ASSUME NEW C, NEW s \in Seq(C), NEW b \in C, NEW c \in C,
           NEW p \in 0..Len(s), NEW q \in 0..Len(s), p =< q
    PROVE  inserted(inserted(s, p, b), q + 1, c) = inserted(inserted(s, q, c), p, b)
<1> DEFINE n == Len(s)
           x == inserted(s, p, b)
           y == inserted(s, q, c)
           xx == inserted(x, q + 1, c)
           yy == inserted(y, p, b)
<1>1. n \in Nat
  OBVIOUS
<1>2. /\ x \in Seq(C) /\ Len(x) = n + 1
      /\ \A i \in 1..(n + 1) : x[i] = IF i =< p THEN s[i] ELSE IF i = p + 1 THEN b ELSE s[i - 1]
  <2>1. Inserting(C, s, p, b)
    BY Inserted
  <2> QED
    BY <2>1 DEF Inserting
<1>3. /\ y \in Seq(C) /\ Len(y) = n + 1
      /\ \A i \in 1..(n + 1) : y[i] = IF i =< q THEN s[i] ELSE IF i = q + 1 THEN c ELSE s[i - 1]
  <2>1. Inserting(C, s, q, c)
    BY Inserted
  <2> QED
    BY <2>1 DEF Inserting
<1> HIDE DEF n, x, y
<1>4. /\ xx \in Seq(C) /\ Len(xx) = (n + 1) + 1
      /\ \A i \in 1..((n + 1) + 1) : xx[i] = IF i =< q + 1 THEN x[i] ELSE IF i = (q + 1) + 1 THEN c ELSE x[i - 1]
  <2>1. q + 1 \in 0..Len(x)
    BY <1>1, <1>2 DEF n
  <2>2. /\ inserted(x, q + 1, c) \in Seq(C) /\ Len(inserted(x, q + 1, c)) = Len(x) + 1
        /\ \A i \in 1..(Len(x) + 1) :
             inserted(x, q + 1, c)[i] = IF i =< q + 1 THEN x[i] ELSE IF i = (q + 1) + 1 THEN c ELSE x[i - 1]
    <3>1. x \in Seq(C)
      BY <1>2
    <3>2. Inserting(C, x, q + 1, c)
      BY <2>1, <3>1, Inserted
    <3> QED
      BY <3>2 DEF Inserting
  <2> QED
    BY <1>2, <2>2
<1>5. /\ yy \in Seq(C) /\ Len(yy) = (n + 1) + 1
      /\ \A i \in 1..((n + 1) + 1) : yy[i] = IF i =< p THEN y[i] ELSE IF i = p + 1 THEN b ELSE y[i - 1]
  <2>1. p \in 0..Len(y)
    BY <1>1, <1>3 DEF n
  <2>2. /\ inserted(y, p, b) \in Seq(C) /\ Len(inserted(y, p, b)) = Len(y) + 1
        /\ \A i \in 1..(Len(y) + 1) :
             inserted(y, p, b)[i] = IF i =< p THEN y[i] ELSE IF i = p + 1 THEN b ELSE y[i - 1]
    <3>1. y \in Seq(C)
      BY <1>3
    <3>2. Inserting(C, y, p, b)
      BY <2>1, <3>1, Inserted
    <3> QED
      BY <3>2 DEF Inserting
  <2> QED
    BY <1>3, <2>2
<1> HIDE DEF xx, yy
<1>6. p \in 0..n /\ q \in 0..n
  BY DEF n
<1>7. ASSUME NEW i \in 1..((n + 1) + 1) PROVE xx[i] = yy[i]
  <2>1. CASE i =< p
    <3>1. xx[i] = s[i]
      BY <1>1, <1>2, <1>4, <1>6, <2>1
    <3>2. yy[i] = s[i]
      BY <1>1, <1>3, <1>5, <1>6, <2>1
    <3> QED
      BY <3>1, <3>2
  <2>2. CASE i = p + 1
    <3>1. xx[i] = b
      BY <1>1, <1>2, <1>4, <1>6, <2>2
    <3>2. yy[i] = b
      BY <1>1, <1>3, <1>5, <1>6, <2>2
    <3> QED
      BY <3>1, <3>2
  <2>3. CASE i > p + 1 /\ i =< q + 1
    <3>1. xx[i] = s[i - 1]
      BY <1>1, <1>2, <1>4, <1>6, <2>3
    <3>2. i - 1 \in 1..(n + 1) /\ i - 1 =< q /\ yy[i] = y[i - 1]
      BY <1>1, <1>5, <1>6, <2>3
    <3> QED
      BY <1>3, <3>1, <3>2
  <2>4. CASE i = (q + 1) + 1
    <3>1. xx[i] = c
      BY <1>1, <1>4, <1>6, <2>4
    <3>2. i - 1 \in 1..(n + 1) /\ i - 1 = q + 1 /\ yy[i] = y[i - 1] /\ ~ (i - 1 =< q)
      BY <1>1, <1>5, <1>6, <2>4
    <3> QED
      BY <1>3, <3>1, <3>2
  <2>5. CASE i > (q + 1) + 1
    <3>1. i - 1 \in 1..(n + 1) /\ i - 1 > q + 1 /\ i - 1 > p + 1 /\ xx[i] = x[i - 1] /\ yy[i] = y[i - 1]
      BY <1>1, <1>4, <1>5, <1>6, <2>5
    <3>2. x[i - 1] = s[(i - 1) - 1]
      BY <1>1, <1>2, <1>6, <3>1
    <3>3. y[i - 1] = s[(i - 1) - 1]
      BY <1>1, <1>3, <1>6, <3>1
    <3> QED
      BY <3>1, <3>2, <3>3
  <2> QED
    BY <1>1, <1>6, <2>1, <2>2, <2>3, <2>4, <2>5
<1>8. xx = yy
  BY <1>4, <1>5, <1>7, SeqEqual
<1> QED
  BY <1>8 DEF xx, yy, x, y

\* A mark of a lower class and one of a higher class.
LEMMA LowerAndHigher ==
    ASSUME NEW C, NEW s \in Seq(C), NEW b \in C, NEW c \in C,
           combining(b) # 0, combining(b) < combining(c)
    PROVE  placed(placed(s, b), c) = placed(placed(s, c), b)
<1> DEFINE n == Len(s)
           p == stays(s, b)
           q == stays(s, c)
           x == placed(s, b)
           y == placed(s, c)
<1>1. n \in Nat /\ p \in 0..n /\ (p # 0 => stops(s[p], b)) /\ \A i \in 1..n : i > p => ~ stops(s[i], b)
  BY Stays
<1>2. q \in 0..n /\ (q # 0 => stops(s[q], c)) /\ \A i \in 1..n : i > q => ~ stops(s[i], c)
  BY Stays
<1>3. /\ x \in Seq(C) /\ Len(x) = n + 1 /\ x = inserted(s, p, b)
      /\ \A i \in 1..(n + 1) : x[i] = IF i =< p THEN s[i] ELSE IF i = p + 1 THEN b ELSE s[i - 1]
  <2>1. x = inserted(s, p, b)
    BY Placed
  <2>2. p \in 0..Len(s)
    BY <1>1
  <2> HIDE DEF p
  <2>3. /\ inserted(s, p, b) \in Seq(C) /\ Len(inserted(s, p, b)) = Len(s) + 1
        /\ \A i \in 1..(Len(s) + 1) :
             inserted(s, p, b)[i] = IF i =< p THEN s[i] ELSE IF i = p + 1 THEN b ELSE s[i - 1]
    <3>1. Inserting(C, s, p, b)
      BY <2>2, Inserted
    <3> QED
      BY <3>1 DEF Inserting
  <2> QED
    BY <2>1, <2>3
<1>4. /\ y \in Seq(C) /\ Len(y) = n + 1 /\ y = inserted(s, q, c)
      /\ \A i \in 1..(n + 1) : y[i] = IF i =< q THEN s[i] ELSE IF i = q + 1 THEN c ELSE s[i - 1]
  <2>1. y = inserted(s, q, c)
    BY Placed
  <2>2. q \in 0..Len(s)
    BY <1>2
  <2> HIDE DEF q
  <2>3. /\ inserted(s, q, c) \in Seq(C) /\ Len(inserted(s, q, c)) = Len(s) + 1
        /\ \A i \in 1..(Len(s) + 1) :
             inserted(s, q, c)[i] = IF i =< q THEN s[i] ELSE IF i = q + 1 THEN c ELSE s[i - 1]
    <3>1. Inserting(C, s, q, c)
      BY <2>2, Inserted
    <3> QED
      BY <3>1 DEF Inserting
  <2> QED
    BY <2>1, <2>3
<1> HIDE DEF n, p, q, x, y
<1>5. combining(c) \in Nat /\ combining(b) \in Nat /\ combining(c) # 0
      /\ stops(b, c) /\ ~ stops(c, b) /\ \A d : stops(d, b) => stops(d, c)
  BY Classes DEF stops
<1>6. p =< q
  <2> SUFFICES ASSUME p > q PROVE FALSE
    BY <1>1, <1>2
  <2>1. p \in 1..n /\ p # 0
    BY <1>1, <1>2
  <2>2. stops(s[p], c)
    BY <1>1, <1>5, <2>1
  <2> QED
    BY <1>2, <2>1, <2>2
<1>7. stays(x, c) = q + 1
  <2>1. q + 1 \in 0..Len(x) /\ q + 1 \in 1..(n + 1)
    BY <1>1, <1>2, <1>3
  <2>2. stops(x[q + 1], c)
    <3>1. CASE q = p
      <4>1. x[q + 1] = b
        BY <1>1, <1>3, <2>1, <3>1
      <4> QED
        BY <1>5, <4>1
    <3>2. CASE q > p
      <4>1. x[q + 1] = s[(q + 1) - 1] /\ (q + 1) - 1 = q /\ q # 0
        BY <1>1, <1>2, <1>3, <2>1, <3>2
      <4> QED
        BY <1>2, <4>1
    <3> QED
      BY <1>1, <1>2, <1>6, <3>1, <3>2
  <2>3. ASSUME NEW i \in 1..Len(x), i > q + 1 PROVE ~ stops(x[i], c)
    <3>1. i \in 1..(n + 1) /\ i - 1 \in 1..n /\ i - 1 > q /\ i > p + 1
      BY <1>1, <1>2, <1>3, <1>6, <2>3
    <3>2. x[i] = s[i - 1]
      BY <1>1, <1>3, <3>1
    <3> QED
      BY <1>2, <3>1, <3>2
  <2> QED
    BY <1>3, <2>1, <2>2, <2>3, StaysThere
<1>8. stays(y, b) = p
  <2>1. p \in 0..Len(y)
    BY <1>1, <1>4
  <2>2. p # 0 => stops(y[p], b)
    <3> SUFFICES ASSUME p # 0 PROVE stops(y[p], b)
      OBVIOUS
    <3>1. p \in 1..(n + 1) /\ y[p] = s[p]
      BY <1>1, <1>2, <1>4, <1>6
    <3> QED
      BY <1>1, <3>1
  <2>3. ASSUME NEW i \in 1..Len(y), i > p PROVE ~ stops(y[i], b)
    <3>1. i \in 1..(n + 1)
      BY <1>4
    <3>2. CASE i =< q
      <4>1. i \in 1..n /\ y[i] = s[i]
        BY <1>1, <1>2, <1>4, <3>1, <3>2
      <4> QED
        BY <1>1, <2>3, <4>1
    <3>3. CASE i = q + 1
      <4>1. y[i] = c
        BY <1>1, <1>2, <1>4, <3>1, <3>3
      <4> QED
        BY <1>5, <4>1
    <3>4. CASE i > q + 1
      <4>1. i - 1 \in 1..n /\ i - 1 > p /\ y[i] = s[i - 1]
        BY <1>1, <1>2, <1>4, <1>6, <3>1, <3>4
      <4> QED
        BY <1>1, <4>1
    <3> QED
      BY <1>2, <3>1, <3>2, <3>3, <3>4
  <2> QED
    BY <1>4, <2>1, <2>2, <2>3, StaysThere
<1>9. placed(x, c) = inserted(x, q + 1, c) /\ placed(y, b) = inserted(y, p, b)
  BY <1>3, <1>4, <1>7, <1>8, Placed
<1>10. inserted(inserted(s, p, b), q + 1, c) = inserted(inserted(s, q, c), p, b)
  BY <1>1, <1>2, <1>6, InsertedTwice DEF n
<1> QED
  BY <1>3, <1>4, <1>9, <1>10 DEF x, y

placing(C) == [p \in Seq(C) \X C |-> placed(p[1], p[2])]

ordered(text) == FoldLeft(placed, << >>, text)

\* What FoldLeft computes, one character after the other.
LEMMA Ordering ==
    ASSUME NEW C, NEW text \in Seq(C)
    PROVE  \E f \in [0..Len(text) -> Seq(C)] :
              FoldedBy(placing(C), text, f) /\ ordered(text) = f[Len(text)]
<1> DEFINE step == placing(C)
           Applied(g, s) == IF s = {} THEN << >> ELSE placed(g[s \ {Max(s)}], text[Max(s)])
<1>1. step \in [Seq(C) \X C -> Seq(C)] /\ \A s \in Seq(C), c \in C : step[<<s, c>>] = placed(s, c)
  BY Placed DEF placing
<1> DEFINE D == Seq(C)
<1>2. Len(text) \in Nat /\ DOMAIN text = 1..Len(text) /\ Steps(D, C, step)
  BY <1>1 DEF Steps
<1> HIDE DEF step, D
<1>3. ASSUME NEW s \in SUBSET DOMAIN text, s # {}
      PROVE  s \ {Max(s)} \in SUBSET DOMAIN text /\ text[Max(s)] \in C
  <2>1. s \subseteq 0..Len(text)
    BY <1>2
  <2>2. Max(s) \in s
    BY <1>2, <1>3, <2>1, Greatest
  <2> QED
    BY <1>2, <2>2
<1>4. PICK g \in [SUBSET DOMAIN text -> Seq(C)] :
          \A s \in SUBSET DOMAIN text :
             g[s] = IF s = {} THEN << >> ELSE step[<<g[s \ {Max(s)}], text[Max(s)]>>]
  <2>1. \E g \in [SUBSET DOMAIN text -> D] : Folds(step, text, g)
    BY <1>2, FoldExists
  <2> QED
    BY <2>1 DEF D, Folds
<1>5. g = [s \in SUBSET DOMAIN text |-> Applied(g, s)]
  <2>1. \A s \in SUBSET DOMAIN text : g[s] = Applied(g, s)
    BY <1>1, <1>3, <1>4
  <2> QED
    BY <2>1
<1> DEFINE iter[s \in SUBSET DOMAIN text] ==
               IF s = {} THEN << >> ELSE placed(iter[s \ {Max(s)}], text[Max(s)])
<1>6. ordered(text) = iter[DOMAIN text]
  BY DEF ordered, FoldLeft, MapThenFoldSet
<1>7. iter = [s \in SUBSET DOMAIN text |-> IF s = {} THEN << >> ELSE placed(iter[s \ {Max(s)}], text[Max(s)])]
  BY <1>5
<1> HIDE DEF iter
<1>8. iter[{}] = << >>
  BY <1>7
<1>9. ASSUME NEW m \in 1..Len(text), iter[(1..m) \ {Max(1..m)}] \in Seq(C)
      PROVE  iter[1..m] = step[<<iter[(1..m) \ {Max(1..m)}], text[Max(1..m)]>>]
  <2>1. m \in 1..m /\ \A i \in 1..m : i \in DOMAIN text
    BY <1>2
  <2>2. 1..m \in SUBSET DOMAIN text /\ 1..m # {}
    BY <2>1
  <2> QED
    BY <1>1, <1>3, <1>7, <1>9, <2>2
<1>10. \E f \in [0..Len(text) -> Seq(C)] : FoldedBy(step, text, f) /\ f[Len(text)] = iter[DOMAIN text]
  <2>1. FoldsWithin(D, step, text, iter)
    BY <1>8, <1>9 DEF D, FoldsWithin
  <2>2. \E f \in [0..Len(text) -> D] : FoldedBy(step, text, f) /\ f[Len(text)] = iter[DOMAIN text]
    BY <1>2, <2>1, FoldByStep
  <2> QED
    BY <2>2 DEF D
<1> QED
  BY <1>6, <1>10 DEF step

\* A text is ordered character by character.
LEMMA OrderedMore ==
    ASSUME NEW C, NEW text \in Seq(C), NEW c \in C
    PROVE  ordered(Append(text, c)) = placed(ordered(text), c)
<1>1. PICK f \in [0..Len(text) -> Seq(C)] : FoldedBy(placing(C), text, f) /\ ordered(text) = f[Len(text)]
  BY Ordering
<1>2. Append(text, c) \in Seq(C)
  OBVIOUS
<1>3. PICK g \in [0..Len(Append(text, c)) -> Seq(C)] :
          FoldedBy(placing(C), Append(text, c), g) /\ ordered(Append(text, c)) = g[Len(Append(text, c))]
  BY <1>2, Ordering
<1>4. g[Len(Append(text, c))] = placing(C)[<<f[Len(text)], c>>]
  BY <1>1, <1>3, FoldedMore
<1>5. f[Len(text)] \in Seq(C)
  BY <1>1
<1>6. placing(C)[<<f[Len(text)], c>>] = placed(f[Len(text)], c)
  BY <1>5 DEF placing
<1> QED
  BY <1>1, <1>3, <1>4, <1>6

LEMMA OrderedNothing == ordered(<< >>) = << >>
<1>1. << >> \in Seq(CodePoint) /\ Len(<< >>) = 0
  BY EmptySeq
<1>2. PICK f \in [0..0 -> Seq(CodePoint)] : FoldedBy(placing(CodePoint), << >>, f) /\ ordered(<< >>) = f[0]
  BY <1>1, Ordering
<1> QED
  BY <1>2 DEF FoldedBy

LEMMA OrderedIsText ==
    ASSUME NEW C, NEW text \in Seq(C)
    PROVE  ordered(text) \in Seq(C)
<1>1. PICK f \in [0..Len(text) -> Seq(C)] : ordered(text) = f[Len(text)]
  BY Ordering
<1> QED
  BY <1>1

LEMMA AppendJoins ==
    ASSUME NEW C, NEW s \in Seq(C), NEW t \in Seq(C), NEW c \in C
    PROVE  s \o Append(t, c) = Append(s \o t, c)
<1>1. Append(t, c) = t \o <<c>> /\ <<c>> \in Seq(C) /\ s \o t \in Seq(C)
  BY AppendIsConcat
<1>2. Append(s \o t, c) = (s \o t) \o <<c>>
  BY <1>1, AppendIsConcat
<1> QED
  BY <1>1, <1>2, ConcatAssociative

\* A text in canonical order, and that ordering makes one and leaves one alone.
InCanonicalOrder(text) == \A i \in 1..(Len(text) - 1) : stops(text[i], text[i + 1])

LEMMA PlacedInOrder ==
    ASSUME NEW C, NEW done \in Seq(C), NEW c \in C, InCanonicalOrder(done)
    PROVE  InCanonicalOrder(placed(done, c))
<1> DEFINE n == Len(done)
           k == stays(done, c)
           s == placed(done, c)
<1>1. n \in Nat /\ k \in 0..n /\ (k # 0 => stops(done[k], c)) /\ \A i \in 1..n : i > k => ~ stops(done[i], c)
  BY Stays
<1>2. s = inserted(done, k, c) /\ k \in 0..Len(done)
  BY <1>1, Placed
<1>3. \A i \in 1..(n - 1) : stops(done[i], done[i + 1])
  BY DEF InCanonicalOrder
<1> HIDE DEF k, s
<1>4. /\ Len(s) = n + 1
      /\ \A i \in 1..(n + 1) : s[i] = IF i =< k THEN done[i] ELSE IF i = k + 1 THEN c ELSE done[i - 1]
  <2>1. /\ Len(inserted(done, k, c)) = Len(done) + 1
        /\ \A i \in 1..(Len(done) + 1) :
              inserted(done, k, c)[i] = IF i =< k THEN done[i] ELSE IF i = k + 1 THEN c ELSE done[i - 1]
    <3>1. k \in 0..Len(done)
      BY <1>2
    <3> QED
      <4>1. Inserting(C, done, k, c)
        BY <3>1, Inserted
      <4> QED
        BY <4>1 DEF Inserting
  <2> QED
    BY <1>2, <2>1
<1> HIDE DEF n
<1>5. ASSUME NEW i \in 1..n PROVE stops(s[i], s[i + 1])
  <2>1. CASE i < k
    <3>1. i \in 1..(n - 1) /\ s[i] = done[i] /\ s[i + 1] = done[i + 1]
      BY <1>1, <1>4, <2>1
    <3> QED
      BY <1>3, <3>1
  <2>2. CASE i = k
    <3>1. s[i] = done[k] /\ s[i + 1] = c /\ k # 0
      BY <1>1, <1>4, <2>2
    <3> QED
      BY <1>1, <3>1
  <2>3. CASE i = k + 1
    <3>1. s[i] = c /\ s[i + 1] = done[i] /\ i > k
      BY <1>1, <1>4, <2>3
    <3>2. ~ stops(done[i], c)
      BY <1>1, <3>1
    <3> QED
      BY <3>1, <3>2, Classes DEF stops
  <2>4. CASE i > k + 1
    <3>1. i - 1 \in 1..(n - 1) /\ (i - 1) + 1 = i /\ s[i] = done[i - 1] /\ s[i + 1] = done[i]
      BY <1>1, <1>4, <2>4
    <3> QED
      BY <1>3, <3>1
  <2> QED
    BY <1>1, <2>1, <2>2, <2>3, <2>4
<1>6. InCanonicalOrder(s)
  BY <1>1, <1>4, <1>5 DEF InCanonicalOrder
<1> QED
  BY <1>6 DEF s

LEMMA OrderedInOrder ==
    ASSUME NEW C, NEW text \in Seq(C)
    PROVE  InCanonicalOrder(ordered(text))
<1> DEFINE S == {s \in Seq(C) : InCanonicalOrder(ordered(s))}
<1>1. << >> \in S
  <2>1. << >> \in Seq(C) /\ Len(<< >>) = 0
    BY EmptySeq
  <2>2. InCanonicalOrder(<< >>)
    BY <2>1 DEF InCanonicalOrder
  <2> QED
    BY <2>1, <2>2, OrderedNothing
<1>2. ASSUME NEW s \in Seq(C), NEW c \in C, s \in S PROVE Append(s, c) \in S
  <2>1. ordered(s) \in Seq(C) /\ ordered(Append(s, c)) = placed(ordered(s), c) /\ Append(s, c) \in Seq(C)
    BY OrderedIsText, OrderedMore
  <2>2. InCanonicalOrder(placed(ordered(s), c))
    BY <1>2, <2>1, PlacedInOrder
  <2> QED
    BY <2>1, <2>2
<1> HIDE DEF S
<1>3. text \in S
  BY <1>1, <1>2, ForEveryText
<1> QED
  BY <1>3 DEF S

LEMMA InOrderStays ==
    ASSUME NEW C, NEW text \in Seq(C), InCanonicalOrder(text)
    PROVE  ordered(text) = text
<1> DEFINE S == {s \in Seq(C) : InCanonicalOrder(s) => ordered(s) = s}
<1>1. << >> \in S
  BY EmptySeq, OrderedNothing
<1>2. ASSUME NEW s \in Seq(C), NEW c \in C, s \in S PROVE Append(s, c) \in S
  <2> SUFFICES ASSUME InCanonicalOrder(Append(s, c)) PROVE ordered(Append(s, c)) = Append(s, c)
    OBVIOUS
  <2> DEFINE n == Len(s)
             t == Append(s, c)
  <2>1. n \in Nat /\ Len(t) = n + 1 /\ t[n + 1] = c /\ \A i \in 1..n : t[i] = s[i]
    BY AppendProperties
  <2>2. \A i \in 1..n : stops(t[i], t[i + 1])
    <3>1. (n + 1) - 1 = n
      BY <2>1
    <3> QED
      BY <2>1, <3>1 DEF InCanonicalOrder
  <2> HIDE DEF n, t
  <2>3. \A i \in 1..(n - 1) : stops(s[i], s[i + 1])
    <3> SUFFICES ASSUME NEW i \in 1..(n - 1) PROVE stops(s[i], s[i + 1])
      OBVIOUS
    <3>1. i \in 1..n /\ i + 1 \in 1..n
      BY <2>1
    <3> QED
      BY <2>1, <2>2, <3>1
  <2>4. ordered(s) = s
    BY <1>2, <2>3 DEF InCanonicalOrder, n
  <2>5. s # << >> => stops(s[n], c)
    <3> SUFFICES ASSUME s # << >> PROVE stops(s[n], c)
      OBVIOUS
    <3>1. n \in 1..n
      BY EmptySeq DEF n
    <3> QED
      BY <2>1, <2>2, <3>1
  <2>6. placed(s, c) = Append(s, c)
    BY <2>5, PlacedLast DEF n
  <2> QED
    BY <2>4, <2>6, OrderedMore
<1> HIDE DEF S
<1>3. text \in S
  BY <1>1, <1>2, ForEveryText
<1> QED
  BY <1>3 DEF S

\* A mark of a higher class may as well come after the marks it is to be placed behind.
LEMMA Passing ==
    ASSUME NEW C, NEW text \in Seq(C), NEW c \in C, NEW marks \in Seq(C),
           \A i \in 1..Len(marks) : combining(marks[i]) # 0 /\ combining(marks[i]) < combining(c)
    PROVE  ordered(Append(text, c) \o marks) = placed(ordered(text \o marks), c)
<1> DEFINE D == {d \in C : combining(d) # 0 /\ combining(d) < combining(c)}
           S == {s \in Seq(D) : ordered(Append(text, c) \o s) = placed(ordered(text \o s), c)}
<1>1. Append(text, c) \in Seq(C)
  OBVIOUS
<1>2. << >> \in S
  <2>1. Append(text, c) \o << >> = Append(text, c) /\ text \o << >> = text /\ << >> \in Seq(D)
    BY <1>1, ConcatEmptySeq, EmptySeq
  <2>2. ordered(Append(text, c)) = placed(ordered(text), c)
    BY OrderedMore
  <2> HIDE DEF D
  <2> QED
    BY <2>1, <2>2
<1>3. ASSUME NEW s \in Seq(D), NEW d \in D, s \in S PROVE Append(s, d) \in S
  <2>1. s \in Seq(C) /\ d \in C /\ combining(d) # 0 /\ combining(d) < combining(c)
    <3>1. D \subseteq C
      OBVIOUS
    <3>2. s \in Seq(C)
      <4> HIDE DEF D
      <4> QED
        BY <3>1, SeqMonotonic
    <3> QED
      BY <3>2
  <2>2. ordered(Append(text, c) \o s) = placed(ordered(text \o s), c)
    BY <1>3
  <2>3. Append(s, d) \in Seq(D)
    OBVIOUS
  <2> HIDE DEF D, S
  <2>4. /\ Append(text, c) \o Append(s, d) = Append(Append(text, c) \o s, d)
        /\ text \o Append(s, d) = Append(text \o s, d)
    BY <1>1, <2>1, AppendJoins
  <2>5. Append(text, c) \o s \in Seq(C) /\ text \o s \in Seq(C)
    BY <1>1, <2>1
  <2>6. /\ ordered(Append(Append(text, c) \o s, d)) = placed(ordered(Append(text, c) \o s), d)
        /\ ordered(Append(text \o s, d)) = placed(ordered(text \o s), d)
        /\ ordered(text \o s) \in Seq(C)
    BY <2>1, <2>5, OrderedMore, OrderedIsText
  <2>7. placed(placed(ordered(text \o s), d), c) = placed(placed(ordered(text \o s), c), d)
    BY <2>1, <2>6, LowerAndHigher
  <2>8. ordered(Append(text, c) \o Append(s, d)) = placed(ordered(text \o Append(s, d)), c)
    BY <2>2, <2>4, <2>6, <2>7
  <2> QED
    BY <2>3, <2>8 DEF S
<1>4. marks \in Seq(D)
  OBVIOUS
<1> HIDE DEF D, S
<1>5. marks \in S
  BY <1>2, <1>3, <1>4, ForEveryText
<1> QED
  BY <1>5 DEF S

-----------------------------------------------------------------------------
(***************************************************************************)
(* Canonical composition, one character after the other.                   *)
(***************************************************************************)
adding(C) == [p \in Seq(C) \X C |-> added(p[1], p[2])]

composed(text) == FoldLeft(added, << >>, text)

Composable(C) == \A pair \in DOMAIN Composes : Composes[pair] \in C

LEMMA Letter ==
    ASSUME NEW C, NEW done \in Seq(C)
    PROVE  /\ letter(done) \in 0..Len(done)
           /\ \A i \in 1..Len(done) : i > letter(done) => combining(done[i]) # 0
<1> DEFINE I == {i \in 1..Len(done) : combining(done[i]) = 0}
<1>1. letter(done) = IF I # {} THEN Max(I) ELSE 0
  BY DEF letter, SelectLastInSeq
<1>2. I \subseteq 0..Len(done) /\ Len(done) \in Nat /\ I \subseteq 1..Len(done)
  OBVIOUS
<1>3. I # {} => Max(I) \in I /\ \A y \in I : y =< Max(I)
  <2> HIDE DEF I
  <2> QED
    BY <1>2, Greatest
<1>4. \A i \in 1..Len(done) : combining(done[i]) = 0 => I # {} /\ i =< Max(I)
  BY <1>3
<1> HIDE DEF I
<1>5. CASE I = {}
  BY <1>1, <1>2, <1>4, <1>5
<1>6. CASE I # {}
  <2>1. letter(done) = Max(I) /\ Max(I) \in 1..Len(done)
    BY <1>1, <1>2, <1>3, <1>6
  <2> QED
    BY <1>2, <1>4, <2>1
<1> QED
  BY <1>5, <1>6

\* A character joins the last letter, or comes last.
Joins(done, c) ==
    /\ letter(done) # 0 /\ <<done[letter(done)], c>> \in DOMAIN Composes
    /\ \A i \in (letter(done) + 1)..Len(done) : combining(done[i]) < combining(c)

LEMMA Added ==
    ASSUME NEW done, NEW c
    PROVE  added(done, c) = IF Joins(done, c)
                            THEN [done EXCEPT ![letter(done)] = Composes[<<done[letter(done)], c>>]]
                            ELSE Append(done, c)
BY DEF added, Joins, letter, ReplaceAt

LEMMA AddedIsText ==
    ASSUME NEW C, Composable(C), NEW done \in Seq(C), NEW c \in C
    PROVE  added(done, c) \in Seq(C)
<1>1. CASE Joins(done, c)
  <2>1. letter(done) \in 1..Len(done)
    BY <1>1, Letter DEF Joins
  <2>2. Composes[<<done[letter(done)], c>>] \in C
    BY <1>1 DEF Joins, Composable
  <2> QED
    BY <1>1, <2>1, <2>2, Added, ExceptSeq
<1>2. CASE ~ Joins(done, c)
  <2>1. added(done, c) = Append(done, c)
    BY <1>2, Added
  <2> QED
    BY <2>1
<1> QED
  BY <1>1, <1>2

\* What FoldLeft computes, one character after the other.
LEMMA Composing ==
    ASSUME NEW C, Composable(C), NEW text \in Seq(C)
    PROVE  \E f \in [0..Len(text) -> Seq(C)] :
              FoldedBy(adding(C), text, f) /\ composed(text) = f[Len(text)]
<1> DEFINE step == adding(C)
           Applied(g, s) == IF s = {} THEN << >> ELSE added(g[s \ {Max(s)}], text[Max(s)])
<1>1. step \in [Seq(C) \X C -> Seq(C)] /\ \A s \in Seq(C), c \in C : step[<<s, c>>] = added(s, c)
  BY AddedIsText DEF adding
<1> DEFINE D == Seq(C)
<1>2. Len(text) \in Nat /\ DOMAIN text = 1..Len(text) /\ Steps(D, C, step)
  BY <1>1 DEF Steps
<1> HIDE DEF step, D
<1>3. ASSUME NEW s \in SUBSET DOMAIN text, s # {}
      PROVE  s \ {Max(s)} \in SUBSET DOMAIN text /\ text[Max(s)] \in C
  <2>1. s \subseteq 0..Len(text)
    BY <1>2
  <2>2. Max(s) \in s
    BY <1>2, <1>3, <2>1, Greatest
  <2> QED
    BY <1>2, <2>2
<1>4. PICK g \in [SUBSET DOMAIN text -> Seq(C)] :
          \A s \in SUBSET DOMAIN text :
             g[s] = IF s = {} THEN << >> ELSE step[<<g[s \ {Max(s)}], text[Max(s)]>>]
  <2>1. \E g \in [SUBSET DOMAIN text -> D] : Folds(step, text, g)
    BY <1>2, FoldExists
  <2> QED
    BY <2>1 DEF D, Folds
<1>5. g = [s \in SUBSET DOMAIN text |-> Applied(g, s)]
  <2>1. \A s \in SUBSET DOMAIN text : g[s] = Applied(g, s)
    BY <1>1, <1>3, <1>4
  <2> QED
    BY <2>1
<1> DEFINE iter[s \in SUBSET DOMAIN text] ==
               IF s = {} THEN << >> ELSE added(iter[s \ {Max(s)}], text[Max(s)])
<1>6. composed(text) = iter[DOMAIN text]
  BY DEF composed, FoldLeft, MapThenFoldSet
<1>7. iter = [s \in SUBSET DOMAIN text |-> IF s = {} THEN << >> ELSE added(iter[s \ {Max(s)}], text[Max(s)])]
  BY <1>5
<1> HIDE DEF iter
<1>8. iter[{}] = << >>
  BY <1>7
<1>9. ASSUME NEW m \in 1..Len(text), iter[(1..m) \ {Max(1..m)}] \in Seq(C)
      PROVE  iter[1..m] = step[<<iter[(1..m) \ {Max(1..m)}], text[Max(1..m)]>>]
  <2>1. m \in 1..m /\ \A i \in 1..m : i \in DOMAIN text
    BY <1>2
  <2>2. 1..m \in SUBSET DOMAIN text /\ 1..m # {}
    BY <2>1
  <2> QED
    BY <1>1, <1>3, <1>7, <1>9, <2>2
<1>10. \E f \in [0..Len(text) -> Seq(C)] : FoldedBy(step, text, f) /\ f[Len(text)] = iter[DOMAIN text]
  <2>1. FoldsWithin(D, step, text, iter)
    BY <1>8, <1>9 DEF D, FoldsWithin
  <2>2. \E f \in [0..Len(text) -> D] : FoldedBy(step, text, f) /\ f[Len(text)] = iter[DOMAIN text]
    BY <1>2, <2>1, FoldByStep
  <2> QED
    BY <2>2 DEF D
<1> QED
  BY <1>6, <1>10 DEF step

\* A text is composed character by character.
LEMMA ComposedMore ==
    ASSUME NEW C, Composable(C), NEW text \in Seq(C), NEW c \in C
    PROVE  composed(Append(text, c)) = added(composed(text), c)
<1>1. PICK f \in [0..Len(text) -> Seq(C)] : FoldedBy(adding(C), text, f) /\ composed(text) = f[Len(text)]
  BY Composing
<1>2. Append(text, c) \in Seq(C)
  OBVIOUS
<1>3. PICK g \in [0..Len(Append(text, c)) -> Seq(C)] :
          FoldedBy(adding(C), Append(text, c), g) /\ composed(Append(text, c)) = g[Len(Append(text, c))]
  BY <1>2, Composing
<1>4. g[Len(Append(text, c))] = adding(C)[<<f[Len(text)], c>>]
  BY <1>1, <1>3, FoldedMore
<1>5. f[Len(text)] \in Seq(C)
  BY <1>1
<1>6. adding(C)[<<f[Len(text)], c>>] = added(f[Len(text)], c)
  BY <1>5 DEF adding
<1> QED
  BY <1>1, <1>3, <1>4, <1>6

LEMMA ComposedNothing == composed(<< >>) = << >>
<1>1. << >> \in Seq(CodePoint) /\ Len(<< >>) = 0
  BY EmptySeq
<1>2. PICK f \in [0..0 -> Seq(CodePoint)] : FoldedBy(adding(CodePoint), << >>, f) /\ composed(<< >>) = f[0]
  BY <1>1, Composing, UnicodeAssumption DEF Composable
<1> QED
  BY <1>2 DEF FoldedBy

LEMMA ComposedIsText ==
    ASSUME NEW C, Composable(C), NEW text \in Seq(C)
    PROVE  composed(text) \in Seq(C)
<1>1. PICK f \in [0..Len(text) -> Seq(C)] : composed(text) = f[Len(text)]
  BY Composing
<1> QED
  BY <1>1

-----------------------------------------------------------------------------
(***************************************************************************)
(* Normalising a text.                                                     *)
(***************************************************************************)
pieces(C) == [c \in C |-> IF c \in DOMAIN Decomposes THEN Decomposes[c] ELSE <<c>>]

Elementary(C) == C \ DOMAIN Decomposes

LEMMA PiecesAreElementary ==
    ASSUME NEW C, CodePoint \subseteq C
    PROVE  pieces(C) \in [C -> Seq(Elementary(C))]
<1> SUFFICES ASSUME NEW c \in C
             PROVE  (IF c \in DOMAIN Decomposes THEN Decomposes[c] ELSE <<c>>) \in Seq(Elementary(C))
  BY DEF pieces
<1>1. CASE c \in DOMAIN Decomposes
  <2>1. Decomposes[c] \in Seq(CodePoint \ DOMAIN Decomposes)
    BY <1>1, UnicodeAssumption
  <2>2. CodePoint \ DOMAIN Decomposes \subseteq Elementary(C)
    BY DEF Elementary
  <2> QED
    BY <1>1, <2>1, <2>2, SeqMonotonic
<1>2. CASE c \notin DOMAIN Decomposes
  <2>1. c \in Elementary(C)
    BY <1>2 DEF Elementary
  <2> QED
    BY <1>2, <2>1
<1> QED
  BY <1>1, <1>2

LEMMA ApartIsSpelled ==
    ASSUME NEW C, NEW text \in Seq(C)
    PROVE  spelled_out(text) = spelled(pieces(C), text)
<1>1. \A i \in DOMAIN text : text[i] \in C
  OBVIOUS
<1>2. [i \in DOMAIN text |-> IF text[i] \in DOMAIN Decomposes THEN Decomposes[text[i]] ELSE <<text[i]>>]
          = [i \in DOMAIN text |-> pieces(C)[text[i]]]
  BY <1>1 DEF pieces
<1> QED
  BY <1>2 DEF spelled_out, spelled

\* The facts about taking apart, as one.
LEMMA TakingApart ==
    ASSUME NEW C, CodePoint \subseteq C
    PROVE  /\ spelled_out(<< >>) = << >>
           /\ \A s \in Seq(C) : spelled_out(s) \in Seq(Elementary(C))
           /\ \A s, t \in Seq(C) : spelled_out(s \o t) = spelled_out(s) \o spelled_out(t)
           /\ \A c \in C : spelled_out(<<c>>) = IF c \in DOMAIN Decomposes THEN Decomposes[c] ELSE <<c>>
<1> DEFINE p == pieces(C)
<1>1. p \in [C -> Seq(Elementary(C))]
  BY PiecesAreElementary
<1>2. \A c \in C : p[c] = IF c \in DOMAIN Decomposes THEN Decomposes[c] ELSE <<c>>
  BY DEF pieces
<1> HIDE DEF p
<1>3. \A s \in Seq(C) : spelled_out(s) = spelled(p, s)
  BY ApartIsSpelled DEF p
<1>4. spelled_out(<< >>) = << >>
  BY <1>3, EmptySeq, SpelledNothing
<1>5. ASSUME NEW s \in Seq(C) PROVE spelled_out(s) \in Seq(Elementary(C))
  BY <1>1, <1>3, SpelledIsText
<1>6. ASSUME NEW s \in Seq(C), NEW t \in Seq(C)
      PROVE  spelled_out(s \o t) = spelled_out(s) \o spelled_out(t)
  <2>1. s \o t \in Seq(C)
    OBVIOUS
  <2>2. spelled(p, s \o t) = spelled(p, s) \o spelled(p, t)
    BY <1>1, SpelledJoined
  <2> QED
    BY <1>3, <2>1, <2>2
<1>7. ASSUME NEW c \in C PROVE spelled_out(<<c>>) = p[c]
  <2>1. << >> \in Seq(C) /\ Append(<< >>, c) = <<c>> /\ <<c>> \in Seq(C)
    OBVIOUS
  <2>2. spelled(p, <<c>>) = spelled(p, << >>) \o p[c]
    BY <1>1, <2>1, SpelledMore
  <2>3. << >> \o p[c] = p[c]
    <3>1. p[c] \in Seq(Elementary(C))
      BY <1>1
    <3> QED
      BY <3>1
  <2>4. spelled_out(<<c>>) = spelled(p, <<c>>)
    BY <1>3, <2>1
  <2> QED
    BY <2>2, <2>3, <2>4, SpelledNothing
<1> QED
  BY <1>2, <1>4, <1>5, <1>6, <1>7

\* What is composed: only characters that are no marks are compositions.
Kept(C) == {c \in C : c \in DOMAIN Combining => c \notin DOMAIN Decomposes}

LEMMA KeptCharacters ==
    ASSUME NEW C, CodePoint \subseteq C
    PROVE  /\ Composable(C) /\ Composable(Kept(C))
           /\ Elementary(C) \subseteq Kept(C) /\ Kept(C) \subseteq C /\ Elementary(C) \subseteq C
  BY UnicodeAssumption DEF Composable, Kept, Elementary

LEMMA ElementaryStays ==
    ASSUME NEW C, CodePoint \subseteq C, NEW text \in Seq(Elementary(C))
    PROVE  spelled_out(text) = text
<1> DEFINE S == {s \in Seq(Elementary(C)) : spelled_out(s) = s}
<1>1. << >> \in S
  BY TakingApart, EmptySeq
<1>2. ASSUME NEW s \in Seq(Elementary(C)), NEW c \in Elementary(C), s \in S
      PROVE  Append(s, c) \in S
  <2>1. c \in C /\ c \notin DOMAIN Decomposes /\ s \in Seq(C)
    BY SeqMonotonic DEF Elementary
  <2>2. spelled_out(<<c>>) = <<c>> /\ <<c>> \in Seq(C)
    BY <2>1, TakingApart
  <2>3. spelled_out(s \o <<c>>) = s \o <<c>>
    <3>1. spelled_out(s \o <<c>>) = spelled_out(s) \o spelled_out(<<c>>)
      BY <2>1, <2>2, TakingApart
    <3>2. spelled_out(s) = s
      BY <1>2
    <3> QED
      BY <2>2, <3>1, <3>2
  <2>4. Append(s, c) = s \o <<c>> /\ Append(s, c) \in Seq(Elementary(C))
    BY AppendIsConcat
  <2> QED
    BY <2>3, <2>4
<1> HIDE DEF S
<1>3. text \in S
  BY <1>1, <1>2, ForEveryText
<1> QED
  BY <1>3 DEF S

\* A text with one character of it apart from those before and those behind.
ahead(text, k) == SubSeq(text, 1, k - 1)

behind(text, k) == SubSeq(text, k + 1, Len(text))

Apart(C, text, k, y) ==
    /\ ahead(text, k) \in Seq(C) /\ behind(text, k) \in Seq(C)
    /\ Len(behind(text, k)) = Len(text) - k
    /\ \A i \in 1..Len(behind(text, k)) : behind(text, k)[i] = text[k + i]
    /\ text = (ahead(text, k) \o <<text[k]>>) \o behind(text, k)
    /\ [text EXCEPT ![k] = y] = (ahead(text, k) \o <<y>>) \o behind(text, k)

LEMMA AroundOne ==
    ASSUME NEW C, NEW text \in Seq(C), NEW k \in 1..Len(text), NEW y \in C
    PROVE  Apart(C, text, k, y)
<1> DEFINE n == Len(text)
           front == ahead(text, k)
           rest == behind(text, k)
<1>1. n \in Nat /\ k \in 1..n
  OBVIOUS
<1>2. front \in Seq(C) /\ Len(front) = k - 1 /\ \A i \in 1..(k - 1) : front[i] = text[i]
  BY <1>1, SubSeqProperties DEF ahead
<1>3. rest \in Seq(C) /\ Len(rest) = n - k /\ \A i \in 1..(n - k) : rest[i] = text[k + i]
  BY <1>1, SubSeqProperties DEF behind
<1> HIDE DEF front, rest
<1>4. ASSUME NEW z \in C
      PROVE  /\ (front \o <<z>>) \o rest \in Seq(C) /\ Len((front \o <<z>>) \o rest) = n
             /\ \A i \in 1..n : ((front \o <<z>>) \o rest)[i] = IF i = k THEN z ELSE text[i]
  <2> DEFINE u == Append(front, z)
  <2>1. u = front \o <<z>>
    BY <1>2, AppendIsConcat
  <2>2. u \in Seq(C) /\ Len(u) = k /\ (\A i \in 1..(k - 1) : u[i] = text[i]) /\ u[k] = z
    BY <1>1, <1>2, AppendProperties
  <2> HIDE DEF u
  <2>3. /\ u \o rest \in Seq(C) /\ Len(u \o rest) = Len(u) + Len(rest)
        /\ \A i \in 1..(Len(u) + Len(rest)) : (u \o rest)[i] = IF i =< Len(u) THEN u[i] ELSE rest[i - Len(u)]
    BY <1>3, <2>2, ConcatProperties
  <2>4. Len(u) + Len(rest) = n
    BY <1>1, <1>3, <2>2
  <2> HIDE DEF n
  <2>5. ASSUME NEW i \in 1..n PROVE (u \o rest)[i] = IF i = k THEN z ELSE text[i]
    <3>1. CASE i =< k
      BY <1>1, <2>2, <2>3, <2>4, <3>1
    <3>2. CASE i > k
      <4>1. i - k \in 1..(n - k) /\ k + (i - k) = i
        BY <1>1, <3>2
      <4> QED
        BY <1>1, <1>3, <2>2, <2>3, <2>4, <3>2, <4>1
    <3>3. i =< k \/ i > k
      BY <1>1
    <3> QED
      BY <3>1, <3>2, <3>3
  <2> QED
    BY <2>1, <2>3, <2>4, <2>5
<1>5. text = (front \o <<text[k]>>) \o rest
  <2>1. text[k] \in C
    BY <1>1
  <2>2. \A i \in 1..Len(text) : text[i] = ((front \o <<text[k]>>) \o rest)[i]
    BY <1>4, <2>1
  <2> QED
    BY <1>4, <2>1, <2>2, SeqEqual
<1>6. [text EXCEPT ![k] = y] = (front \o <<y>>) \o rest
  <2>1. /\ [text EXCEPT ![k] = y] \in Seq(C) /\ Len([text EXCEPT ![k] = y]) = Len(text)
        /\ \A i \in 1..Len(text) : [text EXCEPT ![k] = y][i] = IF i = k THEN y ELSE text[i]
    BY ExceptSeq
  <2>2. (front \o <<y>>) \o rest \in Seq(C) /\ Len((front \o <<y>>) \o rest) = Len(text)
        /\ \A i \in 1..Len(text) : ((front \o <<y>>) \o rest)[i] = IF i = k THEN y ELSE text[i]
    BY <1>4
  <2>3. \A i \in 1..Len(text) : [text EXCEPT ![k] = y][i] = ((front \o <<y>>) \o rest)[i]
    BY <2>1, <2>2
  <2> DEFINE replaced == [text EXCEPT ![k] = y]
             joined == (front \o <<y>>) \o rest
  <2>4. replaced \in Seq(C) /\ joined \in Seq(C) /\ Len(replaced) = Len(joined)
        /\ \A i \in 1..Len(replaced) : replaced[i] = joined[i]
    BY <2>1, <2>2, <2>3
  <2> HIDE DEF replaced, joined
  <2>5. replaced = joined
    BY <2>4, SeqEqual
  <2> QED
    BY <2>5 DEF replaced, joined
<1> QED
  BY <1>1, <1>2, <1>3, <1>5, <1>6 DEF front, rest, Apart

\* Adding a character that cannot be taken apart adds just that to what the text is made of.
LEMMA AddedDecomposes ==
    ASSUME NEW C, CodePoint \subseteq C, NEW done \in Seq(Kept(C)), NEW c \in Elementary(C)
    PROVE  decomposed(added(done, c)) = placed(decomposed(done), c)
<1>1. c \in C /\ c \notin DOMAIN Decomposes /\ done \in Seq(C) /\ <<c>> \in Seq(C)
  BY KeptCharacters, SeqMonotonic DEF Elementary
<1>2. spelled_out(<<c>>) = <<c>>
  BY <1>1, TakingApart
<1>3. \A s : decomposed(s) = ordered(spelled_out(s))
  BY DEF decomposed, ordered
<1>4. \A s \in Seq(C) : spelled_out(s) \in Seq(C)
  <2> SUFFICES ASSUME NEW s \in Seq(C) PROVE spelled_out(s) \in Seq(C)
    OBVIOUS
  <2>1. spelled_out(s) \in Seq(Elementary(C))
    BY TakingApart
  <2> QED
    BY <2>1, KeptCharacters, SeqMonotonic
<1>5. CASE Joins(done, c)
  <2> DEFINE k == letter(done)
             x == done[k]
             y == Composes[<<x, c>>]
             front == ahead(done, k)
             rest == behind(done, k)
             v == spelled_out(front) \o spelled_out(<<x>>)
  <2>1. k \in 1..Len(done) /\ <<x, c>> \in DOMAIN Composes
        /\ \A i \in 1..Len(done) : i > k => combining(done[i]) # 0 /\ combining(done[i]) < combining(c)
    BY <1>5, Letter DEF Joins
  <2>2. x \in C /\ y \in C /\ <<x>> \in Seq(C) /\ <<y>> \in Seq(C)
        /\ spelled_out(<<y>>) = spelled_out(<<x, c>>)
    <3>1. y \in CodePoint /\ y \in DOMAIN Decomposes /\ Decomposes[y] = spelled_out(<<x, c>>)
      BY <2>1, UnicodeAssumption
    <3>2. x \in C
      BY <1>1, <2>1
    <3> QED
      BY <3>1, <3>2, TakingApart
  <2>3. added(done, c) = [done EXCEPT ![k] = y]
    BY <1>5, Added
  <2> HIDE DEF k, y
  <2>4. /\ front \in Seq(C) /\ rest \in Seq(C)
        /\ Len(rest) = Len(done) - k /\ \A i \in 1..Len(rest) : rest[i] = done[k + i]
        /\ done = (front \o <<x>>) \o rest
        /\ added(done, c) = (front \o <<y>>) \o rest
    <3>1. y \in C /\ k \in 1..Len(done)
      BY <2>1, <2>2
    <3>2. Apart(C, done, k, y)
      BY <1>1, <3>1, AroundOne
    <3> QED
      BY <2>3, <3>2 DEF Apart
  <2> HIDE DEF x, front, rest
  <2>5. \A i \in 1..Len(rest) : combining(rest[i]) # 0 /\ combining(rest[i]) < combining(c)
    <3> SUFFICES ASSUME NEW i \in 1..Len(rest)
                 PROVE  combining(rest[i]) # 0 /\ combining(rest[i]) < combining(c)
      OBVIOUS
    <3>1. k + i \in 1..Len(done) /\ k + i > k /\ rest[i] = done[k + i]
      BY <1>1, <2>1, <2>4
    <3> QED
      BY <2>1, <3>1
  <2>6. rest \in Seq(Elementary(C))
    <3>1. ASSUME NEW i \in 1..Len(rest) PROVE rest[i] \in Elementary(C)
      <4>1. k + i \in 1..Len(done) /\ rest[i] = done[k + i]
        BY <1>1, <2>1, <2>4
      <4>2. rest[i] \in Kept(C)
        BY <4>1
      <4>3. rest[i] \in DOMAIN Combining
        BY <2>5, Classes
      <4> QED
        BY <4>2, <4>3 DEF Kept, Elementary
    <3> QED
      BY <2>4, <3>1
  <2>7. spelled_out(rest) = rest
    BY <2>6, ElementaryStays
  <2>8. /\ spelled_out(front) \in Seq(C) /\ spelled_out(<<x>>) \in Seq(C)
        /\ front \o <<x>> \in Seq(C) /\ front \o <<y>> \in Seq(C)
    <3>1. front \o <<x>> \in Seq(C) /\ front \o <<y>> \in Seq(C)
      BY <2>2, <2>4
    <3> QED
      BY <1>4, <2>2, <2>4, <3>1
  <2>9. spelled_out(done) = v \o rest
    <3>1. spelled_out(done) = spelled_out(front \o <<x>>) \o spelled_out(rest)
      BY <2>4, <2>8, TakingApart
    <3>2. spelled_out(front \o <<x>>) = v
      BY <2>2, <2>4, TakingApart
    <3> QED
      BY <2>7, <3>1, <3>2
  <2>10. spelled_out(added(done, c)) = Append(v, c) \o rest
    <3>1. spelled_out(added(done, c)) = spelled_out(front \o <<y>>) \o spelled_out(rest)
      BY <2>4, <2>8, TakingApart
    <3>2. spelled_out(front \o <<y>>) = spelled_out(front) \o spelled_out(<<y>>)
      BY <2>2, <2>4, TakingApart
    <3>3. spelled_out(<<x, c>>) = spelled_out(<<x>>) \o <<c>>
      <4>1. <<x, c>> = <<x>> \o <<c>>
        BY <1>1, <2>2
      <4> QED
        BY <1>1, <1>2, <2>2, <4>1, TakingApart
    <3>4. spelled_out(front) \o (spelled_out(<<x>>) \o <<c>>) = v \o <<c>>
      BY <1>1, <2>8, ConcatAssociative
    <3>5. v \o <<c>> = Append(v, c)
      BY <1>1, <2>8, AppendIsConcat
    <3> QED
      BY <2>2, <2>7, <3>1, <3>2, <3>3, <3>4, <3>5
  <2>11. v \in Seq(C)
    BY <2>8
  <2> HIDE DEF v
  <2>12. ordered(Append(v, c) \o rest) = placed(ordered(v \o rest), c)
    BY <1>1, <2>4, <2>5, <2>11, Passing
  <2> QED
    BY <1>3, <2>9, <2>10, <2>12
<1>6. CASE ~ Joins(done, c)
  <2>1. added(done, c) = Append(done, c) /\ Append(done, c) = done \o <<c>>
    BY <1>1, <1>6, Added, AppendIsConcat
  <2>2. spelled_out(done \o <<c>>) = spelled_out(done) \o <<c>>
    BY <1>1, <1>2, TakingApart
  <2>3. spelled_out(done) \in Seq(C)
    BY <1>1, <1>4
  <2>4. spelled_out(done) \o <<c>> = Append(spelled_out(done), c)
    BY <1>1, <2>3, AppendIsConcat
  <2>5. ordered(Append(spelled_out(done), c)) = placed(ordered(spelled_out(done)), c)
    BY <1>1, <2>3, OrderedMore
  <2> QED
    BY <1>3, <2>1, <2>2, <2>4, <2>5
<1> QED
  BY <1>5, <1>6

\* Composing loses nothing: what was taken apart is what the result is made of.
LEMMA ComposedDecomposes ==
    ASSUME NEW C, CodePoint \subseteq C, NEW text \in Seq(Elementary(C))
    PROVE  decomposed(composed(text)) = ordered(text)
<1> DEFINE S == {s \in Seq(Elementary(C)) : decomposed(composed(s)) = ordered(s)}
<1>1. << >> \in S
  <2>1. << >> \in Seq(Elementary(C)) /\ spelled_out(<< >>) = << >>
    BY TakingApart, EmptySeq
  <2>2. decomposed(<< >>) = ordered(<< >>)
    BY <2>1 DEF decomposed, ordered
  <2> QED
    BY <2>1, <2>2, ComposedNothing
<1>2. ASSUME NEW s \in Seq(Elementary(C)), NEW c \in Elementary(C), s \in S
      PROVE  Append(s, c) \in S
  <2>1. s \in Seq(Kept(C)) /\ c \in Kept(C) /\ s \in Seq(C) /\ c \in C
    BY KeptCharacters, SeqMonotonic
  <2>2. Composable(Kept(C))
    BY KeptCharacters
  <2>3. composed(Append(s, c)) = added(composed(s), c) /\ composed(s) \in Seq(Kept(C))
    BY <2>1, <2>2, ComposedMore, ComposedIsText
  <2>4. decomposed(added(composed(s), c)) = placed(decomposed(composed(s)), c)
    BY <2>3, AddedDecomposes
  <2>5. ordered(Append(s, c)) = placed(ordered(s), c)
    BY <2>1, OrderedMore
  <2>6. Append(s, c) \in Seq(Elementary(C))
    OBVIOUS
  <2> QED
    BY <1>2, <2>3, <2>4, <2>5, <2>6
<1> HIDE DEF S
<1>3. text \in S
  BY <1>1, <1>2, ForEveryText
<1> QED
  BY <1>3 DEF S

\* Normalising a text changes its spelling, not what it is made of, and a second time nothing.
LEMMA NormalIsNormal ==
    ASSUME NEW C, CodePoint \subseteq C, NEW text \in Seq(C)
    PROVE  /\ canonical_text(text) \in Seq(C)
           /\ decomposed(canonical_text(text)) = decomposed(text)
           /\ canonical_text(canonical_text(text)) = canonical_text(text)
<1> DEFINE apart == spelled_out(text)
           d == decomposed(text)
<1>1. \A s : canonical_text(s) = composed(decomposed(s))
  BY DEF canonical_text, NFC, composed
<1>2. apart \in Seq(Elementary(C)) /\ d = ordered(apart)
  BY TakingApart DEF decomposed, ordered
<1> HIDE DEF apart, d
<1>3. d \in Seq(Elementary(C)) /\ InCanonicalOrder(d)
  BY <1>2, OrderedIsText, OrderedInOrder
<1>4. ordered(d) = d
  BY <1>3, InOrderStays
<1>5. decomposed(composed(d)) = d
  BY <1>3, <1>4, ComposedDecomposes
<1>6. d \in Seq(C) /\ Composable(C)
  BY <1>3, KeptCharacters, SeqMonotonic
<1>7. composed(d) \in Seq(C)
  BY <1>6, ComposedIsText
<1> QED
  BY <1>1, <1>5, <1>7 DEF d

\* A text that is made of nothing is empty.
LEMMA MadeOfSomething ==
    ASSUME NEW C, CodePoint \subseteq C, NEW text \in Seq(C)
    PROVE  decomposed(text) = << >> <=> text = << >>
<1>1. decomposed(<< >>) = << >>
  <2>1. spelled_out(<< >>) = << >>
    BY TakingApart
  <2> QED
    BY <2>1, OrderedNothing DEF decomposed, ordered
<1>2. ASSUME text # << >> PROVE decomposed(text) # << >>
  <2>1. PICK front \in Seq(C), c \in C : text = Append(front, c)
    BY <1>2, SequenceEmptyOrAppend
  <2>2. <<c>> \in Seq(C) /\ text = front \o <<c>>
    BY <2>1, AppendIsConcat
  <2>3. spelled_out(text) = spelled_out(front) \o spelled_out(<<c>>)
        /\ spelled_out(front) \in Seq(Elementary(C)) /\ spelled_out(<<c>>) \in Seq(Elementary(C))
    BY <2>2, TakingApart
  <2>4. spelled_out(<<c>>) # << >>
    <3>1. spelled_out(<<c>>) = IF c \in DOMAIN Decomposes THEN Decomposes[c] ELSE <<c>>
      BY TakingApart
    <3>2. c \in DOMAIN Decomposes => Decomposes[c] # << >>
      BY UnicodeAssumption
    <3>3. <<c>> # << >>
      OBVIOUS
    <3> QED
      BY <3>1, <3>2, <3>3
  <2>5. spelled_out(text) # << >> /\ spelled_out(text) \in Seq(Elementary(C))
    BY <2>3, <2>4, ConcatEqualIffEmpty
  <2>6. PICK s \in Seq(Elementary(C)), e \in Elementary(C) : spelled_out(text) = Append(s, e)
    BY <2>5, SequenceEmptyOrAppend
  <2>7. decomposed(text) = placed(ordered(s), e) /\ ordered(s) \in Seq(Elementary(C))
    <3>1. decomposed(text) = ordered(Append(s, e))
      BY <2>6 DEF decomposed, ordered
    <3> QED
      BY <3>1, OrderedMore, OrderedIsText
  <2>8. Len(decomposed(text)) = Len(ordered(s)) + 1 /\ Len(ordered(s)) \in Nat
    BY <2>7, Placed
  <2>9. Len(<< >>) = 0
    OBVIOUS
  <2> QED
    BY <2>8, <2>9
<1> QED
  BY <1>1, <1>2

-----------------------------------------------------------------------------
(***************************************************************************)
(* The order of texts.                                                     *)
(***************************************************************************)

\* A set of numbers has a least member.
LEMMA Least ==
    ASSUME NEW S, S \subseteq Nat, S # {}
    PROVE  \E n \in S : \A m \in S : n =< m
<1> DEFINE R == OpToRel(<, Nat)
<1>1. IsWellFoundedOn(R, Nat)
  BY NatLessThanWellFounded
<1> HIDE DEF R
<1>2. PICK n \in S : \A m \in S : <<m, n>> \notin R
  BY <1>1, WFMin
<1>3. ASSUME NEW m \in S PROVE n =< m
  <2>1. ~ (m < n)
    BY <1>2 DEF R, OpToRel
  <2> QED
    BY <2>1
<1> QED
  BY <1>3

\* Two texts agree up to a place where the first has nothing or something smaller.
Differ(s, t, n) ==
    /\ n \in 1..Len(t) /\ n =< Len(s) + 1
    /\ \A i \in 1..Len(t) : i < n => s[i] = t[i]
    /\ n =< Len(s) => s[n] < t[n]

LEMMA BeforeByPlace ==
    ASSUME NEW s \in Seq(Int), NEW t \in Seq(Int)
    PROVE  Before(s, t) <=> \E n \in Nat : Differ(s, t, n)
<1>1. /\ Len(s) \in Nat /\ Len(t) \in Nat /\ DOMAIN s = 1..Len(s) /\ DOMAIN t = 1..Len(t)
      /\ \A i \in 1..Len(s) : s[i] \in Int
      /\ \A i \in 1..Len(t) : t[i] \in Int
  OBVIOUS
<1>2. ASSUME NEW n \in 0..Len(s), n =< Len(t)
      PROVE  SubSeq(s, 1, n) = SubSeq(t, 1, n) <=> \A i \in 1..Len(t) : i =< n => s[i] = t[i]
  <2> DEFINE u == SubSeq(s, 1, n)
             v == SubSeq(t, 1, n)
  <2>1. u \in Seq(Int) /\ Len(u) = n /\ \A i \in 1..n : u[i] = s[i]
    BY <1>1, <1>2, SubSeqProperties
  <2>2. v \in Seq(Int) /\ Len(v) = n /\ \A i \in 1..n : v[i] = t[i]
    BY <1>1, <1>2, SubSeqProperties
  <2> HIDE DEF u, v
  <2>3. u = v <=> \A i \in 1..n : u[i] = v[i]
    BY <2>1, <2>2, SeqEqual
  <2>4. (\A i \in 1..n : s[i] = t[i]) <=> \A i \in 1..Len(t) : i =< n => s[i] = t[i]
    BY <1>1, <1>2
  <2>5. (\A i \in 1..n : u[i] = v[i]) <=> \A i \in 1..n : s[i] = t[i]
    BY <2>1, <2>2
  <2>6. u = v <=> \A i \in 1..Len(t) : i =< n => s[i] = t[i]
    BY <2>3, <2>4, <2>5
  <2> QED
    BY <2>6 DEF u, v
<1>3. ASSUME IsStrictPrefix(s, t) PROVE Differ(s, t, Len(s) + 1)
  <2>1. Len(s) =< Len(t) /\ SubSeq(s, 1, Len(s)) = SubSeq(t, 1, Len(s)) /\ s # t
    BY <1>3 DEF IsStrictPrefix, IsPrefix
  <2>2. \A i \in 1..Len(t) : i =< Len(s) => s[i] = t[i]
    BY <1>1, <1>2, <2>1
  <2>3. Len(s) # Len(t)
    <3> SUFFICES ASSUME Len(s) = Len(t) PROVE FALSE
      OBVIOUS
    <3>1. \A i \in 1..Len(s) : s[i] = t[i]
      BY <1>1, <2>2
    <3>2. s = t
      BY <3>1, SeqEqual
    <3> QED
      BY <2>1, <3>2
  <2>4. PICK n \in Nat : n = Len(s) + 1
    BY <1>1
  <2>5. n \in 1..Len(t) /\ n =< Len(s) + 1 /\ ~ (n =< Len(s))
    <3>1. Len(s) \in Nat /\ Len(t) \in Nat /\ Len(s) =< Len(t) /\ Len(s) # Len(t)
      BY <1>1, <2>1, <2>3
    <3> QED
      BY <2>4, <3>1
  <2>6. \A i \in 1..Len(t) : i < n => s[i] = t[i]
    BY <1>1, <2>2, <2>4
  <2>7. Differ(s, t, n)
    BY <2>5, <2>6 DEF Differ
  <2> QED
    BY <2>4, <2>7
<1>4. ASSUME NEW n \in DOMAIN s \cap DOMAIN t, s[n] < t[n], SubSeq(s, 1, n - 1) = SubSeq(t, 1, n - 1)
      PROVE  n \in Nat /\ Differ(s, t, n)
  <2>1. n \in 1..Len(s) /\ n \in 1..Len(t) /\ n - 1 \in 0..Len(s) /\ n - 1 =< Len(t)
    BY <1>1
  <2>2. \A i \in 1..Len(t) : i =< n - 1 => s[i] = t[i]
    BY <1>2, <1>4, <2>1
  <2> QED
    BY <1>1, <1>4, <2>1, <2>2 DEF Differ
<1>5. ASSUME NEW n \in Nat, Differ(s, t, n) PROVE Before(s, t)
  <2>1. CASE n =< Len(s)
    <3>1. n \in DOMAIN s \cap DOMAIN t /\ s[n] < t[n] /\ n - 1 \in 0..Len(s) /\ n - 1 =< Len(t)
      BY <1>1, <1>5, <2>1 DEF Differ
    <3>2. \A i \in 1..Len(t) : i =< n - 1 => s[i] = t[i]
      BY <1>1, <1>5 DEF Differ
    <3>3. SubSeq(s, 1, n - 1) = SubSeq(t, 1, n - 1)
      BY <1>2, <3>1, <3>2
    <3> QED
      BY <3>1, <3>3 DEF Before
  <2>2. CASE n > Len(s)
    <3>1. n = Len(s) + 1 /\ Len(s) < Len(t)
      BY <1>1, <1>5, <2>2 DEF Differ
    <3>2. \A i \in 1..Len(t) : i =< Len(s) => s[i] = t[i]
      BY <1>1, <1>5, <3>1 DEF Differ
    <3>3. SubSeq(s, 1, Len(s)) = SubSeq(t, 1, Len(s))
      BY <1>1, <1>2, <3>1, <3>2
    <3> QED
      BY <1>1, <3>1, <3>3 DEF Before, IsStrictPrefix, IsPrefix
  <2> QED
    BY <1>1, <2>1, <2>2
<1>6. ASSUME Before(s, t) PROVE \E n \in Nat : Differ(s, t, n)
  <2>1. CASE IsStrictPrefix(s, t)
    BY <1>1, <1>3, <2>1
  <2>2. CASE \E n \in DOMAIN s \cap DOMAIN t :
                s[n] < t[n] /\ SubSeq(s, 1, n - 1) = SubSeq(t, 1, n - 1)
    BY <1>4, <2>2
  <2> QED
    BY <1>6, <2>1, <2>2 DEF Before
<1> QED
  BY <1>5, <1>6

\* Before is a strict order, and of two texts one is before the other.
LEMMA BeforeIsStrict ==
    ASSUME NEW s \in Seq(Int), NEW t \in Seq(Int), Before(s, t)
    PROVE  ~ Before(t, s) /\ s # t
<1>1. /\ Len(s) \in Nat /\ Len(t) \in Nat
      /\ \A i \in 1..Len(s) : s[i] \in Int
      /\ \A i \in 1..Len(t) : t[i] \in Int
  OBVIOUS
<1>2. PICK n \in Nat : Differ(s, t, n)
  BY BeforeByPlace
<1>3. ASSUME NEW m \in Nat, Differ(t, s, m) PROVE FALSE
  <2>1. m =< Len(s) /\ n =< Len(t) /\ m \in 1..Len(s) /\ n \in 1..Len(t)
        /\ m =< Len(t) + 1 /\ n =< Len(s) + 1
    BY <1>1, <1>2, <1>3 DEF Differ
  <2>2. CASE n < m
    <3>1. n \in 1..Len(s) /\ t[n] = s[n]
      BY <1>1, <1>3, <2>1, <2>2 DEF Differ
    <3> QED
      BY <1>1, <1>2, <3>1 DEF Differ
  <2>3. CASE m < n
    <3>1. m \in 1..Len(t) /\ s[m] = t[m]
      BY <1>1, <1>2, <2>1, <2>3 DEF Differ
    <3> QED
      BY <1>1, <1>3, <3>1 DEF Differ
  <2>4. CASE m = n
    BY <1>1, <1>2, <1>3, <2>1, <2>4 DEF Differ
  <2> QED
    BY <2>1, <2>2, <2>3, <2>4
<1>4. ~ Before(t, s)
  BY <1>3, BeforeByPlace
<1> QED
  BY <1>4

LEMMA BeforeIsTotal ==
    ASSUME NEW s \in Seq(Int), NEW t \in Seq(Int), s # t
    PROVE  Before(s, t) \/ Before(t, s)
<1>1. /\ Len(s) \in Nat /\ Len(t) \in Nat
      /\ \A i \in 1..Len(s) : s[i] \in Int
      /\ \A i \in 1..Len(t) : t[i] \in Int
  OBVIOUS
<1> DEFINE D == {n \in Nat : n # 0 /\ (n =< Len(s) /\ n =< Len(t) => s[n] # t[n])}
<1>2. Len(s) + 1 \in D
  BY <1>1
<1>3. PICK n \in D : \A m \in D : n =< m
  BY <1>2, Least
<1>4. \A i \in Nat : i # 0 /\ i < n => i =< Len(s) /\ i =< Len(t) /\ s[i] = t[i]
  BY <1>1, <1>3
<1>5. n =< Len(s) + 1 /\ n =< Len(t) + 1 /\ n \in Nat /\ n # 0
  <2>1. Len(t) + 1 \in D
    BY <1>1
  <2> QED
    BY <1>2, <1>3, <2>1
<1> HIDE DEF D
<1>6. CASE n =< Len(s) /\ n =< Len(t)
  <2>1. s[n] # t[n]
    BY <1>3, <1>6 DEF D
  <2>2. CASE s[n] < t[n]
    <3>1. Differ(s, t, n)
      BY <1>1, <1>4, <1>5, <1>6, <2>2 DEF Differ
    <3> QED
      BY <1>5, <3>1, BeforeByPlace
  <2>3. CASE t[n] < s[n]
    <3>1. Differ(t, s, n)
      BY <1>1, <1>4, <1>5, <1>6, <2>3 DEF Differ
    <3> QED
      BY <1>5, <3>1, BeforeByPlace
  <2> QED
    BY <1>1, <1>5, <1>6, <2>1, <2>2, <2>3
<1>7. CASE n > Len(s) /\ n =< Len(t)
  <2>1. Differ(s, t, n)
    BY <1>1, <1>4, <1>5, <1>7 DEF Differ
  <2> QED
    BY <1>5, <2>1, BeforeByPlace
<1>8. CASE n > Len(t) /\ n =< Len(s)
  <2>1. Differ(t, s, n)
    BY <1>1, <1>4, <1>5, <1>8 DEF Differ
  <2> QED
    BY <1>5, <2>1, BeforeByPlace
<1>9. CASE n > Len(s) /\ n > Len(t)
  <2>1. Len(s) = Len(t) /\ \A i \in 1..Len(s) : s[i] = t[i]
    BY <1>1, <1>4, <1>5, <1>9
  <2> QED
    BY <2>1, SeqEqual
<1> QED
  BY <1>1, <1>5, <1>6, <1>7, <1>8, <1>9

LEMMA BeforeIsTransitive ==
    ASSUME NEW s \in Seq(Int), NEW t \in Seq(Int), NEW u \in Seq(Int), Before(s, t), Before(t, u)
    PROVE  Before(s, u)
<1>1. /\ Len(s) \in Nat /\ Len(t) \in Nat /\ Len(u) \in Nat
      /\ \A i \in 1..Len(s) : s[i] \in Int
      /\ \A i \in 1..Len(t) : t[i] \in Int
      /\ \A i \in 1..Len(u) : u[i] \in Int
  OBVIOUS
<1>2. PICK n \in Nat : Differ(s, t, n)
  BY BeforeByPlace
<1>3. PICK m \in Nat : Differ(t, u, m)
  BY BeforeByPlace
<1>4. /\ n \in 1..Len(t) /\ n =< Len(s) + 1
      /\ \A i \in 1..Len(t) : i < n => s[i] = t[i]
      /\ n =< Len(s) => s[n] < t[n]
  BY <1>2 DEF Differ
<1>5. /\ m \in 1..Len(u) /\ m =< Len(t) + 1
      /\ \A i \in 1..Len(u) : i < m => t[i] = u[i]
      /\ m =< Len(t) => t[m] < u[m]
  BY <1>3 DEF Differ
<1>6. CASE n < m
  <2>1. n \in 1..Len(u) /\ t[n] = u[n]
    BY <1>4, <1>5, <1>6
  <2>2. \A i \in 1..Len(u) : i < n => s[i] = u[i]
    BY <1>1, <1>4, <1>5, <1>6
  <2>3. Differ(s, u, n)
    BY <1>4, <2>1, <2>2 DEF Differ
  <2> QED
    BY <2>3, BeforeByPlace
<1>7. CASE m =< n
  <2>1. m \in 1..Len(t) /\ m =< Len(s) + 1
    BY <1>1, <1>4, <1>5, <1>7
  <2>2. \A i \in 1..Len(u) : i < m => s[i] = u[i]
    BY <1>1, <1>4, <1>5, <1>7
  <2>3. m =< Len(s) => s[m] < u[m]
    <3> SUFFICES ASSUME m =< Len(s) PROVE s[m] < u[m]
      OBVIOUS
    <3>1. s[m] \in Int /\ t[m] \in Int /\ u[m] \in Int /\ t[m] < u[m]
      BY <1>1, <1>5, <2>1
    <3>2. s[m] = t[m] \/ s[m] < t[m]
      BY <1>4, <1>7, <2>1
    <3> QED
      BY <3>1, <3>2
  <2>4. Differ(s, u, m)
    BY <1>5, <2>1, <2>2, <2>3 DEF Differ
  <2> QED
    BY <2>4, BeforeByPlace
<1> QED
  BY <1>4, <1>5, <1>6, <1>7

-----------------------------------------------------------------------------
(***************************************************************************)
(* The order of texts by their UTF-16 code units, against the order by the *)
(* rank of their code points.                                              *)
(***************************************************************************)
high(c) == 55296 + (c - 65536) \div 1024
low(c) == 56320 + ((c - 65536) % 1024)

units == [c \in CodePoint |-> IF c < 65536 THEN <<c>> ELSE <<high(c), low(c)>>]

LEMMA Surrogates ==
    ASSUME NEW c \in CodePoint, ~ (c < 65536)
    PROVE  /\ high(c) \in 55296..56319 /\ low(c) \in 56320..57343
           /\ c = 1024 * (high(c) - 55296) + (low(c) - 56320) + 65536
  BY DEF CodePoint, high, low

LEMMA UnitsAreNumbers == units \in [CodePoint -> Seq(Int)]
<1> SUFFICES ASSUME NEW c \in CodePoint
             PROVE  (IF c < 65536 THEN <<c>> ELSE <<high(c), low(c)>>) \in Seq(Int)
  BY DEF units
<1>1. CASE c < 65536
  <2>1. c \in Int
    BY DEF CodePoint
  <2> QED
    BY <1>1, <2>1
<1>2. CASE ~ (c < 65536)
  <2>1. high(c) \in Int /\ low(c) \in Int
    BY <1>2, Surrogates
  <2> QED
    BY <1>2, <2>1
<1> QED
  BY <1>1, <1>2

LEMMA Utf16IsSpelled ==
    ASSUME NEW text \in Seq(CodePoint)
    PROVE  utf_16(text) = spelled(units, text)
<1>1. \A i \in DOMAIN text : text[i] \in CodePoint
  OBVIOUS
<1> DEFINE parts == [i \in DOMAIN text |->
                        IF text[i] < 65536 THEN <<text[i]>>
                        ELSE <<55296 + (text[i] - 65536) \div 1024, 56320 + ((text[i] - 65536) % 1024)>>]
           others == [i \in DOMAIN text |-> units[text[i]]]
<1>2. parts = others
  BY <1>1 DEF units, high, low
<1>3. utf_16(text) = FlattenSeq(parts)
  BY DEF utf_16
<1>4. spelled(units, text) = FlattenSeq(others)
  BY DEF spelled
<1> HIDE DEF parts, others
<1> QED
  BY <1>2, <1>3, <1>4

\* The facts about UTF-16, as one.
LEMMA Utf16 ==
    /\ utf_16(<< >>) = << >>
    /\ \A u \in Seq(CodePoint) : utf_16(u) \in Seq(Int)
    /\ \A u, v \in Seq(CodePoint) : utf_16(u \o v) = utf_16(u) \o utf_16(v)
    /\ \A c \in CodePoint : utf_16(<<c>>) = units[c] /\ units[c] \in Seq(Int) /\ units[c] # << >>
<1>1. ASSUME NEW u \in Seq(CodePoint)
      PROVE  utf_16(u) = spelled(units, u) /\ utf_16(u) \in Seq(Int)
  BY Utf16IsSpelled, SpelledIsText, UnitsAreNumbers
<1>2. utf_16(<< >>) = << >>
  BY <1>1, EmptySeq, SpelledNothing
<1>3. ASSUME NEW u \in Seq(CodePoint), NEW v \in Seq(CodePoint)
      PROVE  utf_16(u \o v) = utf_16(u) \o utf_16(v)
  <2>1. u \o v \in Seq(CodePoint)
    OBVIOUS
  <2>2. spelled(units, u \o v) = spelled(units, u) \o spelled(units, v)
    BY SpelledJoined, UnitsAreNumbers
  <2> QED
    BY <1>1, <2>1, <2>2
<1>4. ASSUME NEW c \in CodePoint
      PROVE  utf_16(<<c>>) = units[c] /\ units[c] \in Seq(Int) /\ units[c] # << >>
  <2>1. << >> \in Seq(CodePoint) /\ Append(<< >>, c) = <<c>> /\ <<c>> \in Seq(CodePoint)
    OBVIOUS
  <2>2. spelled(units, <<c>>) = spelled(units, << >>) \o units[c]
    BY <2>1, SpelledMore, UnitsAreNumbers
  <2>3. units[c] \in Seq(Int)
    BY UnitsAreNumbers
  <2>4. << >> \o units[c] = units[c]
    BY <2>3
  <2>5. units[c] # << >>
    BY DEF units
  <2>6. utf_16(<<c>>) = spelled(units, <<c>>)
    BY <1>1, <2>1
  <2> QED
    BY <2>2, <2>3, <2>4, <2>5, <2>6, SpelledNothing
<1> QED
  BY <1>1, <1>2, <1>3, <1>4

\* The first unit in which two sequences of units differ, both having one.
Smaller(u, v, n) ==
    /\ n \in 1..Len(u) /\ n \in 1..Len(v)
    /\ \A i \in 1..Len(v) : i < n => u[i] = v[i]
    /\ u[n] < v[n]

\* Of two code points the one with the lower rank has the smaller units.
LEMMA UnitsInOrder ==
    ASSUME NEW a \in CodePoint, NEW b \in CodePoint, rank(a) < rank(b)
    PROVE  \E n \in Nat : Smaller(units[a], units[b], n)
<1>1. a \in Nat /\ b \in Nat /\ a < 1114112 /\ b < 1114112
      /\ (a < 55296 \/ a > 57343) /\ (b < 55296 \/ b > 57343)
  BY DEF CodePoint
<1>2. \A c \in CodePoint : /\ c < 65536 => units[c] = <<c>>
                           /\ ~ (c < 65536) => units[c] = <<high(c), low(c)>>
  BY DEF units
<1>3. CASE a < 65536 /\ b < 65536
  <2>1. units[a] = <<a>> /\ units[b] = <<b>> /\ a < b
    BY <1>1, <1>2, <1>3 DEF rank
  <2> QED
    BY <2>1 DEF Smaller
<1>4. CASE a < 65536 /\ ~ (b < 65536)
  <2>1. units[a] = <<a>> /\ units[b] = <<high(b), low(b)>>
    BY <1>2, <1>4
  <2>2. high(b) >= 55296 /\ high(b) \in Int
    BY <1>4, Surrogates
  <2>3. a < 55296
    BY <1>1, <1>4 DEF rank
  <2>4. a < high(b)
    BY <1>1, <2>2, <2>3
  <2>5. Smaller(units[a], units[b], 1)
    BY <2>1, <2>4 DEF Smaller
  <2> QED
    BY <2>5
<1>5. CASE ~ (a < 65536) /\ b < 65536
  <2>1. units[a] = <<high(a), low(a)>> /\ units[b] = <<b>>
    BY <1>2, <1>5
  <2>2. high(a) =< 56319 /\ high(a) \in Int
    BY <1>5, Surrogates
  <2>3. b > 57343
    BY <1>1, <1>5 DEF rank
  <2>4. high(a) < b
    BY <1>1, <2>2, <2>3
  <2>5. Smaller(units[a], units[b], 1)
    BY <2>1, <2>4 DEF Smaller
  <2> QED
    BY <2>5
<1>6. CASE ~ (a < 65536) /\ ~ (b < 65536)
  <2>1. units[a] = <<high(a), low(a)>> /\ units[b] = <<high(b), low(b)>>
    BY <1>2, <1>6
  <2>2. a < b
    BY <1>1, <1>6 DEF rank
  <2>3. /\ high(a) \in Int /\ low(a) \in 56320..57343
        /\ a = 1024 * (high(a) - 55296) + (low(a) - 56320) + 65536
    BY <1>6, Surrogates
  <2>4. /\ high(b) \in Int /\ low(b) \in 56320..57343
        /\ b = 1024 * (high(b) - 55296) + (low(b) - 56320) + 65536
    BY <1>6, Surrogates
  <2>5. high(a) < high(b) \/ (high(a) = high(b) /\ low(a) < low(b))
    <3>1. PICK i \in Int, j \in 0..1023 : high(a) = i /\ low(a) = 56320 + j
      BY <2>3
    <3>2. PICK k \in Int, l \in 0..1023 : high(b) = k /\ low(b) = 56320 + l
      BY <2>4
    <3>3. 1024 * (i - 55296) + j < 1024 * (k - 55296) + l
      BY <2>2, <2>3, <2>4, <3>1, <3>2
    <3>4. i < k \/ (i = k /\ j < l)
      BY <3>3
    <3> QED
      BY <3>1, <3>2, <3>4
  <2>6. CASE high(a) < high(b)
    <3>1. Smaller(units[a], units[b], 1)
      BY <2>1, <2>6 DEF Smaller
    <3> QED
      BY <3>1
  <2>7. CASE high(a) = high(b) /\ low(a) < low(b)
    <3>1. Smaller(units[a], units[b], 2)
      BY <2>1, <2>7 DEF Smaller
    <3> QED
      BY <3>1
  <2> QED
    BY <2>5, <2>6, <2>7
<1> QED
  BY <1>3, <1>4, <1>5, <1>6

\* What follows does not matter after a difference.
LEMMA SmallerFollowed ==
    ASSUME NEW u \in Seq(Int), NEW v \in Seq(Int), NEW x \in Seq(Int), NEW y \in Seq(Int),
           NEW n \in Nat, Smaller(u, v, n)
    PROVE  Before(u \o x, v \o y)
<1>1. n \in 1..Len(u) /\ n \in 1..Len(v) /\ u[n] < v[n] /\ \A i \in 1..Len(v) : i < n => u[i] = v[i]
  BY DEF Smaller
<1>2. /\ u \o x \in Seq(Int) /\ Len(u \o x) = Len(u) + Len(x)
      /\ \A i \in 1..Len(u) : (u \o x)[i] = u[i]
  OBVIOUS
<1>3. /\ v \o y \in Seq(Int) /\ Len(v \o y) = Len(v) + Len(y)
      /\ \A i \in 1..Len(v) : (v \o y)[i] = v[i]
  OBVIOUS
<1>4. Len(u) \in Nat /\ Len(v) \in Nat /\ Len(x) \in Nat /\ Len(y) \in Nat
  OBVIOUS
<1> DEFINE ux == u \o x
           vy == v \o y
<1> HIDE DEF ux, vy
<1>5. n \in 1..Len(vy) /\ n =< Len(ux) + 1 /\ ux[n] < vy[n]
  BY <1>1, <1>2, <1>3, <1>4 DEF ux, vy
<1>6. \A i \in 1..Len(vy) : i < n => ux[i] = vy[i]
  <2> SUFFICES ASSUME NEW i \in 1..Len(vy), i < n PROVE ux[i] = vy[i]
    OBVIOUS
  <2>1. i \in 1..Len(u) /\ i \in 1..Len(v)
    BY <1>1, <1>4
  <2> QED
    BY <1>1, <1>2, <1>3, <2>1 DEF ux, vy
<1>7. Differ(ux, vy, n)
  BY <1>5, <1>6 DEF Differ
<1> QED
  BY <1>2, <1>3, <1>7, BeforeByPlace DEF ux, vy

\* Nor does what two texts have in common before it.
LEMMA BeforePreceded ==
    ASSUME NEW p \in Seq(Int), NEW u \in Seq(Int), NEW v \in Seq(Int), Before(u, v)
    PROVE  Before(p \o u, p \o v)
<1>1. PICK n \in Nat : Differ(u, v, n)
  BY BeforeByPlace
<1>2. PICK a \in Nat : a = Len(p)
  OBVIOUS
<1>3. PICK b \in Nat : b = Len(u)
  OBVIOUS
<1>4. PICK c \in Nat : c = Len(v)
  OBVIOUS
<1>5. /\ n \in 1..c /\ n =< b + 1
      /\ \A i \in 1..c : i < n => u[i] = v[i]
      /\ n =< b => u[n] < v[n]
  BY <1>1, <1>3, <1>4 DEF Differ
<1> DEFINE s == p \o u
           t == p \o v
<1>6. /\ s \in Seq(Int) /\ Len(s) = a + b
      /\ \A i \in 1..(a + b) : s[i] = IF i <= a THEN p[i] ELSE u[i - a]
  BY <1>2, <1>3, ConcatProperties
<1>7. /\ t \in Seq(Int) /\ Len(t) = a + c
      /\ \A i \in 1..(a + c) : t[i] = IF i <= a THEN p[i] ELSE v[i - a]
  BY <1>2, <1>4, ConcatProperties
<1> HIDE DEF s, t
<1>8. PICK k \in Nat : k = a + n
  OBVIOUS
<1>9. k \in 1..(a + c) /\ k =< a + b + 1
  BY <1>5, <1>8
<1>10. ASSUME NEW i \in 1..(a + c), i < k PROVE s[i] = t[i]
  <2>0. i \in 1..(a + b)
    BY <1>9, <1>10
  <2>1. CASE i =< a
    BY <1>6, <1>7, <2>0, <2>1
  <2>2. CASE ~ (i =< a)
    <3>1. i - a \in 1..c /\ i - a < n
      BY <1>8, <1>10, <2>2
    <3>2. s[i] = u[i - a] /\ t[i] = v[i - a]
      BY <1>6, <1>7, <2>0, <2>2
    <3> QED
      BY <1>5, <3>1, <3>2
  <2> QED
    BY <2>1, <2>2
<1>11. ASSUME k =< a + b PROVE s[k] < t[k]
  <2>1. n =< b /\ k \in 1..(a + b) /\ ~ (k =< a) /\ k - a = n
    BY <1>5, <1>8, <1>9, <1>11
  <2>2. s[k] = u[n] /\ t[k] = v[n]
    BY <1>6, <1>7, <1>9, <2>1
  <2> QED
    BY <1>5, <2>1, <2>2
<1>12. Differ(s, t, k)
  BY <1>6, <1>7, <1>9, <1>10, <1>11 DEF Differ
<1> QED
  BY <1>6, <1>7, <1>12, BeforeByPlace DEF s, t

LEMMA NothingIsBefore ==
    ASSUME NEW v \in Seq(Int), v # << >>
    PROVE  Before(<< >>, v)
<1>1. Len(v) \in Nat \ {0} /\ << >> \in Seq(Int) /\ Len(<< >>) = 0
  BY EmptySeq
<1>2. Differ(<< >>, v, 1)
  BY <1>1 DEF Differ
<1> QED
  BY <1>1, <1>2, BeforeByPlace

LEMMA RanksAreNumbers ==
    ASSUME NEW text \in Seq(CodePoint)
    PROVE  /\ ranks(text) \in Seq(Int) /\ Len(ranks(text)) = Len(text)
           /\ \A i \in 1..Len(text) : ranks(text)[i] = rank(text[i]) /\ text[i] \in CodePoint
<1>1. \A c \in CodePoint : rank(c) \in Int
  BY DEF rank, CodePoint
<1>2. Len(text) \in Nat /\ DOMAIN text = 1..Len(text) /\ \A i \in 1..Len(text) : text[i] \in CodePoint
  OBVIOUS
<1> DEFINE r == [n \in 1..Len(text) |-> rank(text[n])]
<1>3. r \in [1..Len(text) -> Int]
  BY <1>1, <1>2
<1>4. r \in Seq(Int) /\ Len(r) = Len(text)
  BY <1>2, <1>3
<1> QED
  BY <1>2, <1>4 DEF ranks

LEMMA RankTellsApart ==
    ASSUME NEW a \in CodePoint, NEW b \in CodePoint, rank(a) = rank(b)
    PROVE  a = b
  BY DEF rank, CodePoint

\* The order of ranks is the order of code units.
LEMMA RanksOrderUnits ==
    ASSUME NEW s \in Seq(CodePoint), NEW t \in Seq(CodePoint), Before(ranks(s), ranks(t))
    PROVE  Before(utf_16(s), utf_16(t))
<1>1. /\ ranks(s) \in Seq(Int) /\ Len(ranks(s)) = Len(s)
      /\ \A i \in 1..Len(s) : ranks(s)[i] = rank(s[i]) /\ s[i] \in CodePoint
  BY RanksAreNumbers
<1>2. /\ ranks(t) \in Seq(Int) /\ Len(ranks(t)) = Len(t)
      /\ \A i \in 1..Len(t) : ranks(t)[i] = rank(t[i]) /\ t[i] \in CodePoint
  BY RanksAreNumbers
<1>3. PICK n \in Nat : Differ(ranks(s), ranks(t), n)
  BY <1>1, <1>2, BeforeByPlace
<1>4. /\ n \in 1..Len(t) /\ n =< Len(s) + 1
      /\ \A i \in 1..Len(t) : i < n => ranks(s)[i] = ranks(t)[i]
      /\ n =< Len(s) => ranks(s)[n] < ranks(t)[n]
  BY <1>1, <1>2, <1>3 DEF Differ
<1>5. Len(s) \in Nat /\ Len(t) \in Nat
  OBVIOUS
<1>6. \A i \in 1..Len(t) : i < n => s[i] = t[i]
  <2> SUFFICES ASSUME NEW i \in 1..Len(t), i < n PROVE s[i] = t[i]
    OBVIOUS
  <2>1. i \in 1..Len(s)
    BY <1>4, <1>5
  <2> QED
    BY <1>1, <1>2, <1>4, <2>1, RankTellsApart
<1> DEFINE p == SubSeq(t, 1, n - 1)
           x == SubSeq(s, n, Len(s))
           y == SubSeq(t, n + 1, Len(t))
<1>7. p \in Seq(CodePoint) /\ Len(p) = n - 1 /\ \A i \in 1..(n - 1) : p[i] = t[i]
  <2>1. \A i \in 1..(n - 1) : t[i] \in CodePoint
    BY <1>2, <1>4, <1>5
  <2> QED
    BY <1>4, <1>5, <2>1, SubSeqProperties
<1>8. x \in Seq(CodePoint) /\ Len(x) = Len(s) - n + 1 /\ \A i \in 1..(Len(s) - n + 1) : x[i] = s[n + i - 1]
  <2>1. \A i \in n..Len(s) : s[i] \in CodePoint
    BY <1>1, <1>4, <1>5
  <2> QED
    BY <1>4, <1>5, <2>1, SubSeqProperties
<1>9. y \in Seq(CodePoint) /\ Len(y) = Len(t) - n /\ \A i \in 1..(Len(t) - n) : y[i] = t[n + i]
  <2>1. \A i \in (n + 1)..Len(t) : t[i] \in CodePoint
    BY <1>2, <1>4, <1>5
  <2> QED
    BY <1>4, <1>5, <2>1, SubSeqProperties
<1>10. s = p \o x
  <2>1. p = SubSeq(s, 1, n - 1)
    <3>1. \A i \in 1..(n - 1) : s[i] = t[i] /\ s[i] \in CodePoint
      BY <1>1, <1>4, <1>5, <1>6
    <3>2. SubSeq(s, 1, n - 1) \in Seq(CodePoint) /\ Len(SubSeq(s, 1, n - 1)) = n - 1
          /\ \A i \in 1..(n - 1) : SubSeq(s, 1, n - 1)[i] = s[i]
      BY <1>4, <1>5, <3>1, SubSeqProperties
    <3> QED
      BY <1>7, <3>1, <3>2, SeqEqual
  <2> DEFINE px == p \o x
  <2>2. px \in Seq(CodePoint) /\ Len(px) = Len(p) + Len(x)
        /\ \A i \in 1..(Len(p) + Len(x)) : px[i] = IF i =< Len(p) THEN p[i] ELSE x[i - Len(p)]
    BY <1>7, <1>8, ConcatProperties
  <2> HIDE DEF p, x, px
  <2>3. Len(px) = Len(s)
    BY <1>4, <1>5, <1>7, <1>8, <2>2
  <2>4. ASSUME NEW i \in 1..Len(s) PROVE s[i] = px[i]
    <3>1. CASE i < n
      <4>1. i \in 1..Len(t) /\ i =< Len(p) /\ i \in 1..(n - 1) /\ i \in 1..(Len(p) + Len(x))
        BY <1>4, <1>5, <1>7, <2>2, <2>3, <3>1
      <4>2. px[i] = p[i] /\ p[i] = t[i] /\ s[i] = t[i]
        BY <1>6, <1>7, <2>2, <3>1, <4>1
      <4> QED
        BY <4>2
    <3>2. CASE ~ (i < n)
      <4>1. i - Len(p) \in 1..(Len(s) - n + 1) /\ ~ (i =< Len(p)) /\ n + (i - Len(p)) - 1 = i
        BY <1>4, <1>5, <1>7, <3>2
      <4>2. px[i] = x[i - Len(p)]
        BY <1>5, <1>7, <1>8, <2>2, <2>3, <4>1
      <4> QED
        BY <1>8, <4>1, <4>2
    <3> QED
      BY <3>1, <3>2
  <2>5. s = px
    BY <2>2, <2>3, <2>4, SeqEqual
  <2> QED
    BY <2>5 DEF px
<1>11. t = p \o (<<t[n]>> \o y)
  <2> DEFINE b == <<t[n]>>
             by == b \o y
             pby == p \o by
  <2>1. b \in Seq(CodePoint) /\ Len(b) = 1 /\ b[1] = t[n]
    BY <1>2, <1>4
  <2>2. by \in Seq(CodePoint) /\ Len(by) = 1 + Len(y)
        /\ \A i \in 1..(1 + Len(y)) : by[i] = IF i =< 1 THEN b[i] ELSE y[i - 1]
    BY <1>9, <2>1, ConcatProperties
  <2> HIDE DEF b, by
  <2>3. pby \in Seq(CodePoint) /\ Len(pby) = Len(p) + Len(by)
        /\ \A i \in 1..(Len(p) + Len(by)) : pby[i] = IF i =< Len(p) THEN p[i] ELSE by[i - Len(p)]
    BY <1>7, <2>2, ConcatProperties
  <2> HIDE DEF p, x, y, pby
  <2>4. Len(pby) = Len(t)
    BY <1>4, <1>5, <1>7, <1>9, <2>2, <2>3
  <2>5. ASSUME NEW i \in 1..Len(t) PROVE t[i] = pby[i]
    <3>0. i \in 1..(Len(p) + Len(by))
      BY <2>3, <2>4
    <3>1. CASE i < n
      <4>1. i =< Len(p) /\ i \in 1..(n - 1)
        BY <1>4, <1>5, <1>7, <3>1
      <4> QED
        BY <1>7, <2>3, <3>0, <4>1
    <3>2. CASE i = n
      <4>1. i - Len(p) = 1 /\ ~ (i =< Len(p)) /\ Len(y) \in Nat
        BY <1>4, <1>5, <1>7, <1>9, <3>2
      <4>2. pby[i] = by[1]
        BY <2>3, <3>0, <4>1
      <4> QED
        BY <2>1, <2>2, <3>2, <4>1, <4>2
    <3>3. CASE i > n
      <4>1. i - Len(p) \in 1..(1 + Len(y)) /\ ~ (i =< Len(p)) /\ ~ (i - Len(p) =< 1)
            /\ (i - Len(p)) - 1 = i - n /\ i - n \in 1..(Len(t) - n) /\ n + (i - n) = i
        BY <1>4, <1>5, <1>7, <1>9, <3>3
      <4>2. pby[i] = by[i - Len(p)]
        BY <2>3, <3>0, <4>1
      <4>3. by[i - Len(p)] = y[i - n]
        BY <2>2, <4>1
      <4> QED
        BY <1>9, <4>1, <4>2, <4>3
    <3> QED
      BY <1>4, <3>1, <3>2, <3>3
  <2>6. t = pby
    BY <2>3, <2>4, <2>5, SeqEqual
  <2> QED
    BY <2>6 DEF pby, by, b
<1> DEFINE q == <<t[n]>> \o y
<1>12. t[n] \in CodePoint /\ <<t[n]>> \in Seq(CodePoint) /\ q \in Seq(CodePoint)
  BY <1>2, <1>4, <1>9
<1> HIDE DEF p, x, y
<1>13. \A u \in Seq(CodePoint) : utf_16(u) \in Seq(Int)
  BY Utf16
<1>14. \A u, v \in Seq(CodePoint) : utf_16(u \o v) = utf_16(u) \o utf_16(v)
  BY Utf16
<1>15. \A c \in CodePoint : utf_16(<<c>>) = units[c] /\ units[c] \in Seq(Int) /\ units[c] # << >>
  BY Utf16
<1> DEFINE U == utf_16(<<t[n]>>)
<1>16. utf_16(q) = U \o utf_16(y) /\ U = units[t[n]] /\ U \in Seq(Int) /\ utf_16(y) \in Seq(Int)
  BY <1>9, <1>12, <1>13, <1>14, <1>15
<1>17. Before(utf_16(x), utf_16(q))
  <2>1. CASE n = Len(s) + 1
    <3>1. x = << >>
      BY <1>5, <1>8, <2>1
    <3>2. utf_16(x) = << >>
      BY <3>1, Utf16
    <3>3. utf_16(q) \in Seq(Int) /\ utf_16(q) # << >>
      <4>1. U # << >>
        BY <1>12, <1>15, <1>16
      <4>2. U \o utf_16(y) # << >>
        BY <1>16, <4>1, ConcatEqualIffEmpty
      <4> QED
        BY <1>12, <1>13, <1>16, <4>2
    <3> QED
      BY <3>2, <3>3, NothingIsBefore
  <2>2. CASE n =< Len(s)
    <3> DEFINE z == SubSeq(s, n + 1, Len(s))
               a == <<s[n]>>
    <3>1. s[n] \in CodePoint /\ rank(s[n]) < rank(t[n])
      BY <1>1, <1>2, <1>4, <2>2
    <3>2. x = a \o z
      <4>1. n \in 1..Len(s) /\ Len(s) \in n..Len(s)
        BY <1>4, <1>5, <2>2
      <4> QED
        BY <4>1, SubSeqRecursiveFirst DEF x
    <3>3. a \in Seq(CodePoint) /\ z \in Seq(CodePoint)
      <4>1. \A i \in (n + 1)..Len(s) : s[i] \in CodePoint
        BY <1>1, <1>4, <1>5
      <4>2. z \in Seq(CodePoint)
        BY <1>5, <4>1, SubSeqProperties
      <4> QED
        BY <3>1, <4>2
    <3> HIDE DEF z
    <3>4. utf_16(x) = units[s[n]] \o utf_16(z) /\ utf_16(z) \in Seq(Int) /\ units[s[n]] \in Seq(Int)
      BY <1>13, <1>14, <1>15, <3>1, <3>2, <3>3
    <3>5. PICK m \in Nat : Smaller(units[s[n]], units[t[n]], m)
      BY <1>12, <3>1, UnitsInOrder
    <3> HIDE DEF U, q
    <3> QED
      BY <1>16, <3>4, <3>5, SmallerFollowed
  <2> QED
    BY <1>4, <1>5, <2>1, <2>2
<1> HIDE DEF U, q
<1>18. utf_16(s) = utf_16(p) \o utf_16(x) /\ utf_16(t) = utf_16(p) \o utf_16(q)
  BY <1>7, <1>8, <1>10, <1>11, <1>12, <1>14 DEF q
<1> QED
  BY <1>7, <1>8, <1>12, <1>13, <1>17, <1>18, BeforePreceded

\* Different texts differ in their units, and the order of units is that of ranks.
LEMMA UnitsOrder ==
    ASSUME NEW s \in Seq(CodePoint), NEW t \in Seq(CodePoint)
    PROVE  /\ utf_16(s) \in Seq(Int)
           /\ s # t => Before(utf_16(s), utf_16(t)) \/ Before(utf_16(t), utf_16(s))
           /\ Before(utf_16(s), utf_16(t)) => Before(ranks(s), ranks(t))
<1>1. utf_16(s) \in Seq(Int) /\ utf_16(t) \in Seq(Int)
  BY Utf16
<1>2. ranks(s) \in Seq(Int) /\ ranks(t) \in Seq(Int)
  BY RanksAreNumbers
<1>3. s # t => ranks(s) # ranks(t)
  <2> SUFFICES ASSUME ranks(s) = ranks(t) PROVE s = t
    OBVIOUS
  <2>1. Len(s) = Len(t)
    BY RanksAreNumbers
  <2>2. \A i \in 1..Len(s) : rank(s[i]) = rank(t[i]) /\ s[i] \in CodePoint /\ t[i] \in CodePoint
    BY <2>1, RanksAreNumbers
  <2>3. \A i \in 1..Len(s) : s[i] = t[i]
    BY <2>2, RankTellsApart
  <2> QED
    BY <2>1, <2>3, SeqEqual
<1>4. s # t => Before(ranks(s), ranks(t)) \/ Before(ranks(t), ranks(s))
  BY <1>2, <1>3, BeforeIsTotal
<1>5. s # t => Before(utf_16(s), utf_16(t)) \/ Before(utf_16(t), utf_16(s))
  BY <1>4, RanksOrderUnits
<1>6. ASSUME Before(utf_16(s), utf_16(t)) PROVE Before(ranks(s), ranks(t))
  <2>1. utf_16(s) # utf_16(t) /\ ~ Before(utf_16(t), utf_16(s))
    BY <1>1, <1>6, BeforeIsStrict
  <2>2. s # t
    BY <2>1
  <2>3. ~ Before(ranks(t), ranks(s))
    BY <2>1, RanksOrderUnits
  <2> QED
    BY <1>4, <2>2, <2>3
<1> QED
  BY <1>1, <1>5, <1>6

-----------------------------------------------------------------------------
(***************************************************************************)
(* A set of texts in order, once each.                                     *)
(***************************************************************************)
Less(x, y) == Before(utf_16(x), utf_16(y))

LEMMA LessIsStrict ==
    ASSUME NEW x \in Seq(CodePoint), NEW y \in Seq(CodePoint), Less(x, y)
    PROVE  ~ Less(y, x) /\ x # y
<1>1. utf_16(x) \in Seq(Int) /\ utf_16(y) \in Seq(Int)
  BY UnitsOrder
<1>2. ~ Before(utf_16(y), utf_16(x)) /\ utf_16(x) # utf_16(y)
  BY <1>1, BeforeIsStrict DEF Less
<1> QED
  BY <1>2 DEF Less

LEMMA LessIsTransitive ==
    ASSUME NEW x \in Seq(CodePoint), NEW y \in Seq(CodePoint), NEW z \in Seq(CodePoint),
           Less(x, y), Less(y, z)
    PROVE  Less(x, z)
<1>1. utf_16(x) \in Seq(Int) /\ utf_16(y) \in Seq(Int) /\ utf_16(z) \in Seq(Int)
  BY UnitsOrder
<1> QED
  BY <1>1, BeforeIsTransitive DEF Less

LEMMA LessIsTotal ==
    ASSUME NEW x \in Seq(CodePoint), NEW y \in Seq(CodePoint), x # y
    PROVE  Less(x, y) \/ Less(y, x)
  BY UnitsOrder DEF Less

InOrder(order) == \A i, j \in DOMAIN order : i < j => Less(order[i], order[j])

\* Every element has a place in the sequence, which is in order.
Orders(order, n, S) ==
    /\ order \in [1..n -> S]
    /\ \A x \in S : \E i \in 1..n : order[i] = x
    /\ \A i, j \in 1..n : i < j => Less(order[i], order[j])

\* A set with elements in order but for one has one that comes after all others.
LEMMA HasLast ==
    ASSUME NEW S \in SUBSET Seq(CodePoint), NEW x \in S, NEW n \in Nat, NEW order,
           Orders(order, n, S \ {x})
    PROVE  \E m \in S : \A y \in S \ {m} : Less(y, m)
<1>1. /\ order \in [1..n -> S \ {x}]
      /\ \A y \in S \ {x} : \E i \in 1..n : order[i] = y
      /\ \A i, j \in 1..n : i < j => Less(order[i], order[j])
  BY DEF Orders
<1>2. CASE n = 0
  <2>1. S \ {x} = {}
    BY <1>1, <1>2
  <2> QED
    BY <2>1
<1>3. CASE n # 0
  <2>1. PICK l \in S \ {x} : l = order[n]
    BY <1>1, <1>3
  <2>2. ASSUME NEW y \in S \ {x} PROVE y = l \/ Less(y, l)
    <3>1. PICK i \in 1..n : order[i] = y
      BY <1>1
    <3>2. i = n \/ (i < n /\ n \in 1..n)
      BY <1>3, <3>1
    <3> QED
      BY <1>1, <2>1, <3>1, <3>2
  <2>3. l \in Seq(CodePoint) /\ x \in Seq(CodePoint) /\ l # x
    OBVIOUS
  <2>4. CASE Less(l, x)
    <3>1. \A y \in S \ {x} : Less(y, x)
      <4> SUFFICES ASSUME NEW y \in S \ {x} PROVE Less(y, x)
        OBVIOUS
      <4>1. y \in Seq(CodePoint)
        OBVIOUS
      <4> QED
        BY <2>2, <2>3, <2>4, <4>1, LessIsTransitive
    <3> QED
      BY <3>1
  <2>5. CASE Less(x, l)
    BY <2>2, <2>5
  <2> QED
    BY <2>3, <2>4, <2>5, LessIsTotal
<1> QED
  BY <1>2, <1>3

LEMMA CanBeOrdered ==
    ASSUME NEW S \in SUBSET Seq(CodePoint), IsFiniteSet(S)
    PROVE  \E order : Orders(order, Cardinality(S), S)
<1> DEFINE Can(n) == \A T \in SUBSET Seq(CodePoint) :
                        IsFiniteSet(T) /\ Cardinality(T) = n => \E order : Orders(order, n, T)
           N == {n \in Nat : Can(n)}
<1>1. 0 \in N
  <2> SUFFICES ASSUME NEW T \in SUBSET Seq(CodePoint), IsFiniteSet(T), Cardinality(T) = 0
               PROVE  \E order : Orders(order, 0, T)
    OBVIOUS
  <2>1. T = {}
    BY FS_EmptySet
  <2>2. Orders([i \in 1..0 |-> << >>], 0, T)
    BY <2>1 DEF Orders
  <2> QED
    BY <2>2
<1>2. ASSUME NEW n \in Nat, n \in N PROVE n + 1 \in N
  <2> SUFFICES ASSUME NEW T \in SUBSET Seq(CodePoint), IsFiniteSet(T), Cardinality(T) = n + 1
               PROVE  \E order : Orders(order, n + 1, T)
    OBVIOUS
  <2>1. ASSUME NEW x \in T PROVE \E order : Orders(order, n, T \ {x})
    <3>1. IsFiniteSet(T \ {x}) /\ Cardinality(T \ {x}) = n
      <4>1. IsFiniteSet(T \ {x}) /\ Cardinality(T \ {x}) = (n + 1) - 1
        BY FS_RemoveElement
      <4> QED
        BY <4>1
    <3>2. Can(n) /\ T \ {x} \in SUBSET Seq(CodePoint)
      BY <1>2
    <3> QED
      BY <3>1, <3>2
  <2>2. T # {}
    <3>1. Cardinality(T) # 0
      OBVIOUS
    <3> QED
      BY <3>1, FS_EmptySet
  <2> HIDE DEF N
  <2>3. PICK m \in T : \A y \in T \ {m} : Less(y, m)
    <3>1. PICK x \in T : TRUE
      BY <2>2
    <3>2. PICK order : Orders(order, n, T \ {x})
      BY <2>1
    <3> QED
      BY <3>2, HasLast
  <2>4. PICK g : Orders(g, n, T \ {m})
    BY <2>1
  <2>5. /\ g \in [1..n -> T \ {m}]
        /\ \A y \in T \ {m} : \E i \in 1..n : g[i] = y
        /\ \A i, j \in 1..n : i < j => Less(g[i], g[j])
    BY <2>4 DEF Orders
  <2>6. PICK k \in Nat : k = n + 1
    OBVIOUS
  <2> DEFINE h == [i \in 1..k |-> IF i = k THEN m ELSE g[i]]
  <2>7. \A i \in 1..k : i # k => i \in 1..n
    BY <2>6
  <2>8. h \in [1..k -> T]
    BY <2>5, <2>7
  <2>9. h[k] = m /\ \A i \in 1..n : i \in 1..k /\ h[i] = g[i]
    BY <2>6
  <2> HIDE DEF h
  <2>10. ASSUME NEW y \in T PROVE \E i \in 1..k : h[i] = y
    <3>1. CASE y = m
      BY <2>6, <2>9, <3>1
    <3>2. CASE y # m
      <4>1. PICK i \in 1..n : g[i] = y
        BY <2>5, <3>2
      <4> QED
        BY <2>9, <4>1
    <3> QED
      BY <3>1, <3>2
  <2>11. ASSUME NEW i \in 1..k, NEW j \in 1..k, i < j PROVE Less(h[i], h[j])
    <3>1. i \in 1..n
      BY <2>6, <2>11
    <3>2. CASE j = k
      <4>1. h[j] = m /\ h[i] \in T \ {m}
        BY <2>5, <2>9, <3>1, <3>2
      <4> QED
        BY <2>3, <4>1
    <3>3. CASE j # k
      <4>1. j \in 1..n
        BY <2>7, <3>3
      <4> QED
        BY <2>5, <2>9, <2>11, <3>1, <4>1
    <3> QED
      BY <3>2, <3>3
  <2>12. Orders(h, k, T)
    BY <2>8, <2>10, <2>11 DEF Orders
  <2> QED
    BY <2>6, <2>12
<1> HIDE DEF N
<1>3. Cardinality(S) \in Nat
  BY FS_CardinalityType
<1>4. Cardinality(S) \in N
  BY <1>1, <1>2, <1>3, ForEveryNumber
<1> QED
  BY <1>4 DEF N

LEMMA EntriesAreFinite ==
    ASSUME NEW C, NEW texts \in Seq(C)
    PROVE  IsFiniteSet(ToSet(texts)) /\ ToSet(texts) \in SUBSET C
<1>1. Len(texts) \in Nat /\ DOMAIN texts = 1..Len(texts) /\ \A i \in 1..Len(texts) : texts[i] \in C
  OBVIOUS
<1>2. ToSet(texts) = {texts[i] : i \in 1..Len(texts)}
  BY <1>1 DEF ToSet
<1>3. texts \in Surjection(1..Len(texts), ToSet(texts))
  <2>1. texts \in [1..Len(texts) -> ToSet(texts)]
    BY <1>1, <1>2
  <2>2. \A y \in ToSet(texts) : \E i \in 1..Len(texts) : texts[i] = y
    BY <1>2
  <2> QED
    BY <2>1, <2>2 DEF Surjection
<1>4. IsFiniteSet(1..Len(texts))
  BY <1>1, FS_Interval
<1>5. IsFiniteSet(ToSet(texts))
  BY <1>3, <1>4, FS_Surjection
<1> QED
  BY <1>1, <1>2, <1>5

\* In order, each text once.
LEMMA InUtf16Order ==
    ASSUME NEW S \in SUBSET Seq(CodePoint), IsFiniteSet(S)
    PROVE  /\ in_utf16_order(S) \in Seq(Seq(CodePoint))
           /\ InOrder(in_utf16_order(S))
           /\ ToSet(in_utf16_order(S)) = S
           /\ Len(in_utf16_order(S)) = Cardinality(S)
<1> DEFINE n == Cardinality(S)
           Chosen(order) == Sorted([i \in DOMAIN order |-> utf_16(order[i])])
           scope == in_utf16_order(S)
<1>1. IsFiniteSet(S) /\ S \in SUBSET Seq(CodePoint)
  OBVIOUS
<1>2. n \in Nat
  BY <1>1, FS_CardinalityType
<1>3. \A order : Chosen(order) <=> InOrder(order)
  BY DEF Sorted, InOrder, Less
<1>4. scope = CHOOSE order \in SetToSeqs(S) : Chosen(order)
  BY DEF in_utf16_order
<1> HIDE DEF n, Chosen, scope
<1>5. PICK order : Orders(order, n, S)
  BY <1>1, CanBeOrdered DEF n
<1>6. order \in [1..n -> S] /\ DOMAIN order = 1..n /\ \A i, j \in 1..n : i < j => Less(order[i], order[j])
  BY <1>5 DEF Orders
<1>7. \A i, j \in 1..n : i # j => order[i] # order[j]
  <2> SUFFICES ASSUME NEW i \in 1..n, NEW j \in 1..n, i # j PROVE order[i] # order[j]
    OBVIOUS
  <2>1. order[i] \in Seq(CodePoint) /\ order[j] \in Seq(CodePoint)
    BY <1>1, <1>6
  <2>2. i < j \/ j < i
    BY <1>2
  <2> QED
    BY <1>6, <2>1, <2>2, LessIsStrict
<1>8. order \in SetToSeqs(S)
  BY <1>6, <1>7 DEF SetToSeqs, n
<1>9. Chosen(order)
  BY <1>3, <1>6 DEF InOrder
<1>10. scope \in SetToSeqs(S) /\ Chosen(scope)
  BY <1>4, <1>8, <1>9
<1>11. scope \in [1..n -> S] /\ \A i, j \in 1..n : i # j => scope[i] # scope[j]
  BY <1>10 DEF SetToSeqs, n
<1>12. scope \in Seq(Seq(CodePoint))
  <2>1. scope \in [1..n -> Seq(CodePoint)]
    BY <1>1, <1>11
  <2> QED
    BY <1>2, <2>1
<1>13. ToSet(scope) = S
  <2>1. scope \in Injection(1..n, S)
    BY <1>11 DEF Injection, IsInjective
  <2>2. Cardinality(1..n) = n
    BY <1>2, FS_Interval
  <2>3. scope \in Surjection(1..n, S)
    BY <1>1, <2>1, <2>2, FS_Injection DEF n
  <2>4. \A y \in S : \E i \in 1..n : scope[i] = y
    BY <2>3 DEF Surjection
  <2> QED
    BY <1>11, <2>4 DEF ToSet
<1>14. Len(scope) = n
  BY <1>2, <1>11
<1> QED
  BY <1>3, <1>10, <1>12, <1>13, <1>14 DEF scope, n

\* A canonical scope has each entry once, in order.
LEMMA ScopeSorted ==
    ASSUME NEW texts \in Seq(Seq(CodePoint))
    PROVE  /\ canonical_scope(texts) \in Seq(Seq(CodePoint))
           /\ InOrder(canonical_scope(texts))
           /\ ToSet(canonical_scope(texts)) = ToSet(texts)
<1>1. IsFiniteSet(ToSet(texts)) /\ ToSet(texts) \in SUBSET Seq(CodePoint)
  BY EntriesAreFinite
<1> QED
  BY <1>1, InUtf16Order DEF canonical_scope

-----------------------------------------------------------------------------
(***************************************************************************)
(* Whole milliseconds.                                                     *)
(***************************************************************************)
LEMMA WholeMillis ==
    ASSUME NEW t \in Int
    PROVE  /\ t % Milli \in 0..(Milli - 1)
           /\ t \div Milli \in Int
           /\ t = Milli * (t \div Milli) + (t % Milli)
           /\ (t - (t % Milli)) \div Milli = t \div Milli
           /\ (t - (t % Milli)) % Milli = 0
           /\ (t \div Milli) * Milli = t - (t % Milli)
           /\ t >= 0 => t - (t % Milli) >= 0
<1>1. Milli \in Nat /\ Milli > 0
  BY CanonicalAssumption
<1>2. t % Milli \in 0..(Milli - 1) /\ t \div Milli \in Int /\ t = Milli * (t \div Milli) + (t % Milli)
  BY <1>1
<1>3. PICK q \in Int : q = t \div Milli
  BY <1>2
<1>4. t - (t % Milli) = Milli * q /\ t - (t % Milli) = q * Milli
  BY <1>1, <1>2, <1>3
<1>5. (Milli * q) \div Milli = q /\ (Milli * q) % Milli = 0
  BY <1>1
<1>6. t >= 0 => q >= 0
  BY <1>1, <1>2, <1>3
<1>7. q >= 0 => Milli * q >= 0
  BY <1>1
<1> QED
  BY <1>2, <1>3, <1>4, <1>5, <1>6, <1>7
-----------------------------------------------------------------------------
(***************************************************************************)
(* Amounts: the zeros that are stripped.                                   *)
(***************************************************************************)
LEMMA GreaterOfTwo ==
    ASSUME NEW a \in Int, NEW b \in Int
    PROVE  Max({a, b}) = IF a >= b THEN a ELSE b
<1>1. \E x \in {a, b} : \A y \in {a, b} : x >= y
  OBVIOUS
<1>2. Max({a, b}) \in {a, b} /\ \A y \in {a, b} : Max({a, b}) >= y
  BY <1>1 DEF Max
<1> QED
  BY <1>2

LEMMA Zeros ==
    ASSUME NEW n \in Int
    PROVE  /\ zeros(n) \in Seq(0..9)
           /\ Len(zeros(n)) = IF n > 0 THEN n ELSE 0
           /\ \A i \in 1..Len(zeros(n)) : zeros(n)[i] = 0
<1>1. PICK m \in Nat : m = Max({n, 0}) /\ m = IF n > 0 THEN n ELSE 0
  <2>1. Max({n, 0}) = IF n >= 0 THEN n ELSE 0
    BY GreaterOfTwo
  <2> QED
    BY <2>1
<1>2. zeros(n) = [i \in 1..m |-> 0]
  BY <1>1 DEF zeros
<1>3. [i \in 1..m |-> 0] \in [1..m -> 0..9]
  OBVIOUS
<1>4. zeros(n) \in Seq(0..9) /\ Len(zeros(n)) = m
  BY <1>2, <1>3
<1> QED
  BY <1>1, <1>2, <1>4

\* The last k digits are zero.
Trailing(digits, k) == \A i \in 1..Len(digits) : i > Len(digits) - k => digits[i] = 0

LEMMA TrailingZeros ==
    ASSUME NEW digits \in Seq(0..9), NEW k \in 0..Len(digits)
    PROVE  IsZero(SubSeq(digits, Len(digits) - k + 1, Len(digits))) <=> Trailing(digits, k)
<1>1. PICK n \in Nat : n = Len(digits) /\ \A i \in 1..n : digits[i] \in 0..9
  OBVIOUS
<1> DEFINE end == SubSeq(digits, n - k + 1, n)
<1>2. end \in Seq(0..9) /\ Len(end) = k /\ \A i \in 1..k : end[i] = digits[n - k + i]
  <2>1. \A i \in (n - k + 1)..n : digits[i] \in 0..9
    BY <1>1
  <2>2. /\ end \in Seq(0..9)
        /\ Len(end) = IF n - k + 1 =< n THEN n - (n - k + 1) + 1 ELSE 0
        /\ \A i \in 1..(n - (n - k + 1) + 1) : end[i] = digits[n - k + 1 + i - 1]
    BY <1>1, <2>1, SubSeqProperties
  <2> HIDE DEF end
  <2>3. Len(end) = k
    BY <1>1, <2>2
  <2>4. ASSUME NEW i \in 1..k PROVE end[i] = digits[n - k + i]
    <3>1. i \in 1..(n - (n - k + 1) + 1) /\ n - k + 1 + i - 1 = n - k + i
      BY <1>1
    <3> QED
      BY <2>2, <3>1
  <2> QED
    BY <2>2, <2>3, <2>4
<1> HIDE DEF end
<1>3. IsZero(end) <=> \A i \in 1..k : end[i] = 0
  <2>1. DOMAIN end = 1..k
    BY <1>2, LenProperties
  <2> QED
    BY <2>1 DEF IsZero
<1>4. (\A i \in 1..k : end[i] = 0) <=> \A i \in 1..n : i > n - k => digits[i] = 0
  <2>1. ASSUME \A i \in 1..k : end[i] = 0, NEW i \in 1..n, i > n - k PROVE digits[i] = 0
    <3>1. i - (n - k) \in 1..k /\ n - k + (i - (n - k)) = i
      BY <1>1, <2>1
    <3> QED
      BY <1>2, <2>1, <3>1
  <2>2. ASSUME \A i \in 1..n : i > n - k => digits[i] = 0, NEW i \in 1..k PROVE end[i] = 0
    <3>1. n - k + i \in 1..n /\ n - k + i > n - k
      BY <1>1
    <3> QED
      BY <1>2, <2>2, <3>1
  <2> QED
    BY <2>1, <2>2
<1> QED
  BY <1>1, <1>3, <1>4 DEF Trailing, end

\* How many zeros may go, and that no more may.
May(amount, k) == k \in 0..Len(amount.digits) /\ (k = 0 \/ k =< -amount.exponent) /\ Trailing(amount.digits, k)

LEMMA Strippable ==
    ASSUME NEW amount \in Amount
    PROVE  /\ May(amount, strippable(amount))
           /\ \A k \in Nat : May(amount, k) => k =< strippable(amount)
<1> DEFINE digits == amount.digits
           n == Len(digits)
           K == {k \in 0..n : (k = 0 \/ k =< -amount.exponent)
                              /\ IsZero(SubSeq(digits, n - k + 1, n))}
<1>1. digits \in Seq(0..9) /\ n \in Nat /\ amount.exponent \in Int
  BY DEF Amount
<1>2. strippable(amount) = Max(K)
  BY DEF strippable
<1>3. ASSUME NEW k \in 0..n PROVE k \in K <=> May(amount, k)
  BY <1>1, TrailingZeros DEF May
<1>4. 0 \in K
  <2>1. May(amount, 0)
    BY <1>1 DEF May, Trailing
  <2> QED
    BY <1>1, <1>3, <2>1
<1>5. K \subseteq 0..n
  OBVIOUS
<1>6. ASSUME NEW k \in Nat, May(amount, k) PROVE k \in K
  <2>1. k \in 0..n
    BY <1>6 DEF May
  <2> QED
    BY <1>3, <1>6, <2>1
<1> HIDE DEF n, K
<1>7. Max(K) \in K /\ \A k \in K : k =< Max(K)
  BY <1>1, <1>4, <1>5, Greatest
<1> QED
  BY <1>2, <1>3, <1>5, <1>6, <1>7

\* The fraction of a number with digits other than zero is never stripped to nothing.
LEMMA SomethingIsLeft ==
    ASSUME NEW amount \in Amount, ~ IsZero(amount.digits)
    PROVE  strippable(amount) \in 0..(Len(amount.digits) - 1)
<1>1. amount.digits \in Seq(0..9) /\ Len(amount.digits) \in Nat
      /\ DOMAIN amount.digits = 1..Len(amount.digits)
  BY DEF Amount
<1>2. May(amount, strippable(amount))
  BY Strippable
<1>3. strippable(amount) # Len(amount.digits)
  <2> SUFFICES ASSUME strippable(amount) = Len(amount.digits) PROVE IsZero(amount.digits)
    OBVIOUS
  <2>1. \A i \in 1..Len(amount.digits) : amount.digits[i] = 0
    BY <1>1, <1>2 DEF May, Trailing
  <2> QED
    BY <1>1, <2>1 DEF IsZero
<1> QED
  BY <1>1, <1>2, <1>3 DEF May

\* A number as Decimal() reads it: no zeros before the first digit that counts.
Reduced(digits) == Len(digits) = 1 \/ digits[1] # 0

\* Making an amount canonical keeps it an amount, and a second time changes nothing.
LEMMA CanonicalAmount ==
    ASSUME NEW amount \in Amount
    PROVE  LET canonical == canonical_amount(amount)
           IN  /\ canonical \in Amount
               /\ canonical.kind = amount.kind
               /\ IsAmount(amount) => IsAmount(canonical)
               /\ amount.exponent =< 0 => canonical.exponent =< 0
               /\ Reduced(amount.digits) => Reduced(canonical.digits)
               /\ canonical_amount(canonical) = canonical
<1> DEFINE canonical == canonical_amount(amount)
<1>1. amount.digits \in Seq(0..9) /\ Len(amount.digits) \in Nat /\ Len(amount.digits) # 0
      /\ DOMAIN amount.digits = 1..Len(amount.digits)
      /\ (\A i \in 1..Len(amount.digits) : amount.digits[i] \in 0..9)
      /\ amount.exponent \in Int /\ amount.kind \in {"decimal", "float"} /\ amount.sign \in {0, 1}
      /\ amount = [kind |-> amount.kind, sign |-> amount.sign, digits |-> amount.digits,
                   exponent |-> amount.exponent]
  BY EmptySeq DEF Amount
<1>2. CASE IsZero(amount.digits)
  <2>1. canonical = [kind |-> amount.kind, sign |-> 0, digits |-> <<0>>, exponent |-> 0]
    BY <1>1, <1>2 DEF canonical_amount
  <2>2. IsZero(<<0>>) /\ <<0>> \in Seq(0..9) /\ Len(<<0>>) = 1
    BY DEF IsZero
  <2>3. canonical_amount(canonical) = canonical
    BY <2>1, <2>2 DEF canonical_amount
  <2>4. canonical \in Amount
    BY <1>1, <2>1, <2>2 DEF Amount
  <2> HIDE DEF canonical
  <2> QED
    BY <2>1, <2>2, <2>3, <2>4 DEF canonical, IsAmount, Reduced
<1>3. CASE ~ IsZero(amount.digits)
  <2> DEFINE k == strippable(amount)
             n == Len(amount.digits)
             m == n - k
             digits == SubSeq(amount.digits, 1, m)
  <2>1. k \in 0..(n - 1) /\ May(amount, k) /\ \A j \in Nat : May(amount, j) => j =< k
    BY <1>3, SomethingIsLeft, Strippable
  <2>2. canonical = [kind |-> amount.kind, sign |-> amount.sign, digits |-> digits,
                     exponent |-> amount.exponent + k]
    BY <1>1, <1>3 DEF canonical_amount
  <2>3. n \in Nat /\ m \in 1..n /\ m = n - k
    BY <1>1, <2>1
  <2> HIDE DEF k, n, m
  <2>4. digits \in Seq(0..9) /\ Len(digits) = m /\ \A i \in 1..m : digits[i] = amount.digits[i]
    <3>1. \A i \in 1..m : amount.digits[i] \in 0..9
      BY <1>1, <2>3 DEF n
    <3> QED
      BY <2>3, <3>1, SubSeqProperties
  <2>5. digits # << >> /\ DOMAIN digits = 1..m
    <3>1. DOMAIN digits = 1..m
      BY <2>4, LenProperties
    <3>2. Len(digits) # 0
      BY <2>3, <2>4
    <3> QED
      BY <3>1, <3>2, EmptySeq
  <2> HIDE DEF digits, canonical
  <2>6. canonical \in Amount
    BY <1>1, <2>1, <2>2, <2>4, <2>5 DEF Amount
  <2>7. ~ IsZero(digits)
    <3> SUFFICES ASSUME \A i \in 1..m : digits[i] = 0 PROVE FALSE
      BY <2>5 DEF IsZero
    <3>1. ASSUME NEW i \in 1..n PROVE amount.digits[i] = 0
      <4>1. CASE i =< m
        BY <2>3, <2>4, <4>1
      <4>2. CASE ~ (i =< m)
        BY <2>1, <2>3, <4>2 DEF May, Trailing, n
      <4> QED
        BY <4>1, <4>2
    <3> QED
      BY <1>1, <1>3, <3>1 DEF IsZero, n
  <2>8. strippable(canonical) = 0
    <3> DEFINE j == strippable(canonical)
    <3>1. canonical.digits = digits /\ canonical.exponent = amount.exponent + k
      BY <2>2
    <3>2. j \in 0..(m - 1) /\ May(canonical, j)
      BY <2>4, <2>6, <2>7, <3>1, SomethingIsLeft, Strippable
    <3> HIDE DEF j
    <3> SUFFICES ASSUME j # 0 PROVE FALSE
      BY DEF j
    <3>3. j + k \in 0..n /\ j + k \in Nat
      BY <2>1, <2>3, <3>2
    <3>4. j + k =< -amount.exponent
      <4>1. j =< -(amount.exponent + k)
        BY <3>1, <3>2 DEF May
      <4> QED
        BY <1>1, <2>1, <3>2, <4>1
    <3>5. Trailing(amount.digits, j + k)
      <4> SUFFICES ASSUME NEW i \in 1..n, i > n - (j + k) PROVE amount.digits[i] = 0
        BY DEF Trailing, n
      <4>1. CASE i =< m
        <5>1. i \in 1..m /\ i > m - j
          BY <2>1, <2>3, <3>2, <4>1
        <5>2. digits[i] = 0
          BY <2>4, <3>1, <3>2, <5>1 DEF May, Trailing
        <5> QED
          BY <2>4, <5>1, <5>2
      <4>2. CASE ~ (i =< m)
        BY <2>1, <2>3, <4>2 DEF May, Trailing, n
      <4> QED
        BY <4>1, <4>2
    <3>6. May(amount, j + k)
      BY <3>3, <3>4, <3>5 DEF May, n
    <3> QED
      BY <2>1, <3>2, <3>3, <3>6
  <2>9. canonical_amount(canonical) = canonical
    <3>1. canonical_amount(canonical)
              = [canonical EXCEPT !.digits = SubSeq(@, 1, Len(@) - 0), !.exponent = @ + 0]
      BY <2>2, <2>7, <2>8 DEF canonical_amount
    <3>2. SubSeq(digits, 1, Len(digits) - 0) = digits
      BY <2>3, <2>4, SubSeqFull
    <3>3. amount.exponent + k + 0 = amount.exponent + k
      BY <1>1, <2>1
    <3> QED
      BY <2>2, <3>1, <3>2, <3>3
  <2>10. amount.exponent =< 0 => canonical.exponent =< 0
    <3>1. k = 0 \/ k =< -amount.exponent
      BY <2>1 DEF May
    <3> QED
      BY <1>1, <2>1, <2>2, <3>1
  <2>11. Reduced(amount.digits) => Reduced(canonical.digits)
    <3>1. 1 \in 1..m /\ digits[1] = amount.digits[1] /\ (Len(amount.digits) = 1 => m = 1)
      BY <2>3, <2>4 DEF n
    <3> QED
      BY <2>2, <2>4, <3>1 DEF Reduced
  <2>12. IsAmount(amount) => IsAmount(canonical)
    BY <1>3, <2>2 DEF IsAmount
  <2>13. canonical.kind = amount.kind
    BY <2>2
  <2> QED
    BY <2>6, <2>9, <2>10, <2>11, <2>12, <2>13 DEF canonical
<1> QED
  BY <1>2, <1>3

-----------------------------------------------------------------------------
(***************************************************************************)
(* Amounts printed, and read again.                                        *)
(***************************************************************************)
Digits == Seq(0..9)

AmountText == [minus : {0, 1}, whole : Digits \ {<< >>}, fraction : Digits]

LEMMA PlainText ==
    ASSUME NEW amount, amount.digits \in Digits, amount.exponent \in Int, amount.sign \in {0, 1}
    PROVE  plain(amount) \in AmountText
<1> DEFINE digits == amount.digits
<1>1. PICK n \in Nat : n = Len(digits) /\ \A i \in 1..n : digits[i] \in 0..9
  BY DEF Digits
<1>2. PICK e \in Int : e = amount.exponent
  OBVIOUS
<1> DEFINE point == n + e
           whole == IF point =< 0 THEN <<0>> ELSE SubSeq(digits \o zeros(e), 1, point)
           fraction == IF e >= 0 THEN << >>
                       ELSE zeros(-point) \o SubSeq(digits, Max({point, 0}) + 1, n)
<1>3. plain(amount) = [minus |-> amount.sign, whole |-> whole, fraction |-> fraction]
  BY <1>1, <1>2 DEF plain
<1>4. point \in Int /\ digits \in Seq(0..9)
  BY DEF Digits
<1>5. whole \in Digits \ {<< >>}
  <2>1. CASE point =< 0
    <3>1. <<0>> \in Seq(0..9)
      OBVIOUS
    <3> QED
      BY <2>1, <3>1 DEF Digits
  <2>2. CASE ~ (point =< 0)
    <3> DEFINE d == digits \o zeros(e)
    <3>1. zeros(e) \in Seq(0..9) /\ Len(zeros(e)) = IF e > 0 THEN e ELSE 0
      BY Zeros
    <3>2. PICK m \in Nat : m = Len(zeros(e)) /\ m >= e
      BY <3>1
    <3>3. d \in Seq(0..9) /\ Len(d) = n + m
      BY <1>1, <1>4, <3>1, <3>2, ConcatProperties
    <3> HIDE DEF d
    <3>4. \A i \in 1..point : i \in 1..(n + m)
      BY <3>2
    <3>5. \A i \in 1..point : d[i] \in 0..9
      BY <3>3, <3>4, ElementOfSeq
    <3>6. SubSeq(d, 1, point) \in Seq(0..9) /\ Len(SubSeq(d, 1, point)) = point
      BY <1>4, <2>2, <3>5, SubSeqProperties
    <3>7. point # 0
      BY <2>2
    <3> HIDE DEF point
    <3>8. SubSeq(d, 1, point) # << >>
      BY <3>6, <3>7, EmptySeq
    <3> QED
      BY <2>2, <3>6, <3>8 DEF Digits, d
  <2> QED
    BY <2>1, <2>2
<1>6. fraction \in Digits
  <2>1. << >> \in Digits
    BY EmptySeq DEF Digits
  <2>2. zeros(-point) \in Seq(0..9)
    BY <1>4, Zeros
  <2>3. PICK from \in Nat : from = Max({point, 0})
    <3>1. Max({point, 0}) = IF point >= 0 THEN point ELSE 0
      BY <1>4, GreaterOfTwo
    <3> QED
      BY <1>4, <3>1
  <2>4. SubSeq(digits, from + 1, n) \in Seq(0..9)
    <3>1. \A i \in (from + 1)..n : digits[i] \in 0..9
      BY <1>1
    <3> QED
      BY <1>1, <3>1, SubSeqProperties
  <2>5. zeros(-point) \o SubSeq(digits, from + 1, n) \in Seq(0..9)
    BY <2>2, <2>4, ConcatProperties
  <2> QED
    BY <2>1, <2>3, <2>5 DEF Digits
<1> HIDE DEF whole, fraction
<1> QED
  BY <1>3, <1>5, <1>6 DEF AmountText

LEMMA FormatText ==
    ASSUME NEW amount \in Amount
    PROVE  format_amount(amount) \in AmountText
<1>1. amount.digits \in Digits /\ amount.exponent \in Int /\ amount.sign \in {0, 1}
  BY DEF Amount, Digits
<1>2. CASE amount.kind = "float"
  <2> DEFINE dropped == Max({0, -FloatPlaces - amount.exponent})
             digits == amount.digits \o zeros(amount.exponent + FloatPlaces)
             kept == SubSeq(digits, 1, Len(digits) - dropped)
  <2>1. FloatPlaces \in Nat
    BY CanonicalAssumption
  <2>2. dropped \in Nat
    <3>1. dropped = IF 0 >= -FloatPlaces - amount.exponent THEN 0 ELSE -FloatPlaces - amount.exponent
      BY <1>1, <2>1, GreaterOfTwo
    <3> QED
      BY <1>1, <2>1, <3>1
  <2>3. digits \in Seq(0..9)
    <3>1. zeros(amount.exponent + FloatPlaces) \in Seq(0..9)
      BY <1>1, <2>1, Zeros
    <3> QED
      BY <1>1, <3>1, ConcatProperties DEF Digits
  <2> HIDE DEF dropped, digits
  <2>4. kept \in Digits
    <3>1. Len(digits) \in Nat /\ \A i \in 1..Len(digits) : digits[i] \in 0..9
      BY <2>3
    <3>2. \A i \in 1..(Len(digits) - dropped) : digits[i] \in 0..9
      BY <2>2, <3>1
    <3> QED
      BY <2>2, <3>1, <3>2, SubSeqProperties DEF Digits
  <2> HIDE DEF kept
  <2>5. in_places(amount) = [amount EXCEPT !.digits = kept, !.exponent = -FloatPlaces]
    BY DEF in_places, kept, digits, dropped
  <2>6. amount = [kind |-> amount.kind, sign |-> amount.sign, digits |-> amount.digits,
                  exponent |-> amount.exponent]
    BY DEF Amount
  <2>7. /\ in_places(amount).digits = kept /\ in_places(amount).exponent = -FloatPlaces
        /\ in_places(amount).sign = amount.sign
    BY <2>5, <2>6
  <2>8. plain(in_places(amount)) \in AmountText
    <3>1. in_places(amount).exponent \in Int
      BY <2>1, <2>7
    <3> QED
      BY <1>1, <2>4, <2>7, <3>1, PlainText
  <2> QED
    BY <1>2, <2>8 DEF format_amount
<1>3. CASE amount.kind # "float"
  <2>1. plain(amount) \in AmountText
    BY <1>1, PlainText
  <2> QED
    BY <1>3, <2>1 DEF format_amount
<1> QED
  BY <1>2, <1>3

\* How many zeros there are before the digit that counts, or the last one.
leading_zeros(digits) == Max({k \in 0..(Len(digits) - 1) : IsZero(SubSeq(digits, 1, k))})

LEMMA Leading ==
    ASSUME NEW digits \in Digits, digits # << >>
    PROVE  /\ leading_zeros(digits) \in 0..(Len(digits) - 1)
           /\ \A i \in 1..leading_zeros(digits) : digits[i] = 0
           /\ leading_zeros(digits) < Len(digits) - 1 => digits[leading_zeros(digits) + 1] # 0
<1>1. PICK n \in Nat : n = Len(digits) - 1 /\ \A i \in 1..(n + 1) : digits[i] \in 0..9
  BY EmptySeq DEF Digits
<1> DEFINE K == {k \in 0..n : IsZero(SubSeq(digits, 1, k))}
           l == Max(K)
<1>2. leading_zeros(digits) = l
  BY <1>1 DEF leading_zeros
<1>3. ASSUME NEW k \in 0..(n + 1)
      PROVE  IsZero(SubSeq(digits, 1, k)) <=> \A i \in 1..k : digits[i] = 0
  <2> DEFINE s == SubSeq(digits, 1, k)
  <2>1. \A i \in 1..k : digits[i] \in 0..9
    BY <1>1
  <2>2. s \in Seq(0..9) /\ Len(s) = k /\ \A i \in 1..k : s[i] = digits[i]
    BY <2>1, SubSeqProperties
  <2>3. DOMAIN s = 1..k
    BY <2>2, LenProperties
  <2> QED
    BY <2>2, <2>3 DEF IsZero
<1>4. 0 \in K
  BY <1>1, <1>3
<1>5. K \subseteq 0..n
  OBVIOUS
<1> HIDE DEF K
<1>6. l \in K /\ \A k \in K : k =< l
  BY <1>4, <1>5, Greatest
<1> HIDE DEF l
<1>7. l \in 0..n /\ \A i \in 1..l : digits[i] = 0
  BY <1>1, <1>3, <1>6 DEF K
<1>8. ASSUME l < n, digits[l + 1] = 0 PROVE FALSE
  <2>1. PICK k \in 0..n : k = l + 1
    BY <1>7, <1>8
  <2>2. \A i \in 1..k : digits[i] = 0
    BY <1>7, <1>8, <2>1
  <2>3. k \in K
    BY <1>1, <1>3, <2>2 DEF K
  <2> QED
    BY <1>6, <1>7, <2>1, <2>3
<1> QED
  BY <1>1, <1>2, <1>7, <1>8

LEMMA ReadText ==
    ASSUME NEW text \in AmountText
    PROVE  LET amount == read_amount(text)
           IN  /\ amount \in Amount /\ amount.kind = "decimal" /\ amount.sign = text.minus
               /\ amount.exponent = -Len(text.fraction) /\ amount.exponent =< 0
               /\ Reduced(amount.digits)
<1> DEFINE digits == text.whole \o text.fraction
           n == Len(digits)
           l == leading_zeros(digits)
           read == SubSeq(digits, l + 1, n)
<1>1. text.whole \in Seq(0..9) /\ text.whole # << >> /\ text.fraction \in Seq(0..9) /\ text.minus \in {0, 1}
  BY DEF AmountText, Digits
<1>2. read_amount(text) = [kind |-> "decimal", sign |-> text.minus, digits |-> read,
                           exponent |-> -Len(text.fraction)]
  BY DEF read_amount, leading_zeros
<1>3. digits \in Seq(0..9) /\ digits # << >>
  BY <1>1, ConcatProperties, ConcatEqualIffEmpty
<1>4. n \in Nat \ {0} /\ \A i \in 1..n : digits[i] \in 0..9
  <2>1. \A i \in 1..n : digits[i] \in 0..9
    BY <1>3, ElementOfSeq
  <2> HIDE DEF digits
  <2> QED
    BY <1>3, <2>1, EmptySeq
<1> HIDE DEF digits
<1>5. l \in 0..(n - 1) /\ (l < n - 1 => digits[l + 1] # 0)
  BY <1>3, Leading DEF Digits
<1> HIDE DEF n, l
<1>6. read \in Seq(0..9) /\ Len(read) = n - l /\ read[1] = digits[l + 1]
  <2>1. \A i \in (l + 1)..n : digits[i] \in 0..9
    BY <1>4, <1>5
  <2>2. /\ read \in Seq(0..9) /\ Len(read) = n - (l + 1) + 1
        /\ \A i \in 1..(n - (l + 1) + 1) : read[i] = digits[l + 1 + i - 1]
    BY <1>4, <1>5, <2>1, SubSeqProperties
  <2> HIDE DEF read
  <2>3. 1 \in 1..(n - (l + 1) + 1) /\ l + 1 + 1 - 1 = l + 1 /\ n - (l + 1) + 1 = n - l
    BY <1>4, <1>5
  <2> QED
    BY <2>2, <2>3
<1> HIDE DEF read
<1>7. read # << >> /\ Reduced(read)
  <2>1. Len(read) >= 1 /\ (l = n - 1 => Len(read) = 1)
    BY <1>4, <1>5, <1>6
  <2>2. l = n - 1 \/ l < n - 1
    BY <1>4, <1>5
  <2>3. read # << >>
    BY <2>1, EmptySeq
  <2> QED
    BY <1>5, <1>6, <2>1, <2>2, <2>3 DEF Reduced
<1>8. Len(text.fraction) \in Nat
  BY <1>1
<1>9. read_amount(text) \in Amount
  BY <1>1, <1>2, <1>6, <1>7, <1>8 DEF Amount
<1> QED
  BY <1>2, <1>7, <1>8, <1>9

\* The digits of a text that begins with zeros for their number.
LEMMA ReadAfterZeros ==
    ASSUME NEW all \in Digits, NEW digits \in Digits, NEW z \in Nat, digits # << >>, Reduced(digits),
           Len(all) = z + Len(digits),
           \A i \in 1..z : all[i] = 0,
           \A i \in 1..Len(digits) : all[z + i] = digits[i]
    PROVE  leading_zeros(all) = z /\ SubSeq(all, z + 1, Len(all)) = digits
<1>1. PICK n \in Nat \ {0} : n = Len(digits) /\ \A i \in 1..n : digits[i] \in 0..9
  BY EmptySeq DEF Digits
<1> DEFINE l == leading_zeros(all)
<1>2. all # << >>
  BY <1>1, EmptySeq
<1>3. /\ l \in 0..(z + n - 1)
      /\ \A i \in 1..l : all[i] = 0
      /\ l < z + n - 1 => all[l + 1] # 0
  BY <1>1, <1>2, Leading
<1>4. n = 1 \/ all[z + 1] # 0
  BY <1>1 DEF Reduced
<1> HIDE DEF l
<1>5. l = z
  <2>1. CASE l < z
    <3>1. l + 1 \in 1..z /\ l < z + n - 1
      BY <1>1, <1>3, <2>1
    <3> QED
      BY <1>3, <3>1
  <2>2. CASE l > z
    <3>1. z + 1 \in 1..l /\ n # 1
      BY <1>1, <1>3, <2>2
    <3> QED
      BY <1>3, <1>4, <3>1
  <2> QED
    BY <1>1, <1>3, <2>1, <2>2
<1>6. SubSeq(all, z + 1, z + n) = digits
  <2> DEFINE read == SubSeq(all, z + 1, z + n)
  <2>1. \A i \in (z + 1)..(z + n) : all[i] \in 0..9
    <3> SUFFICES ASSUME NEW i \in (z + 1)..(z + n) PROVE all[i] \in 0..9
      OBVIOUS
    <3>1. i \in 1..Len(all)
      BY <1>1
    <3> QED
      BY <3>1, ElementOfSeq DEF Digits
  <2>2. /\ read \in Seq(0..9) /\ Len(read) = z + n - (z + 1) + 1
        /\ \A i \in 1..(z + n - (z + 1) + 1) : read[i] = all[z + 1 + i - 1]
    BY <1>1, <2>1, SubSeqProperties
  <2> HIDE DEF read
  <2>3. Len(read) = n
    BY <1>1, <2>2
  <2>4. ASSUME NEW i \in 1..n PROVE read[i] = digits[i]
    <3>1. i \in 1..(z + n - (z + 1) + 1) /\ z + 1 + i - 1 = z + i
      BY <1>1
    <3> QED
      BY <1>1, <2>2, <3>1
  <2>5. read = digits
    BY <1>1, <2>2, <2>3, <2>4, SeqEqual DEF Digits
  <2> QED
    BY <2>5 DEF read
<1> QED
  BY <1>1, <1>5, <1>6 DEF l

\* What Decimal() has read and has no exponent above zero, it prints and reads again.
LEMMA ReadsBack ==
    ASSUME NEW amount \in Amount, amount.kind = "decimal", amount.exponent =< 0, Reduced(amount.digits)
    PROVE  read_amount(format_amount(amount)) = amount
<1> DEFINE digits == amount.digits
<1>1. PICK n \in Nat \ {0} : n = Len(digits) /\ \A i \in 1..n : digits[i] \in 0..9
  BY EmptySeq DEF Amount
<1>2. digits \in Digits /\ digits # << >> /\ amount.exponent \in Int /\ amount.sign \in {0, 1}
      /\ amount = [kind |-> "decimal", sign |-> amount.sign, digits |-> digits, exponent |-> amount.exponent]
  BY DEF Amount, Digits
<1>3. PICK f \in Nat : amount.exponent = -f
  BY <1>2
<1> DEFINE point == n + amount.exponent
           text == plain(amount)
           whole == text.whole
           fraction == text.fraction
           all == whole \o fraction
<1>4. format_amount(amount) = text
  BY DEF format_amount
<1>5. /\ text.minus = amount.sign
      /\ whole = IF point =< 0 THEN <<0>> ELSE SubSeq(digits \o zeros(amount.exponent), 1, point)
      /\ fraction = IF amount.exponent >= 0 THEN << >>
                    ELSE zeros(-point) \o SubSeq(digits, Max({point, 0}) + 1, n)
  BY <1>1 DEF plain
<1>6. text \in AmountText
  BY <1>2, PlainText
<1> HIDE DEF digits, text
<1>7. whole \in Digits /\ fraction \in Digits
  BY <1>6 DEF AmountText
<1>8. zeros(amount.exponent) = << >>
  <2>1. zeros(amount.exponent) \in Seq(0..9) /\ Len(zeros(amount.exponent)) = 0
    BY <1>2, <1>3, Zeros
  <2> QED
    BY <2>1, EmptySeq
<1>9. digits \o zeros(amount.exponent) = digits
  BY <1>2, <1>8 DEF Digits
<1> DEFINE z == IF point =< 0 THEN 1 - point ELSE 0
<1>10. /\ z \in Nat /\ all \in Digits /\ Len(all) = z + n /\ Len(fraction) = f
       /\ \A i \in 1..z : all[i] = 0
       /\ \A i \in 1..n : all[z + i] = digits[i]
  <2>1. CASE n =< f
    <3>1. PICK p \in Nat : p = f - n
      BY <1>1, <1>3, <2>1
    <3>2. point = -p /\ point =< 0 /\ ~ (amount.exponent >= 0) /\ -point = p /\ z = p + 1
      BY <1>1, <1>3, <2>1, <3>1
    <3>3. Max({point, 0}) = 0
      <4>1. Max({point, 0}) = IF point >= 0 THEN point ELSE 0
        BY <3>2, GreaterOfTwo
      <4> QED
        BY <3>2, <4>1
    <3>4. SubSeq(digits, 0 + 1, n) = digits
      <4>1. SubSeq(digits, 1, n) = digits
        BY <1>1, <1>2, SubSeqFull DEF Digits
      <4> QED
        BY <4>1
    <3>5. whole = <<0>> /\ fraction = zeros(p) \o digits
      BY <1>5, <3>2, <3>3, <3>4
    <3>6. /\ zeros(p) \in Seq(0..9) /\ Len(zeros(p)) = p /\ \A i \in 1..p : zeros(p)[i] = 0
      <4>1. Len(zeros(p)) = IF p > 0 THEN p ELSE 0
        BY Zeros
      <4>2. zeros(p) \in Seq(0..9) /\ \A i \in 1..Len(zeros(p)) : zeros(p)[i] = 0
        BY Zeros
      <4>3. Len(zeros(p)) = p
        BY <4>1
      <4> QED
        BY <4>2, <4>3
    <3>7. /\ Len(fraction) = p + n
          /\ \A i \in 1..(p + n) : fraction[i] = IF i <= p THEN zeros(p)[i] ELSE digits[i - p]
      <4>1. zeros(p) \in Seq(0..9) /\ digits \in Seq(0..9)
        BY <1>2, <3>6 DEF Digits
      <4>2. /\ Len(zeros(p) \o digits) = Len(zeros(p)) + Len(digits)
            /\ \A i \in 1..(Len(zeros(p)) + Len(digits)) :
                  (zeros(p) \o digits)[i] = IF i <= Len(zeros(p)) THEN zeros(p)[i]
                                            ELSE digits[i - Len(zeros(p))]
        BY <4>1, ConcatProperties
      <4> HIDE DEF fraction
      <4> QED
        BY <1>1, <3>5, <3>6, <4>2
    <3>8. <<0>> \in Seq(0..9) /\ Len(<<0>>) = 1
      OBVIOUS
    <3>9. /\ all \in Seq(0..9) /\ Len(all) = 1 + (p + n)
          /\ \A i \in 1..(1 + (p + n)) : all[i] = IF i <= 1 THEN <<0>>[i] ELSE fraction[i - 1]
      <4>1. <<0>> \in Seq(0..9) /\ fraction \in Seq(0..9)
        BY <1>7, <3>8 DEF Digits
      <4>2. all = <<0>> \o fraction
        BY <3>5
      <4> HIDE DEF fraction, all
      <4>3. /\ <<0>> \o fraction \in Seq(0..9)
            /\ Len(<<0>> \o fraction) = Len(<<0>>) + Len(fraction)
            /\ \A i \in 1..(Len(<<0>>) + Len(fraction)) :
                  (<<0>> \o fraction)[i] = IF i <= Len(<<0>>) THEN <<0>>[i]
                                           ELSE fraction[i - Len(<<0>>)]
        BY <4>1, ConcatProperties
      <4> QED
        BY <3>7, <3>8, <4>2, <4>3
    <3> HIDE DEF z, whole, fraction, all, point
    <3>10. ASSUME NEW i \in 1..z PROVE all[i] = 0
      <4>1. CASE i = 1
        BY <1>1, <3>9, <4>1
      <4>2. CASE i # 1
        <5>1. i \in 1..(1 + (p + n)) /\ i - 1 \in 1..p /\ i - 1 \in 1..(p + n) /\ ~ (i <= 1)
          BY <1>1, <3>2, <4>2
        <5>2. all[i] = fraction[i - 1] /\ fraction[i - 1] = zeros(p)[i - 1]
          BY <3>7, <3>9, <5>1
        <5> QED
          BY <3>6, <5>1, <5>2
      <4> QED
        BY <4>1, <4>2
    <3>11. ASSUME NEW i \in 1..n PROVE all[z + i] = digits[i]
      <4>1. PICK j \in Nat : j = z + i
        BY <3>2
      <4>2. j \in 1..(1 + (p + n)) /\ j - 1 \in 1..(p + n) /\ ~ (j <= 1) /\ ~ (j - 1 <= p)
            /\ j - 1 - p = i
        BY <3>2, <4>1
      <4>3. all[j] = fraction[j - 1] /\ fraction[j - 1] = digits[j - 1 - p]
        BY <3>7, <3>9, <4>2
      <4> QED
        BY <4>1, <4>2, <4>3
    <3>12. z \in Nat /\ Len(all) = z + n /\ Len(fraction) = f /\ all \in Digits
      BY <1>1, <3>1, <3>2, <3>7, <3>9 DEF Digits
    <3> QED
      BY <3>10, <3>11, <3>12
  <2>2. CASE ~ (n =< f)
    <3>1. point \in 1..n /\ point = n - f /\ ~ (point =< 0) /\ z = 0
      BY <1>1, <1>3, <2>2
    <3>2. whole = SubSeq(digits, 1, point)
      BY <1>5, <1>9, <3>1
    <3>3. fraction = SubSeq(digits, point + 1, n)
      <4>1. CASE f = 0
        <5>1. fraction = << >>
          BY <1>3, <1>5, <4>1
        <5>2. SubSeq(digits, point + 1, n) = << >>
          BY <1>1, <3>1, <4>1, SubSeqEmpty
        <5> QED
          BY <5>1, <5>2
      <4>2. CASE f # 0
        <5>1. Max({point, 0}) = point
          <6>1. Max({point, 0}) = IF point >= 0 THEN point ELSE 0
            BY <3>1, GreaterOfTwo
          <6> QED
            BY <3>1, <6>1
        <5>2. zeros(-point) = << >>
          <6>1. -point \in Int /\ ~ (-point > 0)
            BY <3>1
          <6>2. zeros(-point) \in Seq(0..9) /\ Len(zeros(-point)) = 0
            BY <6>1, Zeros
          <6> QED
            BY <6>2, EmptySeq
        <5>3. SubSeq(digits, point + 1, n) \in Seq(0..9)
          <6>1. \A i \in (point + 1)..n : digits[i] \in 0..9
            BY <1>1, <3>1
          <6> QED
            BY <1>1, <3>1, <6>1, SubSeqProperties
        <5>4. ~ (amount.exponent >= 0)
          BY <1>3, <4>2
        <5>5. fraction = << >> \o SubSeq(digits, point + 1, n)
          BY <1>5, <5>1, <5>2, <5>4
        <5> QED
          BY <5>3, <5>5
      <4> QED
        BY <4>1, <4>2
    <3>4. all = digits
      <4>1. SubSeq(digits, 1, point) \o SubSeq(digits, point + 1, n) = SubSeq(digits, 1, n)
        <5>1. 1 \in 1..(n + 1) /\ point \in (1 - 1)..n /\ n \in point..n
          BY <1>1, <3>1
        <5> QED
          BY <1>1, <1>2, <5>1, ConcatAdjacentSubSeq DEF Digits
      <4>2. SubSeq(digits, 1, n) = digits
        BY <1>1, <1>2, SubSeqFull DEF Digits
      <4> QED
        BY <3>2, <3>3, <4>1, <4>2
    <3>5. Len(fraction) = f
      <4>1. \A i \in (point + 1)..n : digits[i] \in 0..9
        BY <1>1, <3>1
      <4>2. Len(SubSeq(digits, point + 1, n)) = IF point + 1 =< n THEN n - (point + 1) + 1 ELSE 0
        BY <1>1, <3>1, <4>1, SubSeqProperties
      <4> HIDE DEF fraction
      <4> QED
        BY <1>1, <3>1, <3>3, <4>2
    <3> HIDE DEF z, whole, fraction, all, point
    <3> QED
      BY <1>1, <1>2, <3>1, <3>4, <3>5
  <2> QED
    BY <2>1, <2>2
<1> HIDE DEF z, whole, fraction, all, point
<1>11. leading_zeros(all) = z /\ SubSeq(all, z + 1, Len(all)) = digits
  BY <1>1, <1>2, <1>10, ReadAfterZeros DEF digits
<1>12. read_amount(text) = [kind |-> "decimal", sign |-> text.minus,
                            digits |-> SubSeq(all, leading_zeros(all) + 1, Len(all)),
                            exponent |-> -Len(fraction)]
  BY DEF read_amount, leading_zeros, all, whole, fraction
<1> QED
  BY <1>2, <1>3, <1>4, <1>5, <1>10, <1>11, <1>12

-----------------------------------------------------------------------------
(***************************************************************************)
(* Documents: what validating makes of the values, and what it makes of    *)
(* what it made.                                                           *)
(***************************************************************************)
canonical_texts(texts) == [i \in DOMAIN texts |-> canonical_text(texts[i])]

LEMMA NormalCodePoints ==
    ASSUME NEW text \in Seq(CodePoint)
    PROVE  /\ canonical_text(text) \in Seq(CodePoint)
           /\ canonical_text(canonical_text(text)) = canonical_text(text)
  BY NormalIsNormal

LEMMA NormalCharacters ==
    ASSUME NEW text \in Seq(Character)
    PROVE  /\ canonical_text(text) \in Seq(Character)
           /\ canonical_text(canonical_text(text)) = canonical_text(text)
<1>1. CodePoint \subseteq Character
  BY DEF Character
<1> QED
  BY <1>1, NormalIsNormal

\* Normalising does not make a text empty.
LEMMA SomethingIsSaid ==
    ASSUME NEW text \in Seq(CodePoint), text # << >>
    PROVE  canonical_text(text) # << >>
<1>1. decomposed(canonical_text(text)) = decomposed(text) /\ canonical_text(text) \in Seq(CodePoint)
  BY NormalIsNormal
<1> QED
  BY <1>1, MadeOfSomething

LEMMA IdentifierStays ==
    ASSUME NEW text \in Seq(CodePoint), IsIdentifier(text), ~ grows(text, MaxText)
    PROVE  IsIdentifier(canonical_text(text))
<1> DEFINE canonical == canonical_text(text)
<1>1. canonical \in Seq(CodePoint) /\ canonical_text(canonical) = canonical
  BY NormalCodePoints
<1>2. Len(text) # 0 /\ {canonical[1], Last(canonical)} \cap Spaces = {}
  BY DEF IsIdentifier
<1>3. text # << >>
  BY <1>2, EmptySeq
<1>4. canonical # << >>
  BY <1>3, SomethingIsSaid
<1>5. ~ (Len(canonical) > MaxText)
  BY DEF grows
<1> HIDE DEF canonical
<1>6. Len(canonical) \in 1..MaxText
  <2>1. Len(canonical) \in Nat \ {0} /\ MaxText \in Nat
    BY <1>1, <1>4, EmptySeq, CanonicalAssumption
  <2> QED
    BY <1>5, <2>1
<1>7. IsIdentifier(canonical)
  BY <1>1, <1>2, <1>6 DEF IsIdentifier
<1> QED
  BY <1>7 DEF canonical

\* A text that is canonical and short enough for its field stays so.
LEMMA FreeTextStays ==
    ASSUME NEW text \in Seq(Character), ~ grows(canonical_text(text), MaxText)
    PROVE  IsFreeText(canonical_text(text))
<1>1. canonical_text(text) \in Seq(Character) /\ canonical_text(canonical_text(text)) = canonical_text(text)
  BY NormalCharacters
<1>2. Len(canonical_text(text)) \in Nat /\ MaxText \in Nat
  BY <1>1, CanonicalAssumption, LenProperties
<1> QED
  BY <1>1, <1>2 DEF grows, IsFreeText

LEMMA TargetStays ==
    ASSUME NEW text \in Seq(Character), IsTarget(text), ~ grows(canonical_text(text), MaxTarget)
    PROVE  IsTarget(canonical_text(text))
<1>1. canonical_text(text) \in Seq(Character) /\ canonical_text(canonical_text(text)) = canonical_text(text)
  BY NormalCharacters
<1>2. Len(canonical_text(text)) \in Nat /\ MaxTarget \in Nat
  BY <1>1, CanonicalAssumption, LenProperties
<1>3. Len(canonical_text(text)) =< MaxTarget
  BY <1>1, <1>2 DEF grows
<1> QED
  BY <1>1, <1>3 DEF IsTarget

LEMMA CanonicalTexts ==
    ASSUME NEW texts \in Seq(Seq(CodePoint))
    PROVE  /\ canonical_texts(texts) \in Seq(Seq(CodePoint))
           /\ DOMAIN canonical_texts(texts) = DOMAIN texts
           /\ \A i \in DOMAIN texts : canonical_texts(texts)[i] = canonical_text(texts[i])
<1>1. DOMAIN texts = 1..Len(texts) /\ Len(texts) \in Nat /\ \A i \in 1..Len(texts) : texts[i] \in Seq(CodePoint)
  OBVIOUS
<1> DEFINE f == [i \in 1..Len(texts) |-> canonical_text(texts[i])]
<1>2. canonical_texts(texts) = f
  BY <1>1 DEF canonical_texts
<1>3. f \in [1..Len(texts) -> Seq(CodePoint)]
  BY <1>1, NormalCodePoints
<1>4. DOMAIN f = DOMAIN texts /\ \A i \in DOMAIN texts : f[i] = canonical_text(texts[i])
  BY <1>1
<1> HIDE DEF f
<1>5. f \in Seq(Seq(CodePoint))
  <2>1. PICK n \in Nat : n = Len(texts)
    BY <1>1
  <2>2. f \in [1..n -> Seq(CodePoint)]
    BY <1>3, <2>1
  <2> QED
    BY <2>2, SeqDef
<1> QED
  BY <1>2, <1>4, <1>5

\* The scope of a document that was made: each entry is the canonical form of one given.
LEMMA ScopeMade ==
    ASSUME NEW texts \in Seq(Seq(CodePoint))
    PROVE  LET scope == canonical_scope(canonical_texts(texts))
           IN  /\ scope \in Seq(Seq(CodePoint))
               /\ texts # << >> => scope # << >>
               /\ \A i \in DOMAIN scope : \E j \in DOMAIN texts : scope[i] = canonical_text(texts[j])
               /\ canonical_scope(canonical_texts(scope)) = scope
<1> DEFINE given == canonical_texts(texts)
           scope == canonical_scope(given)
<1>1. /\ given \in Seq(Seq(CodePoint)) /\ DOMAIN given = DOMAIN texts
      /\ \A i \in DOMAIN texts : given[i] = canonical_text(texts[i])
  BY CanonicalTexts
<1>2. DOMAIN texts = 1..Len(texts) /\ Len(texts) \in Nat /\ \A i \in DOMAIN texts : texts[i] \in Seq(CodePoint)
  OBVIOUS
<1> HIDE DEF given
<1>3. scope \in Seq(Seq(CodePoint)) /\ ToSet(scope) = ToSet(given)
  BY <1>1, ScopeSorted
<1> HIDE DEF scope
<1>4. ASSUME NEW i \in DOMAIN scope PROVE \E j \in DOMAIN texts : scope[i] = canonical_text(texts[j])
  <2>1. scope[i] \in ToSet(given)
    BY <1>3 DEF ToSet
  <2> QED
    BY <1>1, <2>1 DEF ToSet
<1>5. texts # << >> => scope # << >>
  <2> SUFFICES ASSUME texts # << >>, scope = << >> PROVE FALSE
    OBVIOUS
  <2>1. Len(texts) \in Nat \ {0}
    BY EmptySeq
  <2>2. 1 \in DOMAIN given
    BY <1>1, <1>2, <2>1
  <2>3. given[1] \in ToSet(given)
    BY <2>2 DEF ToSet
  <2>4. ToSet(scope) = {}
    BY DEF ToSet
  <2> QED
    BY <1>3, <2>3, <2>4
<1>6. canonical_texts(scope) = scope
  <2>1. canonical_texts(scope) \in Seq(Seq(CodePoint)) /\ DOMAIN canonical_texts(scope) = DOMAIN scope
    BY <1>3, CanonicalTexts
  <2>2. ASSUME NEW i \in DOMAIN scope PROVE canonical_texts(scope)[i] = scope[i]
    <3>1. PICK j \in DOMAIN texts : scope[i] = canonical_text(texts[j])
      BY <1>4
    <3>2. canonical_text(scope[i]) = scope[i]
      BY <1>2, <3>1, NormalCodePoints
    <3> QED
      BY <1>3, <3>2, CanonicalTexts
  <2>3. Len(canonical_texts(scope)) = Len(scope) /\ DOMAIN scope = 1..Len(scope)
    BY <1>3, <2>1, LenProperties
  <2> QED
    BY <1>3, <2>1, <2>2, <2>3, SeqEqual
<1>7. canonical_scope(scope) = scope
  <2>1. canonical_scope(scope) = canonical_scope(given)
    BY <1>3 DEF canonical_scope
  <2> QED
    BY <2>1 DEF scope
<1> QED
  BY <1>3, <1>4, <1>5, <1>6, <1>7 DEF scope, given

\* The fields of values, for the provers.
LEMMA Fields ==
    ASSUME NEW values \in Values
    PROVE  /\ values.issued_at \in Moment /\ values.amount \in Amount
           /\ values.scope \in Seq(Seq(CodePoint))
           /\ values.reason \in Seq(Character) /\ values.target \in Seq(Character)
           /\ values = [issued_at |-> values.issued_at, amount |-> values.amount,
                        scope |-> values.scope, reason |-> values.reason,
                        target |-> values.target]
  BY DEF Values

LEMMA Made ==
    ASSUME NEW values
    PROVE  model_validate(values) =
              [issued_at |-> canonical_timestamp(values.issued_at),
               amount |-> canonical_amount(values.amount),
               scope |-> canonical_scope(canonical_texts(values.scope)),
               reason |-> canonical_text(values.reason),
               target |-> canonical_text(values.target)]
  BY DEF model_validate, canonical_texts

\* A time that is accepted is an instant the calendar has, and becomes one in UTC.
LEMMA TimeMade ==
    ASSUME NEW moment \in Moment, moment.offset # None
    PROVE  /\ instant(moment) \in Int
           /\ canonical_timestamp(moment)
                = [offset |-> 0, local |-> instant(moment) - (instant(moment) % Milli)]
           /\ canonical_timestamp(moment) \in Moment
           /\ instant(canonical_timestamp(moment)) = instant(moment) - (instant(moment) % Milli)
<1>1. instant(moment) \in Int
  BY DEF Moment, instant
<1>2. PICK t \in Int : t = instant(moment)
  BY <1>1
<1>3. t % Milli \in Int
  BY WholeMillis
<1>4. canonical_timestamp(moment) = [offset |-> 0, local |-> t - (t % Milli)]
  BY <1>2 DEF canonical_timestamp
<1>5. instant(canonical_timestamp(moment)) = t - (t % Milli)
  BY <1>3, <1>4 DEF instant
<1>6. canonical_timestamp(moment) \in Moment
  BY <1>3, <1>4 DEF Moment
<1> QED
  BY <1>2, <1>4, <1>5, <1>6

LEMMA MadeIsValues ==
    ASSUME NEW values \in Values, Accepts(values)
    PROVE  model_validate(values) \in Values
<1>1. canonical_timestamp(values.issued_at) \in Moment
  BY Fields, TimeMade DEF Accepts, IsDocument
<1>2. canonical_amount(values.amount) \in Amount
  BY Fields, CanonicalAmount
<1>3. canonical_scope(canonical_texts(values.scope)) \in Seq(Seq(CodePoint))
  BY Fields, ScopeMade
<1>4. canonical_text(values.reason) \in Seq(Character) /\ canonical_text(values.target) \in Seq(Character)
  BY Fields, NormalCharacters
<1> QED
  BY <1>1, <1>2, <1>3, <1>4, Made DEF Values

\* What was made is accepted and left alone, when it is short enough.
LEMMA FixedPoint ==
    ASSUME NEW values \in Values, Accepts(values), Sturdy(model_validate(values))
    PROVE  LET made == model_validate(values)
           IN  Accepts(made) /\ model_validate(made) = made
<1> DEFINE made == model_validate(values)
           t == instant(values.issued_at)
           scope == canonical_scope(canonical_texts(values.scope))
<1>1. /\ values.issued_at.offset # None /\ IsAmount(values.amount)
      /\ values.scope # << >> /\ \A i \in DOMAIN values.scope : IsIdentifier(values.scope[i])
      /\ IsTarget(values.target)
      /\ t \in 0..CalendarEnd
  BY DEF Accepts, IsDocument, Overflows
<1>2. /\ made.issued_at = canonical_timestamp(values.issued_at)
      /\ made.amount = canonical_amount(values.amount)
      /\ made.scope = scope
      /\ made.reason = canonical_text(values.reason)
      /\ made.target = canonical_text(values.target)
      /\ made = [issued_at |-> made.issued_at, amount |-> made.amount, scope |-> made.scope,
                 reason |-> made.reason, target |-> made.target]
  BY Made
<1>3. /\ \A i \in DOMAIN made.scope : ~ grows(made.scope[i], MaxText)
      /\ ~ grows(made.reason, MaxText) /\ ~ grows(made.target, MaxTarget)
  BY DEF Sturdy
<1> HIDE DEF made
<1>4. /\ t \in Int
      /\ made.issued_at = [offset |-> 0, local |-> t - (t % Milli)]
      /\ instant(made.issued_at) = t - (t % Milli)
  BY <1>1, <1>2, Fields, TimeMade
<1>5. ~ Overflows(made.issued_at) /\ made.issued_at.offset # None
  <2>1. t % Milli \in Nat /\ (t >= 0 => t - (t % Milli) >= 0)
    BY <1>4, WholeMillis, CanonicalAssumption
  <2>2. instant(made.issued_at) \in 0..CalendarEnd
    BY <1>1, <1>4, <2>1, CanonicalAssumption
  <2>3. None # 0
    BY CanonicalAssumption
  <2> QED
    BY <1>4, <2>2, <2>3 DEF Overflows
<1>6. canonical_timestamp(made.issued_at) = made.issued_at
  <2>1. (t - (t % Milli)) % Milli = 0 /\ t - (t % Milli) \in Int
    BY <1>4, WholeMillis
  <2>2. canonical_timestamp(made.issued_at)
            = [offset |-> 0, local |-> (t - (t % Milli)) - ((t - (t % Milli)) % Milli)]
    BY <1>4 DEF canonical_timestamp
  <2> QED
    BY <1>4, <2>1, <2>2
<1>7. IsAmount(made.amount) /\ canonical_amount(made.amount) = made.amount
  BY <1>1, <1>2, Fields, CanonicalAmount
<1>8. /\ scope # << >> /\ scope \in Seq(Seq(CodePoint))
      /\ \A i \in DOMAIN scope : \E j \in DOMAIN values.scope : scope[i] = canonical_text(values.scope[j])
      /\ canonical_scope(canonical_texts(scope)) = scope
  BY <1>1, Fields, ScopeMade
<1>9. ASSUME NEW i \in DOMAIN scope PROVE IsIdentifier(scope[i])
  <2>1. PICK j \in DOMAIN values.scope : scope[i] = canonical_text(values.scope[j])
    BY <1>8
  <2>2. values.scope[j] \in Seq(CodePoint) /\ IsIdentifier(values.scope[j])
    BY <1>1, Fields
  <2>3. canonical_text(scope[i]) = canonical_text(values.scope[j])
    BY <2>1, <2>2, NormalCodePoints
  <2>4. ~ grows(values.scope[j], MaxText)
    BY <1>2, <1>3, <2>3 DEF grows
  <2> QED
    BY <2>1, <2>2, <2>4, IdentifierStays
<1>10. IsFreeText(made.reason) /\ canonical_text(made.reason) = made.reason
  BY <1>2, <1>3, Fields, NormalCharacters, FreeTextStays
<1>11. IsTarget(made.target) /\ canonical_text(made.target) = made.target
  BY <1>1, <1>2, <1>3, Fields, NormalCharacters, TargetStays
<1> HIDE DEF t, scope
<1>12. Accepts(made)
  BY <1>2, <1>5, <1>7, <1>8, <1>9, <1>10, <1>11 DEF Accepts, IsDocument
<1>13. model_validate(made) = made
  BY <1>2, <1>6, <1>7, <1>8, <1>10, <1>11, Made
<1> QED
  BY <1>12, <1>13 DEF made

LEMMA SturdyKept ==
    ASSUME NEW values \in Values, Sturdy(values)
    PROVE  Sturdy(model_validate(values))
<1> DEFINE made == model_validate(values)
           scope == canonical_scope(canonical_texts(values.scope))
<1>1. /\ made.issued_at = canonical_timestamp(values.issued_at)
      /\ made.scope = scope
      /\ made.reason = canonical_text(values.reason)
      /\ made.target = canonical_text(values.target)
  BY Made
<1> HIDE DEF made, scope
<1>2. made.issued_at.offset = 0
  BY <1>1 DEF canonical_timestamp
<1>3. ASSUME NEW i \in DOMAIN scope PROVE ~ grows(scope[i], MaxText)
  <2>1. PICK j \in DOMAIN values.scope : scope[i] = canonical_text(values.scope[j])
    BY Fields, ScopeMade DEF scope
  <2>2. values.scope[j] \in Seq(CodePoint) /\ ~ grows(values.scope[j], MaxText)
    BY Fields DEF Sturdy
  <2>3. canonical_text(scope[i]) = canonical_text(values.scope[j])
    BY <2>1, <2>2, NormalCodePoints
  <2> QED
    BY <2>2, <2>3 DEF grows
<1>4. ~ grows(made.reason, MaxText) /\ ~ grows(made.target, MaxTarget)
  <2>1. /\ canonical_text(made.reason) = canonical_text(values.reason)
        /\ canonical_text(made.target) = canonical_text(values.target)
    BY <1>1, Fields, NormalCharacters
  <2>2. ~ grows(values.reason, MaxText) /\ ~ grows(values.target, MaxTarget)
    BY DEF Sturdy
  <2> QED
    BY <2>1, <2>2 DEF grows
<1> QED
  BY <1>1, <1>2, <1>3, <1>4 DEF Sturdy, made

-----------------------------------------------------------------------------
(***************************************************************************)
(* A signed document, written and read.                                    *)
(***************************************************************************)
read_back(values) == from_json(model_dump(values))

LEMMA AmountRead ==
    ASSUME NEW amount \in Amount
    PROVE  LET read == read_amount(format_amount(amount))
           IN  read \in Amount /\ read.kind = "decimal" /\ read.exponent =< 0 /\ Reduced(read.digits)
<1>1. format_amount(amount) \in AmountText
  BY FormatText
<1> QED
  BY <1>1, ReadText

LEMMA Redumped ==
    ASSUME NEW values \in Values
    PROVE  /\ redumped(values) \in Values
           /\ redumped(values) = [issued_at |-> values.issued_at,
                                  amount |-> read_amount(format_amount(values.amount)),
                                  scope |-> values.scope, reason |-> values.reason,
                                  target |-> values.target]
<1> DEFINE read == read_amount(format_amount(values.amount))
<1>1. read \in Amount
  BY Fields, AmountRead
<1>2. redumped(values) = [values EXCEPT !.amount = read]
  BY DEF redumped
<1> HIDE DEF read
<1>3. redumped(values) = [issued_at |-> values.issued_at, amount |-> read, scope |-> values.scope,
                          reason |-> values.reason, target |-> values.target]
  BY <1>2, Fields
<1> QED
  BY <1>1, <1>3, Fields DEF Values, read

LEMMA ReadBackForm ==
    ASSUME NEW values \in Values
    PROVE  read_back(values) =
              [issued_at |-> [offset |-> 0, local |-> (values.issued_at.local \div Milli) * Milli],
               amount |-> read_amount(format_amount(values.amount)),
               scope |-> values.scope, reason |-> values.reason, target |-> values.target]
<1> DEFINE time == format_timestamp(values.issued_at)
           text == format_amount(values.amount)
<1>1. model_dump(values) = [issued_at |-> time, amount |-> text, scope |-> values.scope,
                            reason |-> values.reason, target |-> values.target]
  <2>1. model_dump(values) = [values EXCEPT !.issued_at = time, !.amount = text]
    BY DEF model_dump
  <2> HIDE DEF time, text
  <2> QED
    BY <2>1, Fields
<1>2. time = values.issued_at.local \div Milli
  BY DEF format_timestamp
<1> HIDE DEF time, text
<1>3. read_back(values) = [issued_at |-> [offset |-> 0, local |-> time * Milli],
                           amount |-> read_amount(text), scope |-> values.scope,
                           reason |-> values.reason, target |-> values.target]
  <2> DEFINE form == model_dump(values)
  <2>1. form.issued_at = time /\ form.amount = text
    BY <1>1
  <2>2. read_back(values) = [form EXCEPT !.issued_at = [offset |-> 0, local |-> form.issued_at * Milli],
                                         !.amount = read_amount(form.amount)]
    BY DEF read_back, from_json
  <2>3. form = [issued_at |-> time, amount |-> text, scope |-> values.scope,
                reason |-> values.reason, target |-> values.target]
    BY <1>1
  <2> HIDE DEF form
  <2>4. PICK moment, amount : /\ moment = [offset |-> 0, local |-> time * Milli]
                              /\ amount = read_amount(text)
    OBVIOUS
  <2>5. read_back(values) = [form EXCEPT !.issued_at = moment, !.amount = amount]
    BY <2>1, <2>2, <2>4
  <2>6. read_back(values) = [issued_at |-> moment, amount |-> amount, scope |-> values.scope,
                             reason |-> values.reason, target |-> values.target]
    BY <2>3, <2>5
  <2> QED
    BY <2>4, <2>6
<1> QED
  BY <1>2, <1>3 DEF text

\* Reading what was written does not refuse what was signed.
LEMMA ReadIsDocument ==
    ASSUME NEW values \in Values, IsDocument(redumped(values))
    PROVE  IsDocument(read_back(values))
<1>1. read_back(values).issued_at.offset # None
  <2>1. None # 0
    BY CanonicalAssumption
  <2> QED
    BY <2>1, ReadBackForm
<1>2. /\ read_back(values).amount = redumped(values).amount
      /\ read_back(values).scope = redumped(values).scope
      /\ read_back(values).reason = redumped(values).reason
      /\ read_back(values).target = redumped(values).target
  BY ReadBackForm, Redumped
<1> QED
  BY <1>1, <1>2 DEF IsDocument

\* A sturdy document that is read back is accepted, as what was signed.
LEMMA ReadAsSigned ==
    ASSUME NEW values \in Values, Accepts(redumped(values)), Sturdy(values)
    PROVE  LET read == read_back(values)
           IN  /\ read \in Values /\ Accepts(read) /\ Sturdy(read)
               /\ model_validate(read) = model_validate(redumped(values))
<1> DEFINE read == read_back(values)
           dumped == redumped(values)
           l == values.issued_at.local
           amount == read_amount(format_amount(values.amount))
<1>1. /\ read = [issued_at |-> [offset |-> 0, local |-> (l \div Milli) * Milli], amount |-> amount,
                 scope |-> values.scope, reason |-> values.reason, target |-> values.target]
      /\ dumped = [issued_at |-> values.issued_at, amount |-> amount,
                   scope |-> values.scope, reason |-> values.reason, target |-> values.target]
      /\ dumped \in Values
  BY ReadBackForm, Redumped
<1>2. amount \in Amount
  BY Fields, AmountRead
<1>3. values.issued_at.offset = 0 /\ l \in Int
  BY Fields DEF Sturdy, Moment
<1>4. instant(values.issued_at) = l
  BY <1>3 DEF instant
<1>5. l \in 0..CalendarEnd
  <2>1. ~ Overflows(values.issued_at) /\ None # 0
    BY <1>1, CanonicalAssumption DEF Accepts
  <2> QED
    BY <1>3, <1>4, <2>1 DEF Overflows
<1>6. IsDocument(read)
  BY ReadIsDocument DEF Accepts
<1> HIDE DEF read, dumped, l, amount
<1>7. PICK r \in Int : /\ r = (l \div Milli) * Milli /\ r = l - (l % Milli)
                       /\ r % Milli = 0 /\ r \in 0..CalendarEnd
  <2>1. /\ (l \div Milli) * Milli = l - (l % Milli)
        /\ (l - (l % Milli)) % Milli = 0
        /\ l - (l % Milli) >= 0 /\ l % Milli \in Nat
    BY <1>3, <1>5, WholeMillis, CanonicalAssumption
  <2> QED
    BY <1>3, <1>5, <2>1, CanonicalAssumption
<1>8. read.issued_at = [offset |-> 0, local |-> r]
  BY <1>1, <1>7
<1>9. instant(read.issued_at) = r
  BY <1>8 DEF instant
<1>10. read \in Values
  <2>1. read.issued_at \in Moment
    BY <1>8 DEF Moment
  <2> QED
    BY <1>1, <1>2, <2>1, Fields DEF Values
<1>11. Accepts(read)
  BY <1>6, <1>7, <1>9 DEF Accepts, Overflows
<1>12. Sturdy(read)
  BY <1>1, <1>8 DEF Sturdy
<1>13. canonical_timestamp(read.issued_at) = canonical_timestamp(values.issued_at)
  <2>1. canonical_timestamp(read.issued_at) = [offset |-> 0, local |-> r - (r % Milli)]
    BY <1>9 DEF canonical_timestamp
  <2>2. canonical_timestamp(values.issued_at) = [offset |-> 0, local |-> l - (l % Milli)]
    BY <1>4 DEF canonical_timestamp
  <2>3. r - (r % Milli) = r
    BY <1>7
  <2> QED
    BY <1>7, <2>1, <2>2, <2>3
<1>14. model_validate(read) = model_validate(dumped)
  BY <1>1, <1>13, Made
<1> QED
  BY <1>10, <1>11, <1>12, <1>14 DEF read, dumped

\* The bytes computed after reading are those that were signed.
LEMMA SturdySurvives ==
    ASSUME NEW values \in Values, Accepts(redumped(values)), Sturdy(values)
    PROVE  LET document_read == model_validate(read_back(values))
           IN  /\ Accepts(redumped(document_read))
               /\ canonical_json_value(document_read) = canonical_json_value(values)
<1> DEFINE read == read_back(values)
           made == model_validate(read)
<1>1. read \in Values /\ Accepts(read) /\ Sturdy(read) /\ made = model_validate(redumped(values))
  BY ReadAsSigned
<1>2. read.amount = read_amount(format_amount(values.amount))
  BY ReadBackForm
<1>3. read.amount \in Amount /\ read.amount.kind = "decimal" /\ read.amount.exponent =< 0
      /\ Reduced(read.amount.digits)
  BY <1>2, Fields, AmountRead
<1> HIDE DEF read
<1>4. made \in Values /\ Sturdy(made) /\ made.amount = canonical_amount(read.amount)
  BY <1>1, MadeIsValues, SturdyKept, Made
<1>5. Accepts(made) /\ model_validate(made) = made
  BY <1>1, <1>4, FixedPoint
<1> HIDE DEF made
<1>6. made.amount \in Amount /\ made.amount.kind = "decimal" /\ made.amount.exponent =< 0
      /\ Reduced(made.amount.digits)
  BY <1>3, <1>4, CanonicalAmount
<1>7. read_amount(format_amount(made.amount)) = made.amount
  BY <1>6, ReadsBack
<1>8. redumped(made) = made
  <2>1. redumped(made) = [issued_at |-> made.issued_at, amount |-> made.amount, scope |-> made.scope,
                          reason |-> made.reason, target |-> made.target]
    BY <1>4, <1>7, Redumped
  <2> QED
    BY <1>4, <2>1, Fields
<1>9. canonical_json_value(made) = model_dump(made)
  BY <1>5, <1>8 DEF canonical_json_value
<1>10. canonical_json_value(values) = model_dump(made)
  BY <1>1 DEF canonical_json_value
<1> QED
  BY <1>5, <1>8, <1>9, <1>10 DEF made, read

-----------------------------------------------------------------------------
(***************************************************************************)
(* The steps.                                                              *)
(***************************************************************************)
\* What a signature is over.
Signed(values) ==
    /\ values \in Values
    /\ Accepts(redumped(values))
    /\ envelope = [payload |-> values, covered |-> canonical_json_value(values)]

\* Where a document comes from, at each stage.
IInv ==
    /\ stage \in {"given", "held", "copied"} => document \in Values
    /\ stage = "held" =>
          \E values \in Values : Accepts(values) /\ document = model_validate(values)
    /\ stage = "signed" => Signed(document)
    /\ stage = "read" =>
          Signed(envelope.payload) /\ document = model_validate(read_back(envelope.payload))
    /\ stage \in {"lost", "broken"} => ~ Sturdy(envelope.payload)

\* Where a document comes from is where the code has it from, whatever else is converted.
LEMMA Provenance == Spec => []IInv
<1>1. Init => IInv
  <2>1. DocumentInit => IInv
    BY CanonicalAssumption DEF DocumentInit, IInv
  <2>2. NoDocument => IInv
    BY CanonicalAssumption DEF NoDocument, IInv
  <2> QED
    BY <2>1, <2>2 DEF Init
<1>2. [Next]_vars => [DocumentNext]_document_vars
  BY DEF Next, vars
<1>3. IInv /\ [DocumentNext]_document_vars => IInv'
  <2> SUFFICES ASSUME IInv, [DocumentNext]_document_vars PROVE IInv'
    OBVIOUS
  <2>1. CASE Construct
    <3>1. document \in Values
      BY <2>1 DEF Construct, IInv
    <3>2. CASE stage' = "held"
      <4>1. Accepts(document) /\ document' = model_validate(document)
        BY <2>1, <3>2 DEF Construct, Escapes, RefusedAs
      <4>2. document' \in Values
        BY <3>1, <4>1, MadeIsValues
      <4> QED
        BY <3>1, <3>2, <4>1, <4>2 DEF IInv
    <3>3. CASE stage' # "held"
      BY <2>1, <3>3 DEF Construct, Escapes, RefusedAs, IInv
    <3> QED
      BY <3>2, <3>3
  <2>2. CASE Copy
    <3>1. document \in Values /\ stage' = "copied"
      BY <2>2 DEF Copy, IInv
    <3>2. PICK field \in DOMAIN document, other \in Inputs :
              document' = [document EXCEPT ![field] = other[field]]
      BY <2>2 DEF Copy
    <3>3. other \in Values
      BY CanonicalAssumption
    <3>4. document' \in Values
      BY <3>1, <3>2, <3>3 DEF Values
    <3> QED
      BY <3>1, <3>4 DEF IInv
  <2>3. CASE Sign
    <3>1. document \in Values
      BY <2>3 DEF Sign, IInv
    <3>2. CASE stage' = "signed"
      <4>1. /\ Accepts(redumped(document)) /\ document' = document
            /\ envelope' = [payload |-> document, covered |-> canonical_json_value(document)]
        BY <2>3, <3>2 DEF Sign, Escapes, RefusedAs
      <4>2. Signed(document)'
        BY <3>1, <4>1 DEF Signed
      <4> QED
        BY <3>2, <4>2 DEF IInv
    <3>3. CASE stage' # "signed"
      BY <2>3, <3>3 DEF Sign, Escapes, RefusedAs, IInv
    <3> QED
      BY <3>2, <3>3
  <2>4. CASE ReadBack
    <3>1. Signed(document) /\ stage = "signed"
      BY <2>4 DEF ReadBack, IInv
    <3>2. envelope.payload = document /\ document \in Values /\ Accepts(redumped(document))
      BY <3>1 DEF Signed
    <3>3. IsDocument(read_back(document))
      BY <3>2, ReadIsDocument DEF Accepts
    <3>4. /\ document' = model_validate(read_back(document))
          /\ stage' = "read" /\ envelope' = envelope
      BY <2>4, <3>2, <3>3 DEF ReadBack, RefusedAs, read_back
    <3>5. Signed(envelope.payload)'
      BY <3>1, <3>2, <3>4 DEF Signed
    <3>6. document' = model_validate(read_back(envelope'.payload))
      BY <3>2, <3>4
    <3> QED
      BY <3>4, <3>5, <3>6 DEF IInv
  <2>5. CASE Check
    <3> DEFINE payload == envelope.payload
    <3>1. /\ Signed(payload) /\ stage = "read"
          /\ document = model_validate(read_back(payload))
      BY <2>5 DEF Check, IInv
    <3>2. /\ payload \in Values /\ Accepts(redumped(payload))
          /\ envelope.covered = canonical_json_value(payload)
      BY <3>1 DEF Signed
    <3>3. envelope' = envelope /\ stage' \in {"lost", "verified", "broken"}
      BY <2>5 DEF Check, RefusedAs
    <3>4. ASSUME Sturdy(payload) PROVE stage' = "verified"
      <4>1. /\ Accepts(redumped(document))
            /\ canonical_json_value(document) = envelope.covered
        BY <3>1, <3>2, <3>4, SturdySurvives
      <4> QED
        BY <2>5, <4>1 DEF Check, RefusedAs, Accepts
    <3> QED
      BY <3>3, <3>4 DEF IInv
  <2>6. CASE UNCHANGED document_vars
    BY <2>6 DEF document_vars, IInv, Signed
  <2> QED
    BY <2>1, <2>2, <2>3, <2>4, <2>5, <2>6 DEF DocumentNext
<1> QED
  BY <1>1, <1>2, <1>3, PTL DEF Spec

\* Whatever order a caller lists a scope in, and however often, the order that is signed is the
\* one of UTF-16 code units, each entry once.
THEOREM ScopesInOrder == Spec => []ScopeInUtf16Order
<1>1. IInv => ScopeInUtf16Order
  <2> SUFFICES ASSUME IInv, stage = "signed",
                      NEW i \in DOMAIN envelope.covered.scope, NEW j \in DOMAIN envelope.covered.scope,
                      i < j
               PROVE  Before(ranks(envelope.covered.scope[i]), ranks(envelope.covered.scope[j]))
    BY DEF ScopeInUtf16Order
  <2>1. document \in Values /\ envelope.covered = canonical_json_value(document)
    BY DEF IInv, Signed
  <2> DEFINE texts == canonical_texts(document.scope)
             scope == canonical_scope(texts)
             made == model_validate(redumped(document))
  <2>2. envelope.covered.scope = scope
    <3>1. made = [issued_at |-> canonical_timestamp(document.issued_at),
                  amount |-> canonical_amount(redumped(document).amount),
                  scope |-> scope,
                  reason |-> canonical_text(document.reason),
                  target |-> canonical_text(document.target)]
      BY <2>1, Redumped, Made
    <3>2. model_dump(made).scope = made.scope
      BY <3>1 DEF model_dump
    <3> QED
      BY <2>1, <3>1, <3>2 DEF canonical_json_value
  <2>3. texts \in Seq(Seq(CodePoint))
    BY <2>1, Fields, CanonicalTexts
  <2> HIDE DEF texts
  <2>4. scope \in Seq(Seq(CodePoint)) /\ InOrder(scope)
    BY <2>3, ScopeSorted
  <2> HIDE DEF scope
  <2>5. scope[i] \in Seq(CodePoint) /\ scope[j] \in Seq(CodePoint) /\ Less(scope[i], scope[j])
    BY <2>2, <2>4 DEF InOrder
  <2> QED
    BY <2>2, <2>5, UnitsOrder DEF Less
<1> QED
  BY <1>1, Provenance, PTL

\* A document that was made is accepted and left alone when it is validated again, whatever it
\* was made of, save texts that normalising lengthens past their limit.
THEOREM CanonicalFormStays == Spec => []CanonicalFormIsAFixedPoint
<1>1. IInv => CanonicalFormIsAFixedPoint
  BY FixedPoint DEF IInv, CanonicalFormIsAFixedPoint
<1> QED
  BY <1>1, Provenance, PTL

\* What is signed verifies after it was written and read, also when a copy skipped the
\* validators and holds a float: for a time in UTC and texts within their limits however
\* they are normalised.
THEOREM SignaturesSurvive == Spec => []SturdySignaturesSurvive
<1>1. IInv => SturdySignaturesSurvive
  BY DEF IInv, SturdySignaturesSurvive
<1> QED
  BY <1>1, Provenance, PTL

\* permits() says yes to a time up to the expiry.
LEMMA AskedUntilExpiry ==
    ASSUME NEW ticks \in Int, instant(document.issued_at) \in Int
    PROVE  Asked(ticks) <=> ticks =< instant(document.issued_at)
  BY DEF Asked, Grants!permits, Grants!value_violations, Grants!When

\* Asking at any tick and recording in whole milliseconds agree, save in the last millisecond:
\* a yes is never recorded outside the grant, and a no that is recorded inside was less than
\* a millisecond late.
THEOREM LittleIsLost == Spec => []OnlyTheLastMillisecondIsLost
<1>1. IInv => OnlyTheLastMillisecondIsLost
  <2> SUFFICES ASSUME IInv, stage = "held", NEW other \in Inputs, Accepts(other)
               PROVE  LET now == instant(other.issued_at)
                          recorded == instant(canonical_timestamp(other.issued_at))
                      IN  /\ Asked(now) => Asked(recorded)
                          /\ Asked(recorded) /\ ~ Asked(now) =>
                                now - instant(document.issued_at) < Milli
    BY DEF OnlyTheLastMillisecondIsLost
  <2> DEFINE now == instant(other.issued_at)
             recorded == instant(canonical_timestamp(other.issued_at))
             expiry == instant(document.issued_at)
  <2>1. now \in Int /\ recorded = now - (now % Milli)
    BY CanonicalAssumption, Fields, TimeMade DEF Accepts, IsDocument
  <2>2. expiry \in Int
    <3>1. PICK values \in Values : Accepts(values) /\ document = model_validate(values)
      BY DEF IInv
    <3>2. document.issued_at = canonical_timestamp(values.issued_at)
      BY <3>1, Made
    <3>3. values.issued_at \in Moment /\ values.issued_at.offset # None
      BY <3>1, Fields DEF Accepts, IsDocument
    <3>4. PICK t \in Int : expiry = t - (t % Milli)
      BY <3>2, <3>3, TimeMade
    <3>5. t % Milli \in Int
      BY WholeMillis
    <3> QED
      BY <3>4, <3>5
  <2>3. now % Milli \in 0..(Milli - 1)
    BY <2>1, WholeMillis
  <2> HIDE DEF now, recorded, expiry
  <2>4. recorded \in Int /\ recorded =< now /\ now - recorded < Milli
    BY <2>1, <2>3, CanonicalAssumption
  <2>5. (Asked(now) <=> now =< expiry) /\ (Asked(recorded) <=> recorded =< expiry)
    BY <2>1, <2>2, <2>4, AskedUntilExpiry DEF expiry
  <2>6. Asked(now) => Asked(recorded)
    BY <2>1, <2>2, <2>4, <2>5
  <2>7. Asked(recorded) /\ ~ Asked(now) => now - expiry < Milli
    BY <2>1, <2>2, <2>4, <2>5, CanonicalAssumption
  <2> QED
    BY <2>6, <2>7 DEF now, recorded, expiry
<1> QED
  BY <1>1, Provenance, PTL

\* One sequence after another, and a part of one, item by item.
LEMMA OneAfterAnother ==
    ASSUME NEW C, NEW s \in Seq(C), NEW t \in Seq(C)
    PROVE  /\ s \o t \in Seq(C) /\ Len(s \o t) = Len(s) + Len(t)
           /\ \A i \in 1..Len(s) : (s \o t)[i] = s[i]
           /\ \A i \in 1..Len(t) : (s \o t)[Len(s) + i] = t[i]
  OBVIOUS

LEMMA PartOf ==
    ASSUME NEW C, NEW s \in Seq(C), NEW n \in Nat, Len(s) = n,
           NEW k \in 0..n, NEW m \in k..n
    PROVE  /\ SubSeq(s, k + 1, m) \in Seq(C) /\ Len(SubSeq(s, k + 1, m)) = m - k
           /\ \A i \in 1..(m - k) : SubSeq(s, k + 1, m)[i] = s[k + i]
<1>1. \A i \in (k + 1)..m : s[i] \in C
  OBVIOUS
<1>2. /\ SubSeq(s, k + 1, m) \in Seq(C)
      /\ Len(SubSeq(s, k + 1, m)) = IF k + 1 =< m THEN m - (k + 1) + 1 ELSE 0
      /\ \A i \in 1..(m - (k + 1) + 1) : SubSeq(s, k + 1, m)[i] = s[k + 1 + i - 1]
  BY <1>1, SubSeqProperties
<1> QED
  BY <1>2

\* The same of digits.
LEMMA DigitsAfterDigits ==
    ASSUME NEW s \in Digits, NEW t \in Digits
    PROVE  \E all \in Digits :
              /\ all = s \o t /\ Len(all) = Len(s) + Len(t)
              /\ \A i \in 1..Len(s) : all[i] = s[i]
              /\ \A i \in 1..Len(t) : all[Len(s) + i] = t[i]
<1>1. /\ s \o t \in Digits /\ Len(s \o t) = Len(s) + Len(t)
      /\ \A i \in 1..Len(s) : (s \o t)[i] = s[i]
      /\ \A i \in 1..Len(t) : (s \o t)[Len(s) + i] = t[i]
  BY OneAfterAnother DEF Digits
<1> QED
  BY <1>1

LEMMA PartOfDigits ==
    ASSUME NEW s \in Digits, NEW n \in Nat, Len(s) = n, NEW k \in 0..n, NEW m \in k..n
    PROVE  /\ SubSeq(s, k + 1, m) \in Digits /\ Len(SubSeq(s, k + 1, m)) = m - k
           /\ \A i \in 1..(m - k) : SubSeq(s, k + 1, m)[i] = s[k + i]
  BY PartOf DEF Digits

LEMMA WholeDigits ==
    ASSUME NEW s \in Digits
    PROVE  /\ SubSeq(s, 1, Len(s)) = s /\ s \o << >> = s /\ << >> \o s = s
           /\ Len(s) \in Nat /\ DOMAIN s = 1..Len(s) /\ << >> \in Digits
           /\ Len(s) = 0 => s = << >>
  BY EmptySeq DEF Digits

LEMMA ZerosOf ==
    ASSUME NEW t \in Nat
    PROVE  zeros(t) \in Digits /\ Len(zeros(t)) = t /\ \A i \in 1..t : zeros(t)[i] = 0
BY Zeros DEF Digits

LEMMA NoZeros ==
    ASSUME NEW t \in Int, t =< 0
    PROVE  zeros(t) = << >>
<1>1. zeros(t) \in Digits /\ Len(zeros(t)) = 0
  BY Zeros DEF Digits
<1> QED
  BY <1>1, WholeDigits

-----------------------------------------------------------------------------
(***************************************************************************)
(* One meaning, one form.  Amounts: a digit that counts stays in its place *)
(* through printing, reading and stripping, and an amount in canonical     *)
(* form is known by them.                                                  *)
(***************************************************************************)

\* A digit that counts, where it is and under which sign.
Counts(amount, i) ==
    <<amount.sign, Len(amount.digits) - i + amount.exponent, amount.digits[i]>>

\* The same digits between z zeros and t zeros.
Padded(longer, digits, z, t) ==
    /\ longer \in Digits /\ Len(longer) = z + Len(digits) + t
    /\ \A i \in 1..z : longer[i] = 0
    /\ \A i \in 1..Len(digits) : longer[z + i] = digits[i]
    /\ \A i \in 1..Len(longer) : i > z + Len(digits) => longer[i] = 0

LEMMA PaddedPlaces ==
    ASSUME NEW amount, NEW padded, NEW z \in Nat, NEW t \in Nat,
           amount.digits \in Digits, Padded(padded.digits, amount.digits, z, t),
           amount.exponent \in Int, padded.exponent = amount.exponent - t,
           padded.sign = amount.sign
    PROVE  places(padded) = places(amount)
<1> DEFINE a == amount.digits
           p == padded.digits
           n == Len(a)
           m == Len(p)
<1>1. /\ n \in Nat /\ m \in Nat /\ m = z + n + t /\ DOMAIN a = 1..n /\ DOMAIN p = 1..m
      /\ \A i \in 1..z : p[i] = 0
      /\ \A i \in 1..n : p[z + i] = a[i]
      /\ \A i \in 1..m : i > z + n => p[i] = 0
  BY WholeDigits DEF Padded
<1>2. /\ places(amount) = {Counts(amount, i) : i \in {k \in 1..n : a[k] # 0}}
      /\ places(padded) = {Counts(padded, i) : i \in {k \in 1..m : p[k] # 0}}
  BY <1>1 DEF places, Counts
<1>3. ASSUME NEW i \in 1..n PROVE z + i \in 1..m /\ Counts(padded, z + i) = Counts(amount, i)
  <2>1. m - (z + i) + padded.exponent = n - i + amount.exponent
    BY <1>1
  <2> QED
    BY <1>1, <2>1 DEF Counts
<1>4. ASSUME NEW k \in 1..m, p[k] # 0 PROVE \E i \in 1..n : k = z + i
  <2>1. k > z /\ ~ (k > z + n)
    BY <1>1, <1>4
  <2>2. k - z \in 1..n /\ k = z + (k - z)
    BY <1>1, <2>1
  <2> QED
    BY <2>2
<1>5. \A i \in 1..n : p[z + i] = a[i]
  BY <1>1
<1> HIDE DEF a, p, n, m
<1>6. places(amount) \subseteq places(padded)
  BY <1>2, <1>3, <1>5
<1>7. ASSUME NEW k \in 1..m, p[k] # 0 PROVE Counts(padded, k) \in places(amount)
  <2>1. PICK i \in 1..n : k = z + i
    BY <1>4, <1>7
  <2>2. a[i] # 0 /\ Counts(padded, k) = Counts(amount, i)
    BY <1>3, <1>5, <1>7, <2>1
  <2> QED
    BY <1>2, <2>2
<1> QED
  BY <1>2, <1>6, <1>7

\* Zeros after digits, zeros before them, and digits that are only parted.
LEMMA ZerosAfter ==
    ASSUME NEW digits \in Digits, NEW t \in Nat
    PROVE  Padded(digits \o zeros(t), digits, 0, t) /\ Len(digits \o zeros(t)) = Len(digits) + t
<1>1. PICK n \in Nat : n = Len(digits)
  BY WholeDigits
<1>0. PICK after : after = zeros(t)
  OBVIOUS
<1>2. after \in Digits /\ Len(after) = t /\ \A i \in 1..t : after[i] = 0
  BY <1>0, ZerosOf
<1>3. PICK longer \in Digits :
          /\ longer = digits \o after /\ Len(longer) = Len(digits) + Len(after)
          /\ \A i \in 1..Len(digits) : longer[i] = digits[i]
          /\ \A i \in 1..Len(after) : longer[Len(digits) + i] = after[i]
  BY <1>2, DigitsAfterDigits
<1>4. /\ longer \in Digits /\ Len(longer) = n + t
      /\ \A i \in 1..n : longer[i] = digits[i]
      /\ \A i \in 1..t : longer[n + i] = after[i]
  BY <1>1, <1>2, <1>3
<1>5. ASSUME NEW i \in 1..(n + t), i > n PROVE longer[i] = 0
  <2>1. i - n \in 1..t /\ i = n + (i - n)
    BY <1>5
  <2> QED
    BY <1>2, <1>4, <2>1
<1> QED
  BY <1>0, <1>1, <1>3, <1>4, <1>5 DEF Padded

LEMMA ZerosBefore ==
    ASSUME NEW digits \in Digits, NEW z \in Nat
    PROVE  /\ Padded(<<0>> \o (zeros(z) \o digits), digits, z + 1, 0)
           /\ zeros(z) \o digits \in Digits /\ Len(zeros(z) \o digits) = z + Len(digits)
<1>1. PICK n \in Nat : n = Len(digits)
  BY WholeDigits
<1>0. PICK before : before = zeros(z)
  OBVIOUS
<1>2. before \in Digits /\ Len(before) = z /\ \A i \in 1..z : before[i] = 0
  BY <1>0, ZerosOf
<1>3. PICK fraction \in Digits :
          /\ fraction = before \o digits /\ Len(fraction) = Len(before) + Len(digits)
          /\ \A i \in 1..Len(before) : fraction[i] = before[i]
          /\ \A i \in 1..Len(digits) : fraction[Len(before) + i] = digits[i]
  BY <1>2, DigitsAfterDigits
<1>4. /\ fraction \in Digits /\ Len(fraction) = z + n
      /\ \A i \in 1..z : fraction[i] = before[i]
      /\ \A i \in 1..n : fraction[z + i] = digits[i]
  BY <1>1, <1>2, <1>3
<1>50. PICK whole : whole = <<0>>
  OBVIOUS
<1>5. whole \in Digits /\ Len(whole) = 1 /\ whole[1] = 0
  BY <1>50 DEF Digits
<1>6. PICK all \in Digits :
          /\ all = whole \o fraction /\ Len(all) = Len(whole) + Len(fraction)
          /\ \A i \in 1..Len(whole) : all[i] = whole[i]
          /\ \A i \in 1..Len(fraction) : all[Len(whole) + i] = fraction[i]
  BY <1>4, <1>5, DigitsAfterDigits
<1>7. /\ all \in Digits /\ Len(all) = 1 + (z + n)
      /\ \A i \in 1..1 : all[i] = whole[i]
      /\ \A i \in 1..(z + n) : all[1 + i] = fraction[i]
  BY <1>4, <1>5, <1>6
<1>8. ASSUME NEW i \in 1..(z + 1) PROVE all[i] = 0
  <2>1. CASE i = 1
    BY <1>5, <1>7, <2>1
  <2>2. CASE i # 1
    <3>1. i - 1 \in 1..z /\ i - 1 \in 1..(z + n) /\ i = 1 + (i - 1)
      BY <2>2
    <3> QED
      BY <1>2, <1>4, <1>7, <3>1
  <2> QED
    BY <2>1, <2>2
<1>9. ASSUME NEW i \in 1..n PROVE all[(z + 1) + i] = digits[i]
  <2>1. z + i \in 1..(z + n) /\ 1 + (z + i) = (z + 1) + i
    OBVIOUS
  <2> QED
    BY <1>4, <1>7, <2>1
<1>10. Len(all) = (z + 1) + n + 0
  BY <1>7
<1>11. Padded(all, digits, z + 1, 0)
  BY <1>1, <1>7, <1>8, <1>9, <1>10 DEF Padded
<1> QED
  BY <1>0, <1>1, <1>3, <1>4, <1>50, <1>6, <1>11

LEMMA Parted ==
    ASSUME NEW digits \in Digits, NEW n \in Nat, Len(digits) = n, NEW m \in 0..n
    PROVE  /\ Padded(SubSeq(digits, 1, m) \o SubSeq(digits, m + 1, n), digits, 0, 0)
           /\ SubSeq(digits, m + 1, n) \in Digits /\ Len(SubSeq(digits, m + 1, n)) = n - m
<1>1. PICK first, rest : first = SubSeq(digits, 1, m) /\ rest = SubSeq(digits, m + 1, n)
  OBVIOUS
<1>2. /\ first \in Digits /\ Len(first) = m
      /\ \A i \in 1..m : first[i] = digits[i]
  <2>1. 0 \in 0..n /\ m \in 0..n /\ 0 + 1 = 1 /\ m - 0 = m /\ \A i \in 1..m : 0 + i = i
    OBVIOUS
  <2>2. /\ SubSeq(digits, 0 + 1, m) \in Digits /\ Len(SubSeq(digits, 0 + 1, m)) = m - 0
        /\ \A i \in 1..(m - 0) : SubSeq(digits, 0 + 1, m)[i] = digits[0 + i]
    BY <2>1, PartOfDigits
  <2> QED
    BY <1>1, <2>1, <2>2
<1>3. /\ rest \in Digits /\ Len(rest) = n - m
      /\ \A i \in 1..(n - m) : rest[i] = digits[m + i]
  <2>1. m \in 0..n /\ n \in m..n
    OBVIOUS
  <2> QED
    BY <1>1, <2>1, PartOfDigits
<1>4. PICK all \in Digits :
          /\ all = first \o rest /\ Len(all) = Len(first) + Len(rest)
          /\ \A i \in 1..Len(first) : all[i] = first[i]
          /\ \A i \in 1..Len(rest) : all[Len(first) + i] = rest[i]
  BY <1>2, <1>3, DigitsAfterDigits
<1>5. /\ all \in Digits /\ Len(all) = m + (n - m)
      /\ \A i \in 1..m : all[i] = first[i]
      /\ \A i \in 1..(n - m) : all[m + i] = rest[i]
  BY <1>2, <1>3, <1>4
<1>6. ASSUME NEW i \in 1..n PROVE all[i] = digits[i]
  <2>1. CASE i =< m
    BY <1>2, <1>5, <2>1
  <2>2. CASE i > m
    <3>1. i - m \in 1..(n - m) /\ i = m + (i - m)
      BY <2>2
    <3> QED
      BY <1>3, <1>5, <3>1
  <2> QED
    BY <2>1, <2>2
<1>7. Len(all) = n
  BY <1>5
<1> QED
  BY <1>1, <1>3, <1>4, <1>5, <1>6, <1>7 DEF Padded

\* Printing an exact amount and reading it moves no digit that counts.
LEMMA PlacesRead ==
    ASSUME NEW amount \in Amount, amount.kind = "decimal"
    PROVE  places(read_amount(format_amount(amount))) = places(amount)
<1>1. PICK digits \in Digits, e \in Int, n \in Nat \ {0} :
          amount.digits = digits /\ amount.exponent = e /\ Len(digits) = n
  BY EmptySeq DEF Amount, Digits
<1>2. PICK text : text = format_amount(amount) /\ text = plain(amount)
  BY DEF format_amount
<1>3. text.minus = amount.sign /\ text.whole \in Digits /\ text.whole # << >> /\ text.fraction \in Digits
  <2>1. text \in AmountText
    BY <1>2, FormatText
  <2> QED
    BY <1>2, <2>1 DEF AmountText, plain
<1>4. PICK all : all = text.whole \o text.fraction
  OBVIOUS
<1>5. PICK z \in Nat, t \in Nat : Padded(all, digits, z, t) /\ -Len(text.fraction) = e - t
  <2>1. PICK point \in Int : point = n + e
    OBVIOUS
  <2>2. /\ text.whole = IF point =< 0 THEN <<0>> ELSE SubSeq(digits \o zeros(e), 1, point)
        /\ text.fraction = IF e >= 0 THEN << >>
                           ELSE zeros(-point) \o SubSeq(digits, Max({point, 0}) + 1, n)
    <3> DEFINE W == IF point =< 0 THEN <<0>> ELSE SubSeq(digits \o zeros(e), 1, point)
               F == IF e >= 0 THEN << >> ELSE zeros(-point) \o SubSeq(digits, Max({point, 0}) + 1, n)
    <3>1. plain(amount) = [minus |-> amount.sign, whole |-> W, fraction |-> F]
      BY <1>1, <2>1 DEF plain
    <3> HIDE DEF W, F
    <3>2. text.whole = W /\ text.fraction = F
      BY <1>2, <3>1
    <3> QED
      BY <3>2 DEF W, F
  <2>3. CASE e >= 0
    <3>1. PICK t \in Nat : t = e
      BY <2>3
    <3>2. PICK longer : longer = digits \o zeros(t)
      OBVIOUS
    <3>3. Padded(longer, digits, 0, t) /\ Len(longer) = point /\ longer \in Digits
      BY <1>1, <2>1, <3>1, <3>2, ZerosAfter DEF Padded
    <3>4. text.whole = longer
      <4>1. SubSeq(longer, 1, point) = longer /\ ~ (point =< 0)
        BY <2>1, <2>3, <3>3, WholeDigits
      <4> QED
        BY <2>2, <3>1, <3>2, <4>1
    <3>5. text.fraction = << >>
      BY <2>2, <2>3
    <3>6. all = longer /\ -Len(text.fraction) = e - t
      <4>1. longer \o << >> = longer
        BY <3>3, WholeDigits
      <4>2. PICK len \in Nat : len = Len(text.fraction) /\ len = 0
        BY <3>5
      <4>3. all = longer
        BY <1>4, <3>4, <3>5, <4>1
      <4>4. -len = 0 - len
        OBVIOUS
      <4>5. 0 - len = e - t
        BY <3>1, <4>2
      <4> QED
        BY <4>2, <4>3, <4>4, <4>5
    <3> QED
      BY <3>3, <3>6
  <2>4. CASE e < 0 /\ point > 0
    <3>1. point \in 0..n /\ n - point = -e /\ Max({point, 0}) = point
      BY <2>1, <2>4, GreaterOfTwo
    <3>2. PICK rest : rest = SubSeq(digits, point + 1, n)
      OBVIOUS
    <3>3. /\ Padded(SubSeq(digits, 1, point) \o rest, digits, 0, 0)
          /\ rest \in Digits /\ Len(rest) = n - point
      BY <1>1, <3>1, <3>2, Parted
    <3>4. zeros(-point) = << >> /\ zeros(e) = << >>
      BY <2>4, NoZeros
    <3>5. digits \o << >> = digits /\ << >> \o rest = rest
      BY <3>3, WholeDigits
    <3>6. text.whole = SubSeq(digits, 1, point)
      <4>1. ~ (point =< 0)
        BY <2>4
      <4> QED
        BY <2>2, <3>4, <3>5, <4>1
    <3>7. text.fraction = rest
      <4>1. ~ (e >= 0)
        BY <2>4
      <4> QED
        BY <2>2, <3>1, <3>2, <3>4, <3>5, <4>1
    <3>8. -Len(text.fraction) = e - 0
      BY <3>1, <3>3, <3>7
    <3> QED
      BY <1>4, <3>3, <3>6, <3>7, <3>8
  <2>5. CASE e < 0 /\ point =< 0
    <3>1. PICK z \in Nat : z = -point
      BY <2>5
    <3>2. Max({point, 0}) + 1 = 1 /\ SubSeq(digits, 1, n) = digits
      BY <1>1, <2>5, GreaterOfTwo, WholeDigits
    <3>3. text.whole = <<0>> /\ text.fraction = zeros(z) \o digits
      <4>1. ~ (e >= 0)
        BY <2>5
      <4> QED
        BY <2>2, <2>5, <3>1, <3>2, <4>1
    <3>4. Padded(all, digits, z + 1, 0) /\ Len(text.fraction) = z + n
      BY <1>1, <1>4, <3>3, ZerosBefore
    <3>5. -Len(text.fraction) = e - 0 /\ z + 1 \in Nat
      BY <2>1, <3>1, <3>4
    <3> QED
      BY <3>4, <3>5
  <2> QED
    BY <2>1, <2>3, <2>4, <2>5
<1>6. PICK held : held = [sign |-> amount.sign, digits |-> all, exponent |-> e - t]
  OBVIOUS
<1>7. places(held) = places(amount)
  BY <1>1, <1>5, <1>6, PaddedPlaces
<1>8. PICK read : read = read_amount(text)
  OBVIOUS
<1>9. PICK m \in Nat \ {0} : m = Len(all) /\ all \in Digits
  BY <1>1, <1>5 DEF Padded
<1>11. PICK l \in 0..(m - 1) : l = leading_zeros(all) /\ \A i \in 1..l : all[i] = 0
  <2>1. all # << >>
    BY <1>9, EmptySeq
  <2> QED
    BY <1>9, <2>1, Leading
<1>10. /\ read.digits = SubSeq(all, l + 1, Len(all)) /\ read.sign = amount.sign
       /\ read.exponent = e - t
  BY <1>3, <1>4, <1>5, <1>8, <1>11 DEF read_amount, leading_zeros
<1>12. /\ read.digits \in Digits /\ Len(read.digits) = m - l
       /\ \A i \in 1..(m - l) : read.digits[i] = all[l + i]
  <2>1. l \in 0..m /\ m \in l..m
    BY <1>9
  <2> QED
    BY <1>9, <1>10, <2>1, PartOfDigits
<1>13. places(held) = places(read)
  <2>1. /\ held.digits = all /\ held.sign = read.sign /\ held.exponent = read.exponent - 0
        /\ read.exponent \in Int
    BY <1>6, <1>10
  <2>2. Padded(held.digits, read.digits, l, 0)
    BY <1>9, <1>11, <1>12, <2>1 DEF Padded
  <2> QED
    BY <1>12, <2>1, <2>2, PaddedPlaces, 0 \in Nat
<1> QED
  BY <1>2, <1>7, <1>8, <1>13

\* An amount says nothing exactly when it is zero.
LEMMA ZeroHasNoPlaces ==
    ASSUME NEW amount
    PROVE  IsZero(amount.digits) <=> places(amount) = {}
  BY DEF IsZero, places

\* Stripping moves no digit that counts.
LEMMA PlacesCanonical ==
    ASSUME NEW amount \in Amount
    PROVE  places(canonical_amount(amount)) = places(amount)
<1>1. CASE IsZero(amount.digits)
  <2>1. canonical_amount(amount) = [amount EXCEPT !.sign = 0, !.digits = <<0>>, !.exponent = 0]
    BY <1>1 DEF canonical_amount
  <2>2. canonical_amount(amount).digits = <<0>>
    BY <2>1 DEF Amount
  <2>3. IsZero(canonical_amount(amount).digits)
    BY <2>2 DEF IsZero
  <2> QED
    BY <1>1, <2>3, ZeroHasNoPlaces
<1>2. CASE ~ IsZero(amount.digits)
  <2>1. PICK n \in Nat : n = Len(amount.digits) /\ amount.digits \in Digits
    BY DEF Amount, Digits
  <2>2. PICK k \in 0..(n - 1) : k = strippable(amount) /\ Trailing(amount.digits, k)
    BY <1>2, <2>1, SomethingIsLeft, Strippable DEF May
  <2>3. PICK kept : kept = canonical_amount(amount)
    OBVIOUS
  <2>4. kept = [amount EXCEPT !.digits = SubSeq(@, 1, Len(@) - strippable(amount)),
                              !.exponent = @ + strippable(amount)]
    BY <1>2, <2>3 DEF canonical_amount
  <2>5. /\ kept.digits = SubSeq(amount.digits, 1, n - k) /\ kept.exponent = amount.exponent + k
        /\ kept.sign = amount.sign
    BY <2>1, <2>2, <2>4 DEF Amount
  <2>6. PICK digits : digits = amount.digits
    OBVIOUS
  <2>7. PICK first : first = SubSeq(digits, 1, n - k)
    OBVIOUS
  <2>8. first \in Digits /\ Len(first) = n - k /\ \A i \in 1..(n - k) : first[i] = digits[i]
    <3>1. /\ 0 \in 0..n /\ n - k \in 0..n /\ 0 + 1 = 1 /\ (n - k) - 0 = n - k
          /\ \A i \in 1..(n - k) : 0 + i = i
      BY <2>2
    <3>2. digits \in Digits /\ Len(digits) = n
      BY <2>1, <2>6
    <3>3. /\ SubSeq(digits, 0 + 1, n - k) \in Digits
          /\ Len(SubSeq(digits, 0 + 1, n - k)) = (n - k) - 0
          /\ \A i \in 1..((n - k) - 0) : SubSeq(digits, 0 + 1, n - k)[i] = digits[0 + i]
      BY <3>1, <3>2, PartOfDigits
    <3> QED
      BY <2>7, <3>1, <3>3
  <2>9. Padded(digits, first, 0, k)
    <3>1. /\ digits \in Digits /\ Len(digits) = n
          /\ \A i \in 1..n : i > n - k => digits[i] = 0
      BY <2>1, <2>2, <2>6 DEF Trailing
    <3>2. /\ Len(digits) = 0 + Len(first) + k
          /\ \A i \in 1..Len(digits) : i > 0 + Len(first) => digits[i] = 0
      BY <2>2, <2>8, <3>1
    <3>3. \A i \in 1..Len(first) : digits[0 + i] = first[i]
      BY <2>8
    <3> QED
      BY <3>1, <3>2, <3>3 DEF Padded
  <2>10. /\ kept.exponent \in Int /\ amount.exponent = kept.exponent - k /\ k \in Nat
         /\ kept.digits = first /\ amount.digits = digits
    BY <2>2, <2>5, <2>6, <2>7 DEF Amount
  <2>11. Padded(amount.digits, kept.digits, 0, k)
    BY <2>9, <2>10
  <2> QED
    BY <2>3, <2>5, <2>8, <2>10, <2>11, PaddedPlaces, 0 \in Nat
<1> QED
  BY <1>1, <1>2

\* An amount as Decimal() reads it, with nothing left to strip.
Plainest(amount) ==
    /\ amount \in Amount /\ amount.kind = "decimal" /\ IsAmount(amount)
    /\ amount.exponent =< 0 /\ Reduced(amount.digits)
    /\ canonical_amount(amount) = amount

\* One that is not zero begins with a digit that counts, and a fraction ends with one.
Reads(amount, digits, n, e) ==
    /\ amount = [kind |-> "decimal", sign |-> 0, digits |-> digits, exponent |-> e]
    /\ n = Len(digits) /\ e =< 0
    /\ digits[1] # 0
    /\ e < 0 => digits[n] # 0
    /\ places(amount) = {<<0, n - i + e, digits[i]>> : i \in {k \in 1..n : digits[k] # 0}}

LEMMA PlainestEnds ==
    ASSUME NEW amount, Plainest(amount), ~ IsZero(amount.digits)
    PROVE  \E digits \in Digits, n \in Nat \ {0}, e \in Int : Reads(amount, digits, n, e)
<1>1. PICK digits \in Digits, n \in Nat \ {0}, e \in Int :
          /\ digits = amount.digits /\ n = Len(digits) /\ e = amount.exponent
          /\ e =< 0 /\ amount.sign = 0
          /\ amount = [kind |-> "decimal", sign |-> 0, digits |-> digits, exponent |-> e]
  BY EmptySeq DEF Plainest, Amount, Digits, IsAmount
<1>2. ~ IsZero(digits)
  BY <1>1
<1>3. DOMAIN digits = 1..n
  BY <1>1, WholeDigits
<1>4. digits[1] # 0
  <2>1. Reduced(digits)
    BY <1>1 DEF Plainest
  <2> QED
    BY <1>1, <1>2, <1>3, <2>1 DEF Reduced, IsZero
<1>5. ASSUME e < 0 PROVE digits[n] # 0
  <2>1. strippable(amount) \in Int /\ e = e + strippable(amount)
    <3>1. strippable(amount) \in 0..(Len(amount.digits) - 1)
      BY <1>1, <1>2, SomethingIsLeft DEF Plainest
    <3>2. canonical_amount(amount) = [amount EXCEPT !.digits = SubSeq(@, 1, Len(@) - strippable(amount)),
                                                    !.exponent = @ + strippable(amount)]
      BY <1>1, <1>2 DEF canonical_amount
    <3>3. canonical_amount(amount).exponent = amount.exponent + strippable(amount)
      BY <3>2 DEF Plainest, Amount
    <3>4. amount.exponent = e /\ canonical_amount(amount) = amount
      BY <1>1 DEF Plainest
    <3> QED
      BY <3>1, <3>3, <3>4
  <2>2. strippable(amount) = 0
    BY <2>1
  <2>3. ~ May(amount, 1)
    <3>1. \A k \in Nat : May(amount, k) => k =< strippable(amount)
      BY Strippable DEF Plainest
    <3> QED
      BY <2>2, <3>1
  <2>4. ~ Trailing(digits, 1)
    <3>1. 1 \in 0..n /\ 1 =< -e
      BY <1>5
    <3> QED
      BY <1>1, <2>3, <3>1 DEF May
  <2>5. PICK i \in 1..n : i > n - 1 /\ digits[i] # 0
    BY <1>1, <2>4 DEF Trailing
  <2>6. i = n
    BY <2>5
  <2> QED
    BY <2>5, <2>6
<1>6. places(amount) = {<<0, n - i + e, digits[i]>> : i \in {k \in 1..n : digits[k] # 0}}
  BY <1>1, <1>3 DEF places
<1>7. /\ amount = [kind |-> "decimal", sign |-> 0, digits |-> digits, exponent |-> e]
      /\ n = Len(digits) /\ e =< 0
  BY <1>1
<1>8. Reads(amount, digits, n, e)
  BY <1>4, <1>5, <1>6, <1>7 DEF Reads
<1> QED
  BY <1>8

\* And it is known by its digits that count.
LEMMA PlainestIsOne ==
    ASSUME NEW amount, NEW other, Plainest(amount), Plainest(other), places(amount) = places(other)
    PROVE  amount = other
<1>1. CASE IsZero(amount.digits)
  <2>1. IsZero(other.digits)
    BY <1>1, ZeroHasNoPlaces
  <2>2. ASSUME NEW one, Plainest(one), IsZero(one.digits)
        PROVE  one = [kind |-> "decimal", sign |-> 0, digits |-> <<0>>, exponent |-> 0]
    <3>1. one = [one EXCEPT !.sign = 0, !.digits = <<0>>, !.exponent = 0]
      BY <2>2 DEF canonical_amount, Plainest
    <3>2. one.kind = "decimal" /\ one \in Amount
      BY <2>2 DEF Plainest
    <3> QED
      BY <3>1, <3>2 DEF Amount
  <2> QED
    BY <1>1, <2>1, <2>2
<1>2. CASE ~ IsZero(amount.digits)
  <2>1. ~ IsZero(other.digits)
    BY <1>2, ZeroHasNoPlaces
  <2>2. PICK s \in Digits, n \in Nat \ {0}, e \in Int : Reads(amount, s, n, e)
    BY <1>2, PlainestEnds
  <2>3. PICK t \in Digits, m \in Nat \ {0}, f \in Int : Reads(other, t, m, f)
    BY <2>1, PlainestEnds
  <2>4. /\ n = Len(s) /\ e =< 0 /\ s[1] # 0
        /\ m = Len(t) /\ f =< 0 /\ t[1] # 0
    BY <2>2, <2>3 DEF Reads
  <2>5. (e < 0 => s[n] # 0) /\ (f < 0 => t[m] # 0)
    BY <2>2, <2>3 DEF Reads
  <2>6. ASSUME NEW i \in 1..n, s[i] # 0 PROVE \E j \in 1..m : t[j] # 0 /\ n - i + e = m - j + f /\ s[i] = t[j]
    <3>1. <<0, n - i + e, s[i]>> \in places(other)
      BY <2>2, <2>6 DEF Reads
    <3> QED
      BY <2>3, <3>1 DEF Reads
  <2>7. ASSUME NEW j \in 1..m, t[j] # 0 PROVE \E i \in 1..n : s[i] # 0 /\ n - i + e = m - j + f /\ s[i] = t[j]
    <3>1. <<0, m - j + f, t[j]>> \in places(amount)
      BY <2>3, <2>7 DEF Reads
    <3> QED
      BY <2>2, <3>1 DEF Reads
  <2>8. n + e = m + f
    <3>1. n + e =< m + f
      <4>1. PICK j \in 1..m : n - 1 + e = m - j + f
        BY <2>4, <2>6
      <4> QED
        BY <4>1
    <3>2. m + f =< n + e
      <4>1. PICK i \in 1..n : n - i + e = m - 1 + f
        BY <2>4, <2>7
      <4> QED
        BY <4>1
    <3> QED
      BY <3>1, <3>2
  <2>9. e = f
    <3>1. ASSUME e < f PROVE FALSE
      <4>1. e < 0 /\ s[n] # 0
        BY <2>4, <2>5, <3>1
      <4>2. PICK j \in 1..m : n - n + e = m - j + f
        BY <2>6, <4>1
      <4> QED
        BY <3>1, <4>2
    <3>2. ASSUME f < e PROVE FALSE
      <4>1. f < 0 /\ t[m] # 0
        BY <2>4, <2>5, <3>2
      <4>2. PICK i \in 1..n : n - i + e = m - m + f
        BY <2>7, <4>1
      <4> QED
        BY <3>2, <4>2
    <3> QED
      BY <3>1, <3>2
  <2>10. n = m
    BY <2>8, <2>9
  <2>11. ASSUME NEW i \in 1..n PROVE s[i] = t[i]
    <3>1. ASSUME s[i] # 0 PROVE s[i] = t[i]
      <4>1. PICK j \in 1..m : n - i + e = m - j + f /\ s[i] = t[j]
        BY <2>6, <3>1
      <4>2. i = j
        BY <2>9, <2>10, <4>1
      <4> QED
        BY <4>1, <4>2
    <3>2. ASSUME t[i] # 0 PROVE s[i] = t[i]
      <4>1. PICK j \in 1..n : n - j + e = m - i + f /\ s[j] = t[i]
        BY <2>7, <2>10, <3>2
      <4>2. i = j
        BY <2>9, <2>10, <4>1
      <4> QED
        BY <4>1, <4>2
    <3> QED
      BY <3>1, <3>2
  <2>12. s = t
    <3>1. s \in Seq(0..9) /\ t \in Seq(0..9) /\ Len(s) = Len(t)
      BY <2>4, <2>10 DEF Digits
    <3> QED
      BY <2>4, <2>11, <3>1, SeqEqual
  <2> QED
    BY <2>2, <2>3, <2>9, <2>12 DEF Reads
<1> QED
  BY <1>1, <1>2

\* What is read back of an amount that may stand in a document may stand in one.
LEMMA AmountStays ==
    ASSUME NEW amount \in Amount, IsAmount(amount)
    PROVE  IsAmount(read_amount(format_amount(amount)))
<1>1. amount.kind = "decimal" /\ (amount.sign = 0 \/ IsZero(amount.digits))
  BY DEF IsAmount
<1>2. format_amount(amount) \in AmountText /\ format_amount(amount).minus = amount.sign
  BY <1>1, FormatText DEF format_amount, plain
<1>3. PICK read : /\ read = read_amount(format_amount(amount))
                  /\ read.kind = "decimal" /\ read.sign = amount.sign
  BY <1>2, ReadText
<1>4. places(read) = places(amount)
  BY <1>1, <1>3, PlacesRead
<1>5. IsZero(amount.digits) => IsZero(read.digits)
  BY <1>4, ZeroHasNoPlaces
<1> QED
  BY <1>1, <1>3, <1>5 DEF IsAmount

\* What an amount is signed as, and that it is known by what the amount says.
made_amount(amount) == canonical_amount(read_amount(format_amount(amount)))

LEMMA FormIsPlainest ==
    ASSUME NEW amount \in Amount, amount.kind = "decimal", IsAmount(read_amount(format_amount(amount)))
    PROVE  Plainest(made_amount(amount)) /\ places(made_amount(amount)) = places(amount)
<1>1. PICK read \in Amount : /\ read = read_amount(format_amount(amount))
                             /\ read.kind = "decimal" /\ read.exponent =< 0 /\ Reduced(read.digits)
  BY AmountRead
<1>2. Plainest(canonical_amount(read))
  BY <1>1, CanonicalAmount DEF Plainest
<1>3. places(canonical_amount(read)) = places(amount)
  BY <1>1, PlacesRead, PlacesCanonical
<1> QED
  BY <1>1, <1>2, <1>3 DEF made_amount

LEMMA OneAmountOneForm ==
    ASSUME NEW amount \in Amount, amount.kind = "decimal", IsAmount(read_amount(format_amount(amount))),
           NEW other \in Amount, other.kind = "decimal", IsAmount(read_amount(format_amount(other)))
    PROVE  format_amount(made_amount(amount)) = format_amount(made_amount(other)) <=> places(amount) = places(other)
<1>1. /\ Plainest(made_amount(amount)) /\ places(made_amount(amount)) = places(amount)
      /\ Plainest(made_amount(other)) /\ places(made_amount(other)) = places(other)
  BY FormIsPlainest
<1>2. ASSUME NEW one, Plainest(one) PROVE read_amount(format_amount(one)) = one
  BY <1>2, ReadsBack DEF Plainest
<1>3. format_amount(made_amount(amount)) = format_amount(made_amount(other)) => made_amount(amount) = made_amount(other)
  BY <1>1, <1>2
<1>4. places(amount) = places(other) => made_amount(amount) = made_amount(other)
  BY <1>1, PlainestIsOne
<1> QED
  BY <1>1, <1>3, <1>4

-----------------------------------------------------------------------------
(***************************************************************************)
(* The other fields, and documents.                                        *)
(***************************************************************************)
\* Two texts have one canonical form when they are made of the same.
LEMMA OneTextOneForm ==
    ASSUME NEW C, CodePoint \subseteq C, NEW text \in Seq(C), NEW other \in Seq(C)
    PROVE  canonical_text(text) = canonical_text(other) <=> decomposed(text) = decomposed(other)
<1>1. /\ decomposed(canonical_text(text)) = decomposed(text)
      /\ decomposed(canonical_text(other)) = decomposed(other)
  BY NormalIsNormal
<1>2. decomposed(text) = decomposed(other) => canonical_text(text) = canonical_text(other)
  BY DEF canonical_text, NFC
<1> QED
  BY <1>1, <1>2

LEMMA OneScopeOneForm ==
    ASSUME NEW texts \in Seq(Seq(CodePoint)), NEW others \in Seq(Seq(CodePoint))
    PROVE  canonical_scope(canonical_texts(texts)) = canonical_scope(canonical_texts(others))
              <=> {decomposed(texts[i]) : i \in DOMAIN texts} = {decomposed(others[i]) : i \in DOMAIN others}
<1>1. ASSUME NEW given \in Seq(Seq(CodePoint))
      PROVE  /\ ToSet(canonical_texts(given)) = {canonical_text(given[i]) : i \in DOMAIN given}
             /\ ToSet(canonical_scope(canonical_texts(given))) = ToSet(canonical_texts(given))
             /\ \A i \in DOMAIN given : given[i] \in Seq(CodePoint)
  <2>1. canonical_texts(given) \in Seq(Seq(CodePoint)) /\ DOMAIN canonical_texts(given) = DOMAIN given
        /\ \A i \in DOMAIN given : canonical_texts(given)[i] = canonical_text(given[i])
    BY CanonicalTexts
  <2>2. ToSet(canonical_texts(given)) = {canonical_text(given[i]) : i \in DOMAIN given}
    BY <2>1 DEF ToSet
  <2> QED
    BY <2>1, <2>2, ScopeSorted
<1> DEFINE made(given) == {canonical_text(given[i]) : i \in DOMAIN given}
           said(given) == {decomposed(given[i]) : i \in DOMAIN given}
<1>2. canonical_scope(canonical_texts(texts)) = canonical_scope(canonical_texts(others))
        <=> made(texts) = made(others)
  <2>1. made(texts) = made(others)
          => canonical_scope(canonical_texts(texts)) = canonical_scope(canonical_texts(others))
    BY <1>1 DEF canonical_scope
  <2> QED
    BY <1>1, <2>1
<1>3. \A s, t \in Seq(CodePoint) : canonical_text(s) = canonical_text(t) <=> decomposed(s) = decomposed(t)
  BY OneTextOneForm
<1>4. ASSUME NEW s \in Seq(Seq(CodePoint)), NEW t \in Seq(Seq(CodePoint))
      PROVE  made(s) \subseteq made(t) <=> said(s) \subseteq said(t)
  <2>1. (\A i \in DOMAIN s : s[i] \in Seq(CodePoint)) /\ \A i \in DOMAIN t : t[i] \in Seq(CodePoint)
    BY <1>1
  <2>2. made(s) \subseteq made(t) <=> \A i \in DOMAIN s : \E j \in DOMAIN t : canonical_text(s[i]) = canonical_text(t[j])
    OBVIOUS
  <2>3. said(s) \subseteq said(t) <=> \A i \in DOMAIN s : \E j \in DOMAIN t : decomposed(s[i]) = decomposed(t[j])
    OBVIOUS
  <2> QED
    BY <1>3, <2>1, <2>2, <2>3
<1>5. made(texts) = made(others) <=> said(texts) = said(others)
  <2>1. /\ made(texts) \subseteq made(others) <=> said(texts) \subseteq said(others)
        /\ made(others) \subseteq made(texts) <=> said(others) \subseteq said(texts)
    BY <1>4
  <2> HIDE DEF made, said
  <2> QED
    BY <2>1
<1> QED
  BY <1>2, <1>5

LEMMA OneTimeOneForm ==
    ASSUME NEW moment \in Moment, moment.offset # None
    PROVE  format_timestamp(canonical_timestamp(moment)) = instant(moment) \div Milli
<1>1. PICK t \in Int : t = instant(moment)
  BY TimeMade
<1>2. canonical_timestamp(moment).local = t - (t % Milli)
  BY <1>1, TimeMade
<1> QED
  BY <1>1, <1>2, WholeMillis DEF format_timestamp

\* What is signed of values, field by field.
LEMMA FormOf ==
    ASSUME NEW values \in Values, Accepts(redumped(values))
    PROVE  canonical_json_value(values) =
              [issued_at |-> instant(values.issued_at) \div Milli,
               amount |-> format_amount(made_amount(values.amount)),
               scope |-> canonical_scope(canonical_texts(values.scope)),
               reason |-> canonical_text(values.reason),
               target |-> canonical_text(values.target)]
<1>1. PICK made : made = model_validate(redumped(values))
  OBVIOUS
<1>2. made = [issued_at |-> canonical_timestamp(values.issued_at),
              amount |-> made_amount(values.amount),
              scope |-> canonical_scope(canonical_texts(values.scope)),
              reason |-> canonical_text(values.reason),
              target |-> canonical_text(values.target)]
  BY <1>1, Redumped, Made DEF made_amount
<1>3. values.issued_at \in Moment /\ values.issued_at.offset # None
  BY Redumped, Fields DEF Accepts, IsDocument
<1>4. format_timestamp(made.issued_at) = instant(values.issued_at) \div Milli
  BY <1>2, <1>3, OneTimeOneForm
<1>5. model_dump(made) = [made EXCEPT !.issued_at = format_timestamp(made.issued_at),
                                      !.amount = format_amount(made.amount)]
  BY DEF model_dump
<1>6. PICK time, amount : /\ time = instant(values.issued_at) \div Milli
                          /\ amount = format_amount(made_amount(values.amount))
  OBVIOUS
<1>7. model_dump(made) = [made EXCEPT !.issued_at = time, !.amount = amount]
  BY <1>2, <1>4, <1>5, <1>6
<1>8. model_dump(made) = [issued_at |-> time, amount |-> amount,
                          scope |-> canonical_scope(canonical_texts(values.scope)),
                          reason |-> canonical_text(values.reason),
                          target |-> canonical_text(values.target)]
  BY <1>2, <1>7
<1> QED
  BY <1>1, <1>6, <1>8 DEF canonical_json_value

\* Whoever is accepted is accepted as read back.
LEMMA AcceptsRedumped ==
    ASSUME NEW values \in Values, Accepts(values)
    PROVE  Accepts(redumped(values))
<1>1. IsAmount(values.amount)
  BY DEF Accepts, IsDocument
<1>2. IsAmount(read_amount(format_amount(values.amount)))
  BY <1>1, Fields, AmountStays
<1>3. /\ redumped(values).issued_at = values.issued_at
      /\ redumped(values).amount = read_amount(format_amount(values.amount))
      /\ redumped(values).scope = values.scope
      /\ redumped(values).reason = values.reason
      /\ redumped(values).target = values.target
  BY Redumped
<1> QED
  BY <1>2, <1>3 DEF Accepts, IsDocument

LEMMA OneDocumentOneForm ==
    ASSUME NEW values \in Values, Accepts(redumped(values)), values.amount.kind = "decimal",
           NEW others \in Values, Accepts(others)
    PROVE  canonical_json_value(others) = canonical_json_value(values) <=> meaning(others) = meaning(values)
<1>1. Accepts(redumped(others))
  BY AcceptsRedumped
<1>2. others.amount.kind = "decimal"
  BY DEF Accepts, IsDocument, IsAmount
<1>3. ASSUME NEW any \in Values, Accepts(redumped(any)), any.amount.kind = "decimal"
      PROVE  any.amount \in Amount /\ IsAmount(read_amount(format_amount(any.amount)))
  BY <1>3, Fields, Redumped DEF Accepts, IsDocument
<1>4. format_amount(made_amount(others.amount)) = format_amount(made_amount(values.amount))
        <=> places(others.amount) = places(values.amount)
  BY <1>1, <1>2, <1>3, OneAmountOneForm
<1>5. CodePoint \subseteq Character
  BY DEF Character
<1>6. /\ canonical_text(others.reason) = canonical_text(values.reason)
           <=> decomposed(others.reason) = decomposed(values.reason)
      /\ canonical_text(others.target) = canonical_text(values.target)
           <=> decomposed(others.target) = decomposed(values.target)
  BY <1>5, Fields, OneTextOneForm
<1>7. canonical_scope(canonical_texts(others.scope)) = canonical_scope(canonical_texts(values.scope))
        <=> {decomposed(others.scope[i]) : i \in DOMAIN others.scope}
              = {decomposed(values.scope[i]) : i \in DOMAIN values.scope}
  BY Fields, OneScopeOneForm
<1>8. canonical_json_value(others) = canonical_json_value(values)
        <=> /\ instant(others.issued_at) \div Milli = instant(values.issued_at) \div Milli
            /\ format_amount(made_amount(others.amount)) = format_amount(made_amount(values.amount))
            /\ canonical_scope(canonical_texts(others.scope)) = canonical_scope(canonical_texts(values.scope))
            /\ canonical_text(others.reason) = canonical_text(values.reason)
            /\ canonical_text(others.target) = canonical_text(values.target)
  BY <1>1, FormOf
<1>9. meaning(others) = meaning(values)
        <=> /\ instant(others.issued_at) \div Milli = instant(values.issued_at) \div Milli
            /\ places(others.amount) = places(values.amount)
            /\ {decomposed(others.scope[i]) : i \in DOMAIN others.scope}
                  = {decomposed(values.scope[i]) : i \in DOMAIN values.scope}
            /\ decomposed(others.reason) = decomposed(values.reason)
            /\ decomposed(others.target) = decomposed(values.target)
  BY DEF meaning
<1> QED
  BY <1>4, <1>6, <1>7, <1>8, <1>9

\* Whatever is passed, copied and signed: other values have the bytes that were signed exactly
\* when they say the same.
THEOREM OneMeaning == Spec => []OneMeaningOneForm
<1>1. IInv => OneMeaningOneForm
  <2> SUFFICES ASSUME IInv, stage = "signed", document.amount.kind = "decimal",
                      NEW others \in Inputs, Accepts(others)
               PROVE  canonical_json_value(others) = envelope.covered <=> meaning(others) = meaning(document)
    BY DEF OneMeaningOneForm, Readings
  <2>1. /\ document \in Values /\ Accepts(redumped(document))
        /\ envelope.covered = canonical_json_value(document)
    BY DEF IInv, Signed
  <2>2. others \in Values
    BY CanonicalAssumption
  <2> QED
    BY <2>1, <2>2, OneDocumentOneForm
<1> QED
  BY <1>1, Provenance, PTL

\* A function that is given at 0 and follows from its value at some smaller number, up to n.
Follows(f, e, step, before, n) ==
    f[0] = e /\ \A m \in 1..n : f[m] = step[<<m, f[before[m]]>>]

Downwards(before) == before \in [Nat -> Nat] /\ \A n \in Nat \ {0} : before[n] < n

Obeys(f, e, step, before) ==
    f[0] = e /\ \A n \in Nat \ {0} : f[n] = step[<<n, f[before[n]]>>]

\* What a recursive definition over the numbers takes for granted: there is such a function.
LEMMA Recursion ==
    ASSUME NEW T, NEW e \in T, NEW step \in [Nat \X T -> T], NEW before, Downwards(before)
    PROVE  \E f \in [Nat -> T] : Obeys(f, e, step, before)
<1> USE DEF Downwards
<1> DEFINE Sat(f, n) == Follows(f, e, step, before, n)
           Reached == {n \in Nat : \E f \in [Nat -> T] : Sat(f, n)}
<1>1. 0 \in Reached
  <2>1. [n \in Nat |-> e] \in [Nat -> T] /\ Sat([n \in Nat |-> e], 0)
    BY DEF Follows
  <2> QED
    BY <2>1
<1>2. ASSUME NEW n \in Nat, n \in Reached PROVE n + 1 \in Reached
  <2>1. PICK f \in [Nat -> T] : Sat(f, n)
    BY <1>2
  <2> DEFINE g == [f EXCEPT ![n + 1] = step[<<n + 1, f[before[n + 1]]>>]]
  <2>2. g \in [Nat -> T] /\ g[n + 1] = step[<<n + 1, f[before[n + 1]]>>]
        /\ \A m \in Nat : m # n + 1 => g[m] = f[m]
    OBVIOUS
  <2> HIDE DEF g
  <2>3. ASSUME NEW m \in 1..(n + 1) PROVE g[m] = step[<<m, g[before[m]]>>]
    <3>1. before[m] \in Nat /\ before[m] < m
      OBVIOUS
    <3>2. g[before[m]] = f[before[m]]
      BY <3>1, <2>2
    <3>3. CASE m = n + 1
      BY <3>2, <3>3, <2>2
    <3>4. CASE m # n + 1
      BY <3>2, <3>4, <2>1, <2>2 DEF Follows
    <3> QED
      BY <3>3, <3>4
  <2>4. g[0] = e
    BY <2>1, <2>2 DEF Follows
  <2> QED
    BY <2>2, <2>3, <2>4 DEF Follows
<1>3. Nat \subseteq Reached
  <2> HIDE DEF Reached
  <2> QED
    BY <1>1, <1>2, ForEveryNumber
<1> DEFINE F == [n \in Nat |-> CHOOSE f \in [Nat -> T] : Sat(f, n)]
<1>6. ASSUME NEW n \in Nat PROVE F[n] \in [Nat -> T] /\ Sat(F[n], n)
  BY <1>3
<1> HIDE DEF F, Reached
<1>7. ASSUME NEW n \in Nat, NEW m \in 0..n PROVE F[n][m] = F[m][m]
  <2> DEFINE Same == {k \in Nat : \A l \in 0..k : l =< m => F[n][l] = F[m][l]}
  <2>1. Sat(F[n], m) /\ Sat(F[m], m) /\ F[n] \in [Nat -> T] /\ F[m] \in [Nat -> T]
    BY <1>6 DEF Follows
  <2>2. 0 \in Same
    BY <2>1 DEF Follows
  <2>3. ASSUME NEW k \in Nat, k \in Same PROVE k + 1 \in Same
    <3>1. \A l \in 0..k : l =< m => F[n][l] = F[m][l]
      BY <2>3
    <3>2. CASE k + 1 =< m
      <4>1. before[k + 1] \in 0..k /\ k + 1 \in 1..m
        BY <3>2
      <4>2. /\ F[n][k + 1] = step[<<k + 1, F[n][before[k + 1]]>>]
            /\ F[m][k + 1] = step[<<k + 1, F[m][before[k + 1]]>>]
        BY <4>1, <2>1 DEF Follows
      <4>3. F[n][k + 1] = F[m][k + 1]
        BY <4>1, <4>2, <3>1, <3>2
      <4> QED
        BY <4>3, <3>1
    <3> QED
      BY <3>1, <3>2
  <2> HIDE DEF Same
  <2>4. Nat \subseteq Same
    BY <2>2, <2>3, ForEveryNumber
  <2> QED
    BY <2>4 DEF Same
<1> DEFINE d == [n \in Nat |-> F[n][n]]
<1>8. d \in [Nat -> T] /\ d[0] = e
  BY <1>6 DEF Follows
<1>9. ASSUME NEW n \in Nat \ {0} PROVE d[n] = step[<<n, d[before[n]]>>]
  <2>1. before[n] \in 0..n /\ n \in 1..n
    OBVIOUS
  <2>2. F[n][n] = step[<<n, F[n][before[n]]>>]
    BY <1>6, <2>1 DEF Follows
  <2> QED
    BY <2>1, <2>2, <1>7
<1> QED
  BY <1>8, <1>9 DEF Obeys

-----------------------------------------------------------------------------
(***************************************************************************)
(* Numbers written in a base.                                              *)
(***************************************************************************)
Digit(base) == 0..(base - 1)

\* Multiplying and adding a digit is undone by dividing.
LEMMA Dividing ==
    ASSUME NEW n \in Nat, NEW base \in Nat \ {0}, NEW d \in Digit(base)
    PROVE  (n * base + d) \div base = n /\ (n * base + d) % base = d
<1> DEFINE a == n * base + d
           q == a \div base
           r == a % base
<1>1. a \in Nat /\ d \in Nat /\ d < base
  BY DEF Digit
<1>2. q \in Int /\ r \in 0..(base - 1) /\ a = base * q + r
  BY <1>1
<1> HIDE DEF q, r
<1>3. base * (n - q) = r - d
  BY <1>1, <1>2
<1>4. n - q = 0
  <2>1. ASSUME n - q >= 1 PROVE FALSE
    <3>1. base * (n - q) >= base
      BY <2>1, <1>2
    <3> QED
      BY <3>1, <1>1, <1>2, <1>3
  <2>2. ASSUME n - q =< -1 PROVE FALSE
    <3>1. base * (n - q) =< -base
      BY <2>2, <1>2
    <3> QED
      BY <3>1, <1>1, <1>2, <1>3
  <2> QED
    BY <2>1, <2>2, <1>2
<1>5. q = n /\ r = d
  BY <1>1, <1>2, <1>3, <1>4
<1> QED
  BY <1>5 DEF q, r

LEMMA Divided ==
    ASSUME NEW n \in Nat, NEW base \in Nat \ {0, 1}
    PROVE  /\ n \div base \in Nat /\ n % base \in Digit(base) /\ n = (n \div base) * base + (n % base)
           /\ n > 0 => n \div base < n
<1> DEFINE q == n \div base
           r == n % base
<1>1. q \in Int /\ r \in 0..(base - 1) /\ n = base * q + r
  OBVIOUS
<1> HIDE DEF q, r
<1>2. q >= 0
  <2>1. ASSUME q =< -1 PROVE FALSE
    <3>1. base * q =< -base
      BY <2>1, <1>1
    <3> QED
      BY <3>1, <1>1
  <2> QED
    BY <2>1, <1>1
<1>3. ASSUME n > 0 PROVE q < n
  <2>1. CASE q = 0
    BY <2>1, <1>3
  <2>2. CASE q > 0
    <3>1. base * q >= 2 * q
      BY <2>2, <1>1
    <3> QED
      BY <3>1, <2>2, <1>1
  <2> QED
    BY <2>1, <2>2, <1>1, <1>2
<1> QED
  BY <1>1, <1>2, <1>3 DEF q, r, Digit

\* The number of a text, one digit more at a time.
LEMMA NumberStep ==
    ASSUME NEW base \in Nat, NEW s \in Seq(Nat)
    PROVE  /\ number(<< >>, base) = 0 /\ number(s, base) \in Nat
           /\ \A d \in Nat : number(Append(s, d), base) = number(s, base) * base + d
<1> DEFINE Upto(t) == CHOOSE upto : upto = [n \in 0..Len(t) |->
                          IF n = 0 THEN 0 ELSE upto[n - 1] * base + t[n]]
<1>1. ASSUME NEW t \in Seq(Nat)
      PROVE  /\ Upto(t) \in [0..Len(t) -> Nat] /\ Upto(t)[0] = 0
             /\ \A n \in 1..Len(t) : Upto(t)[n] = Upto(t)[n - 1] * base + t[n]
  <2> DEFINE step == [p \in Nat \X Nat |-> IF p[1] \in 1..Len(t) THEN p[2] * base + t[p[1]] ELSE 0]
             before == [n \in Nat |-> IF n = 0 THEN 0 ELSE n - 1]
             N == Len(t)
  <2>1. N \in Nat /\ t \in [1..N -> Nat]
    OBVIOUS
  <2>2. step \in [Nat \X Nat -> Nat]
    <3> SUFFICES ASSUME NEW n \in Nat, NEW m \in Nat, n \in 1..Len(t) PROVE m * base + t[n] \in Nat
      OBVIOUS
    <3>1. t[n] \in Nat /\ m * base \in Nat
      OBVIOUS
    <3> QED
      BY <3>1
  <2>3. Downwards(before)
    BY DEF Downwards
  <2>4. PICK f : f \in [Nat -> Nat] /\ Obeys(f, 0, step, before)
    <3> HIDE DEF step, before
    <3>1. 0 \in Nat
      OBVIOUS
    <3> QED
      BY <3>1, <2>2, <2>3, Recursion
  <2> DEFINE u == [n \in 0..Len(t) |-> f[n]]
  <2>5. u = [n \in 0..Len(t) |-> IF n = 0 THEN 0 ELSE u[n - 1] * base + t[n]]
    <3> SUFFICES ASSUME NEW n \in 0..Len(t), n # 0 PROVE f[n] = u[n - 1] * base + t[n]
      BY <2>4 DEF Obeys
    <3>1. before[n] = n - 1 /\ n - 1 \in 0..Len(t) /\ n \in 1..Len(t) /\ n - 1 \in Nat
      OBVIOUS
    <3>2. f[n] = step[<<n, f[n - 1]>>]
      <4>1. f[n] = step[<<n, f[before[n]]>>]
        <5>1. n \in Nat \ {0}
          OBVIOUS
        <5> HIDE DEF step, before, N
        <5> QED
          BY <2>4, <5>1, Zenon DEF Obeys
      <4> QED
        BY <4>1, <3>1
    <3>3. f[n - 1] \in Nat /\ u[n - 1] = f[n - 1]
      BY <2>4, <3>1
    <3>4. step[<<n, f[n - 1]>>] = f[n - 1] * base + t[n]
      <4>1. ASSUME NEW m \in Nat PROVE step[<<n, m>>] = m * base + t[n]
        <5>1. <<n, m>> \in Nat \X Nat /\ <<n, m>>[1] = n /\ <<n, m>>[2] = m
          <6>1. n \in Nat
            BY <2>1
          <6> HIDE DEF step, u, before, Upto
          <6> QED
            BY <6>1
        <5> QED
          BY <5>1, <3>1
      <4> HIDE DEF step
      <4> QED
        BY <4>1, <3>3
    <3> QED
      BY <3>2, <3>3, <3>4
  <2> HIDE DEF u
  <2>6. Upto(t) = [n \in 0..Len(t) |-> IF n = 0 THEN 0 ELSE Upto(t)[n - 1] * base + t[n]]
    BY <2>5
  <2> HIDE DEF Upto, step, before
  <2>r. PICK U : U = Upto(t)
    OBVIOUS
  <2>e. /\ U = [n \in 0..N |-> IF n = 0 THEN 0 ELSE U[n - 1] * base + t[n]]
        /\ \A n \in 0..N : U[n] = IF n = 0 THEN 0 ELSE U[n - 1] * base + t[n]
    BY <2>6, <2>r, Zenon
  <2>7. ASSUME NEW n \in 1..N PROVE U[n] = U[n - 1] * base + t[n]
    <3>1. n \in 0..N /\ n # 0
      BY <2>1
    <3> QED
      BY <2>e, <3>1, Zenon
  <2>8. U[0] = 0
    <3>1. 0 \in 0..N
      BY <2>1
    <3> QED
      BY <2>e, <3>1, Zenon
  <2> DEFINE Good == {n \in Nat : n =< N => U[n] \in Nat}
  <2>9. 0 \in Good
    BY <2>8
  <2>10. ASSUME NEW n \in Nat, n \in Good PROVE n + 1 \in Good
    <3> SUFFICES ASSUME n + 1 =< N PROVE U[n + 1] \in Nat
      OBVIOUS
    <3>1. U[n] \in Nat /\ t[n + 1] \in Nat
      BY <2>1, <2>10
    <3>2. U[n + 1] = U[n] * base + t[n + 1]
      BY <2>1, <2>7
    <3>3. U[n] * base \in Nat
      BY <3>1
    <3> QED
      BY <3>1, <3>2, <3>3
  <2>11. Nat \subseteq Good
    <3> HIDE DEF Good
    <3> QED
      BY <2>9, <2>10, ForEveryNumber
  <2>12. \A n \in 0..N : U[n] \in Nat
    BY <2>1, <2>11
  <2>13. U \in [0..N -> Nat]
    <3>1. U = [n \in 0..N |-> U[n]]
      BY <2>e, Zenon
    <3> QED
      BY <3>1, <2>12
  <2> QED
    BY <2>r, <2>7, <2>8, <2>13
<1>2. \A t : number(t, base) = Upto(t)[Len(t)]
  BY DEF number
<1> HIDE DEF Upto
<1>3. Len(s) \in Nat /\ number(s, base) \in Nat
  BY <1>1, <1>2
<1>4. number(<< >>, base) = 0
  BY <1>1, <1>2
<1>5. ASSUME NEW d \in Nat PROVE number(Append(s, d), base) = number(s, base) * base + d
  <2> DEFINE t == Append(s, d)
             N == Len(s)
  <2>1. /\ t \in Seq(Nat) /\ Len(t) = N + 1 /\ t[N + 1] = d
        /\ \A i \in 1..N : t[i] = s[i]
    OBVIOUS
  <2> HIDE DEF t
  <2> DEFINE Equal == {n \in Nat : n =< N => Upto(t)[n] = Upto(s)[n]}
  <2>2. 0 \in Equal
    BY <1>1, <2>1
  <2>3. ASSUME NEW n \in Nat, n \in Equal PROVE n + 1 \in Equal
    <3> SUFFICES ASSUME n + 1 =< N PROVE Upto(t)[n + 1] = Upto(s)[n + 1]
      OBVIOUS
    <3>1. n + 1 \in 1..N /\ n + 1 \in 1..(N + 1) /\ (n + 1) - 1 = n
      BY <1>3
    <3>2. Upto(t)[n + 1] = Upto(t)[n] * base + t[n + 1] /\ Upto(s)[n + 1] = Upto(s)[n] * base + s[n + 1]
      BY <1>1, <2>1, <3>1
    <3>3. Upto(t)[n] = Upto(s)[n] /\ t[n + 1] = s[n + 1]
      BY <2>1, <2>3, <3>1
    <3> QED
      BY <3>2, <3>3
  <2>4. Nat \subseteq Equal
    <3> HIDE DEF Equal
    <3> QED
      BY <2>2, <2>3, ForEveryNumber
  <2>5. Upto(t)[N] = Upto(s)[N]
    BY <1>3, <2>4
  <2>6. N + 1 \in 1..Len(t) /\ (N + 1) - 1 = N
    BY <1>3, <2>1
  <2>7. Upto(t)[N + 1] = Upto(t)[N] * base + t[N + 1]
    BY <1>1, <2>1, <2>6
  <2> QED
    BY <1>2, <2>1, <2>5, <2>7 DEF t
<1> QED
  BY <1>3, <1>4, <1>5

\* The shortest digits of a number, by the loop that divides.
LEMMA ShortestStep ==
    ASSUME NEW base \in Nat \ {0, 1}
    PROVE  /\ shortest(0, base) = << >>
           /\ \A n \in Nat \ {0} : shortest(n, base) = Append(shortest(n \div base, base), n % base)
<1> DEFINE D == CHOOSE digits : digits = [n \in Nat |->
                    IF n = 0 THEN << >> ELSE Append(digits[n \div base], n % base)]
           step == [p \in Nat \X Seq(Nat) |-> Append(p[2], p[1] % base)]
           before == [n \in Nat |-> n \div base]
<1>1. step \in [Nat \X Seq(Nat) -> Seq(Nat)]
  <2> SUFFICES ASSUME NEW n \in Nat, NEW s \in Seq(Nat) PROVE Append(s, n % base) \in Seq(Nat)
    OBVIOUS
  <2>1. n % base \in Nat
    BY Divided DEF Digit
  <2> QED
    BY <2>1
<1>2. Downwards(before)
  BY Divided DEF Downwards
<1>3. PICK f : f \in [Nat -> Seq(Nat)] /\ Obeys(f, << >>, step, before)
  <2> HIDE DEF step, before
  <2>1. << >> \in Seq(Nat)
    OBVIOUS
  <2> QED
    BY <1>1, <1>2, <2>1, Recursion
<1>4. f = [n \in Nat |-> IF n = 0 THEN << >> ELSE Append(f[n \div base], n % base)]
  <2>1. f = [n \in Nat |-> f[n]]
    BY <1>3, Zenon
  <2>2. f[0] = << >>
    BY <1>3, Zenon DEF Obeys
  <2>3. ASSUME NEW n \in Nat \ {0} PROVE f[n] = Append(f[n \div base], n % base)
    <3>1. f[n] = step[<<n, f[before[n]]>>]
      <4> HIDE DEF step, before
      <4> QED
        BY <1>3, Zenon DEF Obeys
    <3>2. before[n] = n \div base /\ n \div base \in Nat
      BY Divided
    <3>3. f[n \div base] \in Seq(Nat)
      BY <1>3, <3>2, Zenon
    <3>4. ASSUME NEW s \in Seq(Nat) PROVE step[<<n, s>>] = Append(s, n % base)
      <4>1. <<n, s>> \in Nat \X Seq(Nat) /\ <<n, s>>[1] = n /\ <<n, s>>[2] = s
        <5> HIDE DEF step, before
        <5> QED
          OBVIOUS
      <4> QED
        BY <4>1, Zenon
    <3> HIDE DEF step, before
    <3> QED
      BY <3>1, <3>2, <3>3, <3>4
  <2>4. ASSUME NEW n \in Nat
        PROVE  f[n] = IF n = 0 THEN << >> ELSE Append(f[n \div base], n % base)
    BY <2>2, <2>3
  <2> QED
    BY <2>1, <2>4, Zenon
<1>5. D = [n \in Nat |-> IF n = 0 THEN << >> ELSE Append(D[n \div base], n % base)]
  BY <1>4, Zenon
<1>6. \A n \in Nat : shortest(n, base) = D[n]
  BY DEF shortest
<1> HIDE DEF D
<1>7. \A n \in Nat : D[n] = IF n = 0 THEN << >> ELSE Append(D[n \div base], n % base)
  BY <1>5, Zenon
<1>8. ASSUME NEW n \in Nat \ {0} PROVE shortest(n, base) = Append(shortest(n \div base, base), n % base)
  <2>1. n \in Nat /\ n # 0 /\ n \div base \in Nat
    BY Divided
  <2> QED
    BY <1>6, <1>7, <2>1, Zenon
<1>9. shortest(0, base) = << >>
  <2>1. 0 \in Nat
    OBVIOUS
  <2> QED
    BY <1>6, <1>7, <2>1, Zenon
<1> QED
  BY <1>8, <1>9

LEMMA NumberOfNothing ==
    ASSUME NEW base \in Nat
    PROVE  number(<< >>, base) = 0
<1>1. << >> \in Seq(Nat)
  OBVIOUS
<1> QED
  BY <1>1, NumberStep

NoLeadingZero(digits) == digits # << >> => digits[1] # 0

LEMMA ShortestIs ==
    ASSUME NEW base \in Nat \ {0, 1}, NEW n \in Nat
    PROVE  /\ shortest(n, base) \in Seq(Digit(base)) /\ NoLeadingZero(shortest(n, base))
           /\ number(shortest(n, base), base) = n
<1> DEFINE Good(m) == /\ shortest(m, base) \in Seq(Digit(base)) /\ NoLeadingZero(shortest(m, base))
                      /\ number(shortest(m, base), base) = m
           S == {m \in Nat : \A k \in 0..m : Good(k)}
<1>1. Good(0)
  <2>1. << >> \in Seq(Digit(base)) /\ NoLeadingZero(<< >>)
    BY DEF NoLeadingZero
  <2>2. number(<< >>, base) = 0
    BY NumberOfNothing
  <2>3. shortest(0, base) = << >>
    BY ShortestStep
  <2> QED
    BY <2>1, <2>2, <2>3
<1>2. ASSUME NEW m \in Nat, m \in S PROVE Good(m + 1)
  <2> DEFINE q == (m + 1) \div base
             r == (m + 1) % base
             s == shortest(q, base)
             t == shortest(m + 1, base)
  <2>1. q \in Nat /\ r \in Digit(base) /\ m + 1 = q * base + r /\ q < m + 1
    <3>1. m + 1 \in Nat /\ m + 1 > 0
      OBVIOUS
    <3> QED
      BY <3>1, Divided
  <2>2. Good(q)
    <3>1. q \in 0..m
      <4> HIDE DEF q, r
      <4> QED
        BY <2>1
    <3> HIDE DEF q, r, Good
    <3> QED
      BY <3>1, <1>2
  <2>3. t = Append(s, r)
    <3>1. m + 1 \in Nat \ {0}
      OBVIOUS
    <3> QED
      BY <3>1, ShortestStep
  <2>4. s \in Seq(Digit(base)) /\ NoLeadingZero(s) /\ number(s, base) = q
    BY <2>2
  <2> HIDE DEF q, r, s, t, Good
  <2>5. s \in Seq(Nat) /\ r \in Nat
    BY <2>1, <2>4 DEF Digit
  <2>6. number(t, base) = m + 1
    BY <2>1, <2>3, <2>4, <2>5, NumberStep
  <2>7. t \in Seq(Digit(base))
    BY <2>1, <2>3, <2>4
  <2>8. NoLeadingZero(t)
    <3>1. CASE s = << >>
      <4>1. q = 0
        BY <3>1, <2>4, NumberOfNothing
      <4>2. r # 0
        BY <4>1, <2>1 DEF Digit
      <4>3. t[1] = r
        BY <3>1, <2>3
      <4> QED
        BY <4>2, <4>3 DEF NoLeadingZero
    <3>2. CASE s # << >>
      <4>1. t[1] = s[1]
        BY <3>2, <2>3, <2>5
      <4> QED
        BY <3>2, <4>1, <2>4 DEF NoLeadingZero
    <3> QED
      BY <3>1, <3>2
  <2> QED
    BY <2>6, <2>7, <2>8 DEF Good, t
<1>3. 0 \in S
  <2> HIDE DEF Good
  <2> QED
    BY <1>1
<1>4. ASSUME NEW m \in Nat, m \in S PROVE m + 1 \in S
  <2>1. Good(m + 1)
    BY <1>2, <1>4
  <2> HIDE DEF Good
  <2> QED
    BY <1>4, <2>1
<1>5. Nat \subseteq S
  <2> HIDE DEF S
  <2> QED
    BY <1>3, <1>4, ForEveryNumber
<1>6. Good(n)
  <2> HIDE DEF Good
  <2> QED
    BY <1>5
<1> QED
  BY <1>6

\* Digits that do not begin with a zero are the shortest.
LEMMA ShortestOfNumber ==
    ASSUME NEW base \in Nat \ {0, 1}, NEW s \in Seq(Digit(base)), NoLeadingZero(s)
    PROVE  shortest(number(s, base), base) = s
<1> DEFINE S == {t \in Seq(Digit(base)) : NoLeadingZero(t) => shortest(number(t, base), base) = t}
<1>1. << >> \in S
  BY ShortestStep, NumberOfNothing
<1>2. ASSUME NEW t \in Seq(Digit(base)), NEW d \in Digit(base), t \in S PROVE Append(t, d) \in S
  <2> SUFFICES ASSUME NoLeadingZero(Append(t, d))
               PROVE  shortest(number(Append(t, d), base), base) = Append(t, d)
    OBVIOUS
  <2>1. t \in Seq(Nat) /\ d \in Nat
    BY DEF Digit
  <2>2. NoLeadingZero(t)
    <3>1. t # << >> => Append(t, d)[1] = t[1] /\ Append(t, d) # << >>
      BY <2>1
    <3> QED
      BY <3>1 DEF NoLeadingZero
  <2> DEFINE n == number(t, base)
             m == number(Append(t, d), base)
  <2>3. n \in Nat /\ m = n * base + d /\ shortest(n, base) = t
    BY <2>1, <2>2, <1>2, NumberStep
  <2>4. m # 0
    <3>1. CASE n = 0
      <4>1. t = << >>
        BY <3>1, <2>3, ShortestStep
      <4>2. d # 0
        BY <4>1 DEF NoLeadingZero
      <4> HIDE DEF m, n
      <4> QED
        BY <3>1, <4>2, <2>1, <2>3
    <3>2. CASE n # 0
      <4> HIDE DEF m, n
      <4>1. n * base >= n
        BY <3>2, <2>3
      <4> QED
        BY <3>2, <4>1, <2>1, <2>3
    <3> QED
      BY <3>1, <3>2
  <2>5. m \div base = n /\ m % base = d
    <3> HIDE DEF m, n
    <3> QED
      BY <2>3, Dividing
  <2>6. m \in Nat \ {0}
    <3> HIDE DEF m, n
    <3>1. n * base \in Nat
      BY <2>3
    <3> QED
      BY <2>1, <2>3, <2>4, <3>1
  <2> HIDE DEF m, n
  <2>7. shortest(m, base) = Append(t, d)
    BY <2>3, <2>5, <2>6, ShortestStep
  <2> QED
    BY <2>7 DEF m
<1> HIDE DEF S
<1>3. Seq(Digit(base)) \subseteq S
  BY <1>1, <1>2, ForEveryText
<1> QED
  BY <1>3 DEF S

-----------------------------------------------------------------------------
(***************************************************************************)
(* Leading zeros add nothing to a number, and base58 carries them across.  *)
(***************************************************************************)
LEMMA ZeroDigits ==
    ASSUME NEW base \in Nat \ {0, 1}, NEW n \in Nat
    PROVE  /\ zero_digits(n) \in Seq(Digit(base)) /\ Len(zero_digits(n)) = n
           /\ \A i \in 1..n : zero_digits(n)[i] = 0
<1>1. 0 \in Digit(base)
  BY DEF Digit
<1>2. zero_digits(n) \in [1..n -> Digit(base)]
  BY <1>1 DEF zero_digits
<1>3. \A i \in 1..n : zero_digits(n)[i] = 0
  BY DEF zero_digits
<1> HIDE DEF zero_digits
<1> QED
  BY <1>2, <1>3

LEMMA ZerosAddNothing ==
    ASSUME NEW base \in Nat \ {0, 1}, NEW s \in Seq(Digit(base)), NEW n \in Nat
    PROVE  number(zero_digits(n) \o s, base) = number(s, base)
<1> DEFINE Z == {m \in Nat : number(zero_digits(m), base) = 0}
           S == {t \in Seq(Digit(base)) : number(zero_digits(n) \o t, base) = number(t, base)}
<1>1. 0 \in Z
  <2>1. zero_digits(0) = << >>
    BY DEF zero_digits
  <2> QED
    BY <2>1, NumberOfNothing
<1>2. ASSUME NEW m \in Nat, m \in Z PROVE m + 1 \in Z
  <2>1. zero_digits(m + 1) = Append(zero_digits(m), 0)
    BY DEF zero_digits
  <2>2. zero_digits(m) \in Seq(Nat)
    BY ZeroDigits DEF Digit
  <2>3. number(zero_digits(m + 1), base) = number(zero_digits(m), base) * base + 0
    <3>1. number(Append(zero_digits(m), 0), base) = number(zero_digits(m), base) * base + 0
      BY <2>2, NumberStep
    <3> QED
      BY <2>1, <3>1
  <2>4. number(zero_digits(m), base) = 0
    BY <1>2
  <2> QED
    BY <2>3, <2>4
<1>3. Nat \subseteq Z
  <2> HIDE DEF Z
  <2> QED
    BY <1>1, <1>2, ForEveryNumber
<1>4. << >> \in S
  <2>1. zero_digits(n) \o << >> = zero_digits(n)
    BY ZeroDigits
  <2> QED
    BY <1>3, <2>1, NumberOfNothing
<1>5. ASSUME NEW t \in Seq(Digit(base)), NEW d \in Digit(base), t \in S PROVE Append(t, d) \in S
  <2> DEFINE z == zero_digits(n)
  <2>1. z \in Seq(Nat) /\ t \in Seq(Nat) /\ d \in Nat
    <3>1. z \in Seq(Digit(base))
      BY ZeroDigits
    <3> HIDE DEF z
    <3> QED
      BY <3>1 DEF Digit
  <2>2. z \o Append(t, d) = Append(z \o t, d) /\ z \o t \in Seq(Nat)
    <3> HIDE DEF z
    <3> QED
      BY <2>1
  <2>3. number(z \o t, base) = number(t, base)
    BY <1>5
  <2> HIDE DEF z
  <2>4. number(z \o Append(t, d), base) = number(Append(t, d), base)
    <3>1. number(Append(z \o t, d), base) = number(z \o t, base) * base + d
      BY <2>1, <2>2, NumberStep
    <3>2. number(Append(t, d), base) = number(t, base) * base + d
      BY <2>1, NumberStep
    <3> QED
      BY <2>2, <2>3, <3>1, <3>2
  <2>5. Append(t, d) \in Seq(Digit(base))
    OBVIOUS
  <2> QED
    BY <2>4, <2>5 DEF z
<1>6. Seq(Digit(base)) \subseteq S
  <2> HIDE DEF S
  <2> QED
    BY <1>4, <1>5, ForEveryText
<1> QED
  BY <1>6

LEMMA ZerosBeforeDigits ==
    ASSUME NEW base \in Nat \ {0, 1}, NEW s \in Seq(Digit(base))
    PROVE  \E z \in Nat, r \in Seq(Digit(base)) : s = zero_digits(z) \o r /\ NoLeadingZero(r)
<1> DEFINE N == Len(s)
           S == {n \in 0..N : \A i \in 1..n : s[i] = 0}
           z == Max(S)
           r == SubSeq(s, z + 1, N)
<1>1. N \in Nat /\ s \in [1..N -> Digit(base)]
  OBVIOUS
<1>2. z \in S /\ \A n \in S : n =< z
  <2>1. 0 \in S /\ S \subseteq 0..N
    BY <1>1
  <2> HIDE DEF S
  <2> QED
    BY <1>1, <2>1, Greatest
<1>3. z \in 0..N /\ \A i \in 1..z : s[i] = 0
  BY <1>2
<1>4. z + 1 \in 1..N => s[z + 1] # 0
  <2> SUFFICES ASSUME z + 1 \in 1..N, s[z + 1] = 0 PROVE FALSE
    OBVIOUS
  <2>1. z + 1 \in S
    <3> HIDE DEF z
    <3> QED
      BY <1>1, <1>3
  <2> HIDE DEF z, S
  <2> QED
    BY <1>2, <1>3, <2>1
<1> HIDE DEF z, S
<1>5. /\ r \in Seq(Digit(base)) /\ Len(r) = N - z
      /\ \A i \in 1..(N - z) : r[i] = s[z + i]
  <2>1. N \in z..N /\ z \in 0..N /\ N \in Nat /\ Len(s) = N
    BY <1>1, <1>3
  <2>2. s \in Seq(Digit(base))
    OBVIOUS
  <2> HIDE DEF N
  <2> QED
    BY <2>1, <2>2, PartOf
<1> HIDE DEF r
<1>6. NoLeadingZero(r)
  <2> SUFFICES ASSUME r # << >> PROVE r[1] # 0
    BY DEF NoLeadingZero
  <2>1. 1 \in 1..(N - z)
    BY <1>1, <1>3, <1>5
  <2> QED
    BY <2>1, <1>1, <1>3, <1>4, <1>5
<1> DEFINE o == zero_digits(z)
<1>7. o \in Seq(Digit(base)) /\ Len(o) = z /\ \A i \in 1..z : o[i] = 0
  BY <1>3, ZeroDigits
<1> HIDE DEF o
<1>8. s = o \o r
  <2>1. o \o r \in Seq(Digit(base)) /\ Len(o \o r) = N
    <3>1. o \o r \in Seq(Digit(base)) /\ Len(o \o r) = Len(o) + Len(r)
      BY <1>5, <1>7, OneAfterAnother
    <3> QED
      BY <3>1, <1>1, <1>3, <1>5, <1>7
  <2>2. ASSUME NEW i \in 1..N PROVE (o \o r)[i] = s[i]
    <3>1. CASE i \in 1..z
      BY <3>1, <1>3, <1>5, <1>7
    <3>2. CASE i \notin 1..z
      <4>1. i - z \in 1..(N - z)
        BY <3>2, <1>1, <1>3
      <4>2. (o \o r)[i] = r[i - z]
        BY <4>1, <1>1, <1>3, <1>5, <1>7
      <4> QED
        BY <4>1, <4>2, <1>1, <1>3, <1>5
    <3> QED
      BY <3>1, <3>2
  <2>3. PICK t : t = o \o r
    OBVIOUS
  <2>4. t \in Seq(Digit(base)) /\ Len(t) = N /\ \A i \in 1..N : t[i] = s[i]
    BY <2>1, <2>2, <2>3
  <2>5. t \in [1..N -> Digit(base)]
    BY <2>4
  <2>6. t = s
    BY <1>1, <2>4, <2>5
  <2> QED
    BY <2>3, <2>6
<1>9. z \in Nat
  BY <1>1, <1>3
<1> QED
  BY <1>5, <1>6, <1>8, <1>9, Zenon DEF o

LEMMA LeadingZeros ==
    ASSUME NEW base \in Nat \ {0, 1}, NEW r \in Seq(Digit(base)), NoLeadingZero(r), NEW z \in Nat
    PROVE  leading_zero_digits(zero_digits(z) \o r) = z
<1> DEFINE o == zero_digits(z)
           s == o \o r
           S == {n \in 0..Len(s) : \A i \in 1..n : s[i] = 0}
<1>1. o \in Seq(Digit(base)) /\ Len(o) = z /\ \A i \in 1..z : o[i] = 0
  BY ZeroDigits
<1>2. leading_zero_digits(s) = Max(S)
  BY DEF leading_zero_digits
<1> HIDE DEF o
<1>3. /\ s \in Seq(Digit(base)) /\ Len(s) = z + Len(r) /\ Len(r) \in Nat
      /\ \A i \in 1..z : s[i] = 0
      /\ r # << >> => s[z + 1] = r[1] /\ Len(r) > 0
  BY <1>1
<1> HIDE DEF s
<1>4. z \in S
  BY <1>3
<1>5. ASSUME NEW n \in S PROVE n =< z
  <2> SUFFICES ASSUME n > z PROVE FALSE
    BY <1>3
  <2>1. z + 1 \in 1..n /\ r # << >>
    BY <1>3
  <2> QED
    BY <2>1, <1>3 DEF NoLeadingZero
<1>6. Max(S) \in S /\ z =< Max(S)
  <2>1. S \subseteq 0..Len(s) /\ Len(s) \in Nat
    BY <1>3
  <2> HIDE DEF S
  <2> QED
    BY <2>1, <1>4, Greatest
<1>7. Max(S) =< z /\ Max(S) \in Int
  <2>1. S \subseteq Int
    BY <1>3
  <2> HIDE DEF S
  <2> QED
    BY <1>5, <1>6, <2>1
<1> HIDE DEF S
<1> QED
  BY <1>2, <1>6, <1>7 DEF s, o

in_base(s, b, c) == zero_digits(leading_zero_digits(s)) \o shortest(number(s, b), c)

LEMMA BackAgain ==
    ASSUME NEW b \in Nat \ {0, 1}, NEW c \in Nat \ {0, 1}, NEW s \in Seq(Digit(b))
    PROVE  in_base(s, b, c) \in Seq(Digit(c)) /\ in_base(in_base(s, b, c), c, b) = s
<1>1. PICK z, r : z \in Nat /\ r \in Seq(Digit(b)) /\ s = zero_digits(z) \o r /\ NoLeadingZero(r)
  BY ZerosBeforeDigits
<1>2. leading_zero_digits(s) = z /\ number(s, b) = number(r, b)
  BY <1>1, LeadingZeros, ZerosAddNothing
<1>3. number(r, b) \in Nat
  <2>1. r \in Seq(Nat)
    BY <1>1 DEF Digit
  <2> QED
    BY <2>1, NumberStep
<1> DEFINE q == shortest(number(r, b), c)
<1>4. q \in Seq(Digit(c)) /\ NoLeadingZero(q) /\ number(q, c) = number(r, b)
  BY <1>3, ShortestIs
<1>5. in_base(s, b, c) = zero_digits(z) \o q
  BY <1>2 DEF in_base
<1> HIDE DEF q
<1>6. leading_zero_digits(zero_digits(z) \o q) = z /\ number(zero_digits(z) \o q, c) = number(q, c)
  BY <1>1, <1>4, LeadingZeros, ZerosAddNothing
<1>7. in_base(zero_digits(z) \o q, c, b) = zero_digits(z) \o shortest(number(r, b), b)
  BY <1>4, <1>6 DEF in_base
<1>8. shortest(number(r, b), b) = r
  BY <1>1, ShortestOfNumber
<1>9. zero_digits(z) \in Seq(Digit(c))
  BY <1>1, ZeroDigits
<1>10. zero_digits(z) \o q \in Seq(Digit(c))
  BY <1>4, <1>9
<1> QED
  BY <1>1, <1>5, <1>7, <1>8, <1>10

-----------------------------------------------------------------------------
(***************************************************************************)
(* Base64: symbols as pairs of bits, and pairs of bits as symbols.         *)
(***************************************************************************)
Each == {3, 4}

top(each) == IF each = 3 THEN Base64 ELSE ByteBase

\* A tuple and one item more.
LEMMA TwoItems ==
    ASSUME NEW a, NEW b
    PROVE  Append(<<a>>, b) = <<a, b>>
<1> DEFINE C == {a, b}
<1>1. <<a>> \in Seq(C) /\ <<a, b>> \in Seq(C) /\ b \in C
  OBVIOUS
<1> HIDE DEF C
<1>2. /\ Append(<<a>>, b) \in Seq(C) /\ Len(Append(<<a>>, b)) = 2
      /\ Append(<<a>>, b)[1] = a
      /\ Append(<<a>>, b)[2] = b
  BY <1>1, AppendProperties
<1>3. Len(<<a, b>>) = 2 /\ <<a, b>>[1] = a /\ <<a, b>>[2] = b
  OBVIOUS
<1>4. Len(Append(<<a>>, b)) = Len(<<a, b>>) /\ \A i \in 1..Len(Append(<<a>>, b)) : Append(<<a>>, b)[i] = <<a, b>>[i]
  <2>1. 1..Len(Append(<<a>>, b)) = {1, 2}
    BY <1>2
  <2> QED
    BY <1>2, <1>3, <2>1
<1> QED
  BY <1>1, <1>2, <1>4, SeqEqual

LEMMA ThreeItems ==
    ASSUME NEW a, NEW b, NEW c
    PROVE  Append(<<a, b>>, c) = <<a, b, c>>
<1> DEFINE C == {a, b, c}
<1>1. <<a, b>> \in Seq(C) /\ <<a, b, c>> \in Seq(C) /\ c \in C
  OBVIOUS
<1> HIDE DEF C
<1>2. /\ Append(<<a, b>>, c) \in Seq(C) /\ Len(Append(<<a, b>>, c)) = 3
      /\ Append(<<a, b>>, c)[1] = a
      /\ Append(<<a, b>>, c)[2] = b
      /\ Append(<<a, b>>, c)[3] = c
  BY <1>1, AppendProperties
<1>3. Len(<<a, b, c>>) = 3 /\ <<a, b, c>>[1] = a /\ <<a, b, c>>[2] = b /\ <<a, b, c>>[3] = c
  OBVIOUS
<1>4. Len(Append(<<a, b>>, c)) = Len(<<a, b, c>>) /\ \A i \in 1..Len(Append(<<a, b>>, c)) : Append(<<a, b>>, c)[i] = <<a, b, c>>[i]
  <2>1. 1..Len(Append(<<a, b>>, c)) = {1, 2, 3}
    BY <1>2
  <2> QED
    BY <1>2, <1>3, <2>1
<1> QED
  BY <1>1, <1>2, <1>4, SeqEqual

LEMMA FourItems ==
    ASSUME NEW a, NEW b, NEW c, NEW d
    PROVE  Append(<<a, b, c>>, d) = <<a, b, c, d>>
<1> DEFINE C == {a, b, c, d}
<1>1. <<a, b, c>> \in Seq(C) /\ <<a, b, c, d>> \in Seq(C) /\ d \in C
  OBVIOUS
<1> HIDE DEF C
<1>2. /\ Append(<<a, b, c>>, d) \in Seq(C) /\ Len(Append(<<a, b, c>>, d)) = 4
      /\ Append(<<a, b, c>>, d)[1] = a
      /\ Append(<<a, b, c>>, d)[2] = b
      /\ Append(<<a, b, c>>, d)[3] = c
      /\ Append(<<a, b, c>>, d)[4] = d
  BY <1>1, AppendProperties
<1>3. Len(<<a, b, c, d>>) = 4 /\ <<a, b, c, d>>[1] = a /\ <<a, b, c, d>>[2] = b /\ <<a, b, c, d>>[3] = c /\ <<a, b, c, d>>[4] = d
  OBVIOUS
<1>4. Len(Append(<<a, b, c>>, d)) = Len(<<a, b, c, d>>) /\ \A i \in 1..Len(Append(<<a, b, c>>, d)) : Append(<<a, b, c>>, d)[i] = <<a, b, c, d>>[i]
  <2>1. 1..Len(Append(<<a, b, c>>, d)) = {1, 2, 3, 4}
    BY <1>2
  <2> QED
    BY <1>2, <1>3, <2>1
<1> QED
  BY <1>1, <1>2, <1>4, SeqEqual

LEMMA NumberOfThree ==
    ASSUME NEW a \in Nat, NEW b \in Nat, NEW c \in Nat
    PROVE  number(<<a, b, c>>, Pair) = (a * Pair + b) * Pair + c
<1>1. Pair \in Nat
  BY KeyTextAssumption
<1>2. << >> \in Seq(Nat) /\ <<a>> \in Seq(Nat) /\ <<a, b>> \in Seq(Nat)
  OBVIOUS
<1>3. number(Append(<< >>, a), Pair) = number(<< >>, Pair) * Pair + a
  BY <1>1, <1>2, NumberStep
<1>4. number(Append(<<a>>, b), Pair) = number(<<a>>, Pair) * Pair + b
  BY <1>1, <1>2, NumberStep
<1>5. number(Append(<<a, b>>, c), Pair) = number(<<a, b>>, Pair) * Pair + c
  BY <1>1, <1>2, NumberStep
<1>6. number(<<a>>, Pair) = a
  <2>1. Append(<< >>, a) = <<a>>
    OBVIOUS
  <2>2. number(<<a>>, Pair) = 0 * Pair + a
    BY <1>1, <1>3, <2>1, NumberOfNothing
  <2> QED
    BY <2>2, <1>1
<1>7. number(<<a, b>>, Pair) = a * Pair + b
  BY <1>4, <1>6, TwoItems, Zenon
<1> QED
  BY <1>5, <1>7, ThreeItems, Zenon

LEMMA NumberOfFour ==
    ASSUME NEW a \in Nat, NEW b \in Nat, NEW c \in Nat, NEW d \in Nat
    PROVE  number(<<a, b, c, d>>, Pair) = ((a * Pair + b) * Pair + c) * Pair + d
<1>1. Pair \in Nat /\ <<a, b, c>> \in Seq(Nat)
  BY KeyTextAssumption
<1>2. number(Append(<<a, b, c>>, d), Pair) = number(<<a, b, c>>, Pair) * Pair + d
  BY <1>1, NumberStep
<1>3. number(<<a, b, c>>, Pair) = (a * Pair + b) * Pair + c
  BY NumberOfThree
<1>4. Append(<<a, b, c>>, d) = <<a, b, c, d>>
  BY FourItems
<1> QED
  BY <1>2, <1>3, <1>4, Zenon

\* A digit more.
LEMMA OneDigitMore ==
    ASSUME NEW m \in Nat, NEW n \in 0..(m - 1), NEW d \in Digit(Pair)
    PROVE  /\ n * Pair + d \in 0..(m * Pair - 1)
           /\ (n * Pair + d) \div Pair = n /\ (n * Pair + d) % Pair = d
<1>1. Pair \in Nat \ {0, 1} /\ d \in 0..(Pair - 1) /\ n \in Nat
  BY KeyTextAssumption DEF Digit
<1>2. (n * Pair + d) \div Pair = n /\ (n * Pair + d) % Pair = d
  BY <1>1, Dividing
<1>3. (m - 1 - n) * Pair >= 0
  BY <1>1
<1>4. (m - 1 - n) * Pair = m * Pair - Pair - n * Pair
  BY <1>1
<1>5. n * Pair >= 0 /\ n * Pair \in Int /\ m * Pair \in Int
  BY <1>1
<1>6. n * Pair + d \in 0..(m * Pair - 1)
  BY <1>1, <1>3, <1>4, <1>5
<1> QED
  BY <1>2, <1>6

\* A digit less.
LEMMA OneDigitLess ==
    ASSUME NEW m \in Nat, NEW n \in 0..(m * Pair - 1)
    PROVE  /\ n \div Pair \in 0..(m - 1) /\ n % Pair \in Digit(Pair)
           /\ (n \div Pair) * Pair + (n % Pair) = n
<1>1. Pair \in Nat \ {0, 1}
  BY KeyTextAssumption
<1>2. m * Pair \in Nat /\ n \in Nat
  BY <1>1
<1> DEFINE q == n \div Pair
           r == n % Pair
<1>3. q \in Nat /\ r \in Digit(Pair) /\ n = q * Pair + r
  BY <1>1, <1>2, Divided
<1> HIDE DEF q, r
<1>4. q < m
  <2> SUFFICES ASSUME q >= m PROVE FALSE
    BY <1>3
  <2>1. (q - m) * Pair >= 0
    BY <1>1, <1>3
  <2>2. (q - m) * Pair = q * Pair - m * Pair
    BY <1>1, <1>3
  <2>3. q * Pair \in Int /\ r >= 0 /\ r \in Int
    BY <1>1, <1>3 DEF Digit
  <2> QED
    BY <2>1, <2>2, <2>3, <1>2, <1>3
<1> QED
  BY <1>3, <1>4 DEF q, r

\* A symbol is the number of its pairs, and gives them back.
LEMMA PairsOfSymbol ==
    ASSUME NEW each \in Each, NEW p \in [1..each -> Digit(Pair)]
    PROVE  /\ number(p, Pair) \in 0..(top(each) - 1)
           /\ \A j \in 1..each : pair_of(number(p, Pair), each - j) = p[j]
<1>1. Pair \in Nat \ {0, 1}
  BY KeyTextAssumption
<1>2. each \in Nat /\ p[1] \in Digit(Pair) /\ p[2] \in Digit(Pair) /\ p[3] \in Digit(Pair)
  BY DEF Each
<1> DEFINE a == p[1] * Pair + p[2]
           b == a * Pair + p[3]
           c == b * Pair + p[4]
<1>p. p[1] \in Nat /\ p[2] \in Nat /\ p[3] \in Nat /\ p[1] \in 0..(Pair - 1)
  BY <1>2 DEF Digit
<1>3. a \in 0..(Pair * Pair - 1) /\ a \div Pair = p[1] /\ a % Pair = p[2]
  BY <1>1, <1>2, <1>p, OneDigitMore
<1> HIDE DEF a
<1>q. Pair * Pair \in Nat /\ Base64 \in Nat /\ p[1] % Pair = p[1]
  <2>1. Pair * Pair \in Nat
    BY <1>1
  <2>2. p[1] % Pair = p[1]
    BY <1>1, <1>p
  <2> QED
    BY <1>1, <2>1, <2>2 DEF Base64
<1>4. b \in 0..(Base64 - 1) /\ b \div Pair = a /\ b % Pair = p[3]
  BY <1>q, <1>2, <1>3, OneDigitMore DEF Base64
<1> HIDE DEF b
<1>5. CASE each = 3
  <2>1. p = <<p[1], p[2], p[3]>>
    BY <1>5
  <2>2. number(<<p[1], p[2], p[3]>>, Pair) = b
    BY <1>p, NumberOfThree DEF a, b
  <2>3. number(p, Pair) = b
    BY <2>1, <2>2
  <2>4. pair_of(b, 2) = p[1] /\ pair_of(b, 1) = p[2] /\ pair_of(b, 0) = p[3]
    BY <1>3, <1>4, <1>q DEF pair_of
  <2>5. ASSUME NEW j \in 1..each PROVE pair_of(b, each - j) = p[j]
    <3>1. j = 1 \/ j = 2 \/ j = 3
      BY <1>5
    <3> QED
      BY <2>4, <3>1, <1>5
  <2> QED
    BY <2>3, <2>5, <1>4, <1>5 DEF top
<1>6. CASE each = 4
  <2>1. p = <<p[1], p[2], p[3], p[4]>> /\ p[4] \in Digit(Pair) /\ p[4] \in Nat
    BY <1>6 DEF Digit
  <2>2. number(<<p[1], p[2], p[3], p[4]>>, Pair) = c
    BY <1>p, <2>1, NumberOfFour DEF a, b
  <2>3. number(p, Pair) = c
    BY <2>1, <2>2
  <2>c. c \in 0..(ByteBase - 1) /\ c \div Pair = b /\ c % Pair = p[4]
    BY <1>q, <1>4, <2>1, OneDigitMore DEF ByteBase, Base64
  <2> HIDE DEF c
  <2>4. pair_of(c, 3) = p[1] /\ pair_of(c, 2) = p[2] /\ pair_of(c, 1) = p[3] /\ pair_of(c, 0) = p[4]
    BY <1>3, <1>4, <1>q, <2>c DEF pair_of
  <2>5. ASSUME NEW j \in 1..each PROVE pair_of(c, each - j) = p[j]
    <3>1. j = 1 \/ j = 2 \/ j = 3 \/ j = 4
      BY <1>6
    <3> QED
      BY <2>4, <3>1, <1>6
  <2> QED
    BY <2>3, <2>5, <2>c, <1>6 DEF top
<1> QED
  BY <1>5, <1>6 DEF Each

\* The pairs of a symbol are pairs, and make it again.
LEMMA SymbolOfPairs ==
    ASSUME NEW each \in Each, NEW v \in 0..(top(each) - 1)
    PROVE  /\ \A j \in 1..each : pair_of(v, each - j) \in Digit(Pair)
           /\ number([j \in 1..each |-> pair_of(v, each - j)], Pair) = v
<1>1. Pair \in Nat \ {0, 1} /\ Pair * Pair \in Nat /\ Base64 \in Nat
  <2>1. Pair \in Nat \ {0, 1} /\ Pair * Pair \in Nat
    BY KeyTextAssumption
  <2> QED
    BY <2>1 DEF Base64
<1> DEFINE p(x) == <<x, x \div Pair, (x \div Pair) \div Pair, ((x \div Pair) \div Pair) \div Pair>>
<1>2. ASSUME NEW x \in 0..(Base64 - 1)
      PROVE  /\ pair_of(x, 2) \in Digit(Pair) /\ pair_of(x, 1) \in Digit(Pair) /\ pair_of(x, 0) \in Digit(Pair)
             /\ (pair_of(x, 2) * Pair + pair_of(x, 1)) * Pair + pair_of(x, 0) = x
  <2> DEFINE y == x \div Pair
             z == y \div Pair
  <2>1. y \in 0..(Pair * Pair - 1) /\ pair_of(x, 0) \in Digit(Pair) /\ y * Pair + pair_of(x, 0) = x
    <3>1. x \in 0..((Pair * Pair) * Pair - 1) /\ pair_of(x, 0) = x % Pair
      BY DEF Base64, pair_of
    <3> QED
      BY <1>1, <3>1, OneDigitLess
  <2>2. z \in 0..(Pair - 1) /\ y % Pair \in Digit(Pair) /\ z * Pair + (y % Pair) = y
    <3> HIDE DEF y
    <3> QED
      BY <1>1, <2>1, OneDigitLess
  <2>3. pair_of(x, 1) = y % Pair /\ pair_of(x, 2) = z % Pair
    BY DEF pair_of
  <2> HIDE DEF y, z
  <2>4. z % Pair = z /\ z \in Digit(Pair)
    BY <1>1, <2>2 DEF Digit
  <2> QED
    BY <2>1, <2>2, <2>3, <2>4
<1>3. CASE each = 3
  <2>1. v \in 0..(Base64 - 1)
    BY <1>3 DEF top
  <2>2. [j \in 1..each |-> pair_of(v, each - j)] = <<pair_of(v, 2), pair_of(v, 1), pair_of(v, 0)>>
    BY <1>3
  <2>3. \A j \in 1..each : pair_of(v, each - j) \in Digit(Pair)
    <3> SUFFICES ASSUME NEW j \in 1..each PROVE pair_of(v, each - j) \in Digit(Pair)
      OBVIOUS
    <3>1. each - j \in {0, 1, 2}
      BY <1>3
    <3> QED
      BY <1>2, <2>1, <3>1
  <2>4. number(<<pair_of(v, 2), pair_of(v, 1), pair_of(v, 0)>>, Pair) = v
    <3>1. pair_of(v, 2) \in Nat /\ pair_of(v, 1) \in Nat /\ pair_of(v, 0) \in Nat
      BY <1>2, <2>1 DEF Digit
    <3>2. number(<<pair_of(v, 2), pair_of(v, 1), pair_of(v, 0)>>, Pair)
            = (pair_of(v, 2) * Pair + pair_of(v, 1)) * Pair + pair_of(v, 0)
      BY <3>1, NumberOfThree, Zenon
    <3> QED
      BY <3>2, <1>2, <2>1
  <2> QED
    BY <2>2, <2>3, <2>4
<1>4. CASE each = 4
  <2> DEFINE w == v \div Pair
  <2>1. w \in 0..(Base64 - 1) /\ pair_of(v, 0) \in Digit(Pair) /\ w * Pair + pair_of(v, 0) = v
    <3>1. v \in 0..(Base64 * Pair - 1) /\ pair_of(v, 0) = v % Pair
      BY <1>4 DEF Base64, ByteBase, pair_of, top
    <3> QED
      BY <1>1, <3>1, OneDigitLess
  <2>2. pair_of(v, 1) = pair_of(w, 0) /\ pair_of(v, 2) = pair_of(w, 1) /\ pair_of(v, 3) = pair_of(w, 2)
    BY DEF pair_of
  <2> HIDE DEF w
  <2>3. [j \in 1..each |-> pair_of(v, each - j)]
          = <<pair_of(v, 3), pair_of(v, 2), pair_of(v, 1), pair_of(v, 0)>>
    BY <1>4
  <2>4. \A j \in 1..each : pair_of(v, each - j) \in Digit(Pair)
    <3> SUFFICES ASSUME NEW j \in 1..each PROVE pair_of(v, each - j) \in Digit(Pair)
      OBVIOUS
    <3>1. each - j \in {0, 1, 2, 3}
      BY <1>4
    <3> QED
      BY <1>2, <2>1, <2>2, <3>1
  <2>5. number(<<pair_of(v, 3), pair_of(v, 2), pair_of(v, 1), pair_of(v, 0)>>, Pair) = v
    <3>1. pair_of(v, 3) \in Nat /\ pair_of(v, 2) \in Nat /\ pair_of(v, 1) \in Nat /\ pair_of(v, 0) \in Nat
      BY <1>2, <2>1, <2>2 DEF Digit
    <3>2. number(<<pair_of(v, 3), pair_of(v, 2), pair_of(v, 1), pair_of(v, 0)>>, Pair)
            = ((pair_of(v, 3) * Pair + pair_of(v, 2)) * Pair + pair_of(v, 1)) * Pair + pair_of(v, 0)
      BY <3>1, NumberOfFour
    <3>3. (pair_of(v, 3) * Pair + pair_of(v, 2)) * Pair + pair_of(v, 1) = w
      BY <1>2, <2>1, <2>2
    <3> QED
      BY <2>1, <3>2, <3>3
  <2> QED
    BY <2>3, <2>4, <2>5
<1> QED
  BY <1>3, <1>4 DEF Each

Symbols(each) == 0..(top(each) - 1)

\* Where the pairs of a symbol are.
LEMMA PlaceOfPair ==
    ASSUME NEW each \in Each, NEW n \in Nat
    PROVE  /\ each * n \in Nat
           /\ \A k \in 1..(each * n) :
                 /\ (k - 1) \div each + 1 \in 1..n /\ ((k - 1) % each) + 1 \in 1..each
                 /\ k = each * (((k - 1) \div each + 1) - 1) + (((k - 1) % each) + 1)
           /\ \A i \in 1..n, j \in 1..each :
                 /\ each * (i - 1) + j \in 1..(each * n)
                 /\ ((each * (i - 1) + j) - 1) \div each + 1 = i
                 /\ ((each * (i - 1) + j) - 1) % each = j - 1
<1>1. CASE each = 3
  BY <1>1
<1>2. CASE each = 4
  BY <1>2
<1> QED
  BY <1>1, <1>2 DEF Each

LEMMA PlaceOf ==
    ASSUME NEW each \in Each, NEW n \in Nat, NEW i \in 1..n, NEW j \in 1..each
    PROVE  /\ each * (i - 1) + j \in 1..(each * n)
           /\ ((each * (i - 1) + j) - 1) \div each + 1 = i
           /\ ((each * (i - 1) + j) - 1) % each = j - 1
  BY PlaceOfPair, Zenon

LEMMA TakenApart ==
    ASSUME NEW each \in Each, NEW n \in Nat, NEW s \in Seq(Symbols(each)), Len(s) = n
    PROVE  /\ taken_apart(s, each) \in Seq(Digit(Pair)) /\ Len(taken_apart(s, each)) = each * n
           /\ \A i \in 1..n, j \in 1..each :
                 taken_apart(s, each)[each * (i - 1) + j] = pair_of(s[i], each - j)
<1> DEFINE t == taken_apart(s, each)
           at(k) == (k - 1) \div each + 1
           in(k) == (k - 1) % each
<1>1. each * n \in Nat /\ each \in Nat
  BY PlaceOfPair DEF Each
<1>2. t = [k \in 1..(each * n) |-> pair_of(s[at(k)], each - 1 - in(k))]
  BY DEF taken_apart
<1>3. ASSUME NEW k \in 1..(each * n) PROVE pair_of(s[at(k)], each - 1 - in(k)) \in Digit(Pair)
  <2>1. at(k) \in 1..n /\ in(k) + 1 \in 1..each
    BY PlaceOfPair
  <2> HIDE DEF at, in
  <2>2. s[at(k)] \in Symbols(each)
    BY <2>1
  <2>3. each - (in(k) + 1) = each - 1 - in(k)
    <3>1. (k - 1) % each \in Int
      BY DEF Each
    <3> QED
      BY <1>1, <3>1 DEF in
  <2> QED
    BY <2>1, <2>2, <2>3, SymbolOfPairs DEF Symbols
<1>4. t \in [1..(each * n) -> Digit(Pair)]
  <2> HIDE DEF t, at, in
  <2> QED
    BY <1>2, <1>3
<1>5. ASSUME NEW i \in 1..n, NEW j \in 1..each PROVE t[each * (i - 1) + j] = pair_of(s[i], each - j)
  <2> DEFINE k == each * (i - 1) + j
  <2>1. k \in 1..(each * n) /\ at(k) = i /\ in(k) = j - 1
    <3>1. /\ k \in 1..(each * n)
          /\ (k - 1) \div each + 1 = i /\ (k - 1) % each = j - 1
      BY PlaceOf
    <3> HIDE DEF k
    <3> QED
      BY <3>1
  <2>2. each - 1 - (j - 1) = each - j
    BY <1>1
  <2> HIDE DEF k, t, at, in
  <2>3. t[k] = pair_of(s[at(k)], each - 1 - in(k))
    BY <1>2, <2>1
  <2> QED
    BY <2>1, <2>2, <2>3 DEF k
<1>6. t \in Seq(Digit(Pair)) /\ Len(t) = each * n
  <2> HIDE DEF t
  <2> QED
    BY <1>1, <1>4
<1> QED
  BY <1>5, <1>6

LEMMA PutTogether ==
    ASSUME NEW each \in Each, NEW pairs \in Seq(Digit(Pair)), NEW n \in Nat
    PROVE  /\ put_together(pairs, each, n) \in Seq(Symbols(each))
           /\ Len(put_together(pairs, each, n)) = n
           /\ \A k \in 1..(each * n) : k =< Len(pairs) =>
                 taken_apart(put_together(pairs, each, n), each)[k] = pairs[k]
<1> DEFINE t == put_together(pairs, each, n)
           pair(k) == IF k \in DOMAIN pairs THEN pairs[k] ELSE 0
           p(i) == [j \in 1..each |-> pair(each * (i - 1) + j)]
<1>1. t = [i \in 1..n |-> number(p(i), Pair)]
  BY DEF put_together
<1>2. ASSUME NEW i PROVE p(i) \in [1..each -> Digit(Pair)]
  <2>1. 0 \in Digit(Pair)
    BY KeyTextAssumption DEF Digit
  <2>2. ASSUME NEW k PROVE pair(k) \in Digit(Pair)
    <3>1. pairs \in [DOMAIN pairs -> Digit(Pair)]
      OBVIOUS
    <3> QED
      BY <2>1, <3>1
  <2> HIDE DEF pair
  <2> QED
    BY <2>2
<1> HIDE DEF p, pair, t
<1>3. t \in [1..n -> Symbols(each)]
  BY <1>1, <1>2, PairsOfSymbol DEF Symbols
<1>4. t \in Seq(Symbols(each)) /\ Len(t) = n
  BY <1>3
<1>5. ASSUME NEW k \in 1..(each * n), k =< Len(pairs) PROVE taken_apart(t, each)[k] = pairs[k]
  <2> DEFINE i == (k - 1) \div each + 1
             j == ((k - 1) % each) + 1
  <2>1. i \in 1..n /\ j \in 1..each /\ k = each * (i - 1) + j
    BY PlaceOfPair
  <2> HIDE DEF i, j
  <2>2. taken_apart(t, each)[each * (i - 1) + j] = pair_of(t[i], each - j)
    BY <1>4, <2>1, TakenApart
  <2>3. t[i] = number(p(i), Pair)
    BY <1>1, <2>1
  <2>4. pair_of(number(p(i), Pair), each - j) = p(i)[j]
    BY <1>2, <2>1, PairsOfSymbol
  <2>5. p(i)[j] = pair(each * (i - 1) + j)
    BY <2>1 DEF p
  <2>6. pair(k) = pairs[k]
    <3>1. k \in DOMAIN pairs
      BY <1>5, PlaceOfPair
    <3> QED
      BY <3>1 DEF pair
  <2> QED
    BY <2>1, <2>2, <2>3, <2>4, <2>5, <2>6, Zenon
<1> QED
  BY <1>4, <1>5 DEF t

\* Symbols taken apart, and as many put together of the pairs or of more.
LEMMA TogetherAgain ==
    ASSUME NEW each \in Each, NEW n \in Nat, NEW s \in Seq(Symbols(each)), Len(s) = n,
           NEW pairs \in Seq(Digit(Pair)), Len(pairs) >= each * n,
           \A k \in 1..(each * n) : pairs[k] = taken_apart(s, each)[k]
    PROVE  put_together(pairs, each, n) = s
<1> DEFINE pair(k) == IF k \in DOMAIN pairs THEN pairs[k] ELSE 0
           p(i) == [j \in 1..each |-> pair(each * (i - 1) + j)]
           t == put_together(pairs, each, n)
<1>1. t = [i \in 1..n |-> number(p(i), Pair)]
  BY DEF put_together
<1>2. ASSUME NEW i \in 1..n PROVE number(p(i), Pair) = s[i]
  <2> DEFINE q == [j \in 1..each |-> pair_of(s[i], each - j)]
  <2>1. ASSUME NEW j \in 1..each PROVE pair(each * (i - 1) + j) = pair_of(s[i], each - j)
    <3> DEFINE k == each * (i - 1) + j
    <3>1. k \in 1..(each * n) /\ each * n \in Nat
      BY PlaceOfPair
    <3>2. taken_apart(s, each)[k] = pair_of(s[i], each - j)
      BY TakenApart
    <3> HIDE DEF k
    <3>3. pairs[k] = taken_apart(s, each)[k]
      BY <3>1
    <3>4. k \in DOMAIN pairs
      BY <3>1
    <3>5. pair(k) = pairs[k]
      BY <3>4
    <3> HIDE DEF pair
    <3> QED
      BY <3>2, <3>3, <3>5 DEF k
  <2>2. p(i) = q
    <3> HIDE DEF pair
    <3> QED
      BY <2>1
  <2>3. s[i] \in Symbols(each)
    OBVIOUS
  <2>4. number(q, Pair) = s[i]
    BY <2>3, SymbolOfPairs DEF Symbols
  <2> HIDE DEF p, q
  <2> QED
    BY <2>2, <2>4
<1> HIDE DEF t, p, pair
<1>3. t \in [1..n -> Symbols(each)] /\ \A i \in 1..n : t[i] = s[i]
  BY <1>1, <1>2
<1>4. s \in [1..n -> Symbols(each)]
  OBVIOUS
<1>5. t = s
  BY <1>3, <1>4
<1> QED
  BY <1>5 DEF t

\* What is encoded decodes to itself.
LEMMA Base64Back ==
    ASSUME NEW raw \in Bytes
    PROVE  /\ urlsafe_b64encode(raw) \in Seq(Digit(Base64))
           /\ b64decode(urlsafe_b64encode(raw)) = raw
<1> DEFINE N == Len(raw)
           n == (4 * N + 2) \div 3
           pairs == taken_apart(raw, 4)
           text == urlsafe_b64encode(raw)
           again == taken_apart(text, 3)
<1>1. /\ 3 \in Each /\ 4 \in Each /\ top(3) = Base64 /\ top(4) = ByteBase
      /\ N \in Nat /\ raw \in Seq(Symbols(4))
  BY DEF Each, top, Bytes, Symbols
<1>2. n \in Nat /\ 3 * n >= 4 * N /\ (3 * n) \div 4 = N /\ n % 4 # 1
  <2> HIDE DEF N
  <2> QED
    BY <1>1
<1>3. pairs \in Seq(Digit(Pair)) /\ Len(pairs) = 4 * N
  BY <1>1, TakenApart
<1>4. text = put_together(pairs, 3, n)
  BY DEF urlsafe_b64encode
<1> HIDE DEF N, n, pairs, text
<1>5. /\ text \in Seq(Symbols(3)) /\ Len(text) = n
      /\ \A k \in 1..(3 * n) : k =< Len(pairs) => again[k] = pairs[k]
  BY <1>1, <1>2, <1>3, <1>4, PutTogether
<1>6. again \in Seq(Digit(Pair)) /\ Len(again) = 3 * n
  BY <1>1, <1>2, <1>5, TakenApart
<1> HIDE DEF again
<1>7. put_together(again, 4, N) = raw
  <2>1. \A k \in 1..(4 * N) : again[k] = pairs[k]
    <3> SUFFICES ASSUME NEW k \in 1..(4 * N) PROVE again[k] = pairs[k]
      OBVIOUS
    <3>1. k \in 1..(3 * n) /\ k =< Len(pairs)
      BY <1>1, <1>2, <1>3
    <3> QED
      BY <3>1, <1>5
  <2>2. Len(again) >= 4 * N /\ Len(raw) = N
    BY <1>2, <1>6 DEF N
  <2> QED
    BY <1>1, <1>6, <2>1, <2>2, TogetherAgain DEF pairs
<1>8. InAlphabet(text, Base64)
  <2>1. \A i \in DOMAIN text : text[i] \in Symbols(3)
    BY <1>5
  <2> QED
    BY <1>1, <2>1 DEF InAlphabet, Symbols
<1>9. b64decode(text) = put_together(again, 4, N)
  BY <1>2, <1>5, <1>8 DEF b64decode, again
<1>10. text \in Seq(Digit(Base64))
  BY <1>1, <1>5 DEF Digit, Symbols
<1> QED
  BY <1>7, <1>9, <1>10 DEF text

-----------------------------------------------------------------------------
(***************************************************************************)
(* Keys and signatures, written and read.                                  *)
(***************************************************************************)

\* A text that begins with another is it and what follows.
LEMMA PrefixAndRest ==
    ASSUME NEW C, NEW s \in Seq(C), NEW t \in Seq(C)
    PROVE  /\ IsPrefix(s, s \o t) /\ SubSeq(s \o t, Len(s) + 1, Len(s \o t)) = t
           /\ \A u \in Seq(C) : IsPrefix(s, u) /\ SubSeq(u, Len(s) + 1, Len(u)) = t => u = s \o t
<1> DEFINE m == Len(s)
           n == Len(t)
<1>1. m \in Nat /\ n \in Nat
  OBVIOUS
<1>2. ASSUME NEW u \in Seq(C), Len(u) = m + n
      PROVE  /\ SubSeq(u, 1, m) \in Seq(C) /\ Len(SubSeq(u, 1, m)) = m
             /\ \A i \in 1..m : SubSeq(u, 1, m)[i] = u[i]
             /\ SubSeq(u, m + 1, m + n) \in Seq(C) /\ Len(SubSeq(u, m + 1, m + n)) = n
             /\ \A i \in 1..n : SubSeq(u, m + 1, m + n)[i] = u[m + i]
  <2> HIDE DEF m, n
  <2>1. m + n \in Nat /\ 0 \in 0..(m + n) /\ m \in 0..(m + n) /\ (m + n) \in m..(m + n) /\ m \in 0..m
    BY <1>1
  <2>2. /\ SubSeq(u, 0 + 1, m) \in Seq(C) /\ Len(SubSeq(u, 0 + 1, m)) = m - 0
        /\ \A i \in 1..(m - 0) : SubSeq(u, 0 + 1, m)[i] = u[0 + i]
    BY <1>2, <2>1, PartOf
  <2>3. PICK N : N = m + n
    OBVIOUS
  <2>4. N \in Nat /\ m \in 0..N /\ N \in m..N /\ Len(u) = N /\ N - m = n
    BY <1>1, <1>2, <2>3
  <2>5. /\ SubSeq(u, m + 1, N) \in Seq(C) /\ Len(SubSeq(u, m + 1, N)) = N - m
        /\ \A i \in 1..(N - m) : SubSeq(u, m + 1, N)[i] = u[m + i]
    BY <2>4, PartOf
  <2>6. /\ SubSeq(u, m + 1, N) \in Seq(C) /\ Len(SubSeq(u, m + 1, N)) = n
        /\ \A i \in 1..n : SubSeq(u, m + 1, N)[i] = u[m + i]
    BY <2>4, <2>5
  <2>7. /\ SubSeq(u, 1, m) \in Seq(C) /\ Len(SubSeq(u, 1, m)) = m
        /\ \A i \in 1..m : SubSeq(u, 1, m)[i] = u[i]
    BY <1>1, <2>2
  <2> QED
    BY <2>3, <2>6, <2>7
<1>3. /\ s \o t \in Seq(C) /\ Len(s \o t) = m + n
      /\ \A i \in 1..m : (s \o t)[i] = s[i]
      /\ \A i \in 1..n : (s \o t)[m + i] = t[i]
  BY OneAfterAnother
<1>4. SubSeq(s, 1, m) = s
  BY SubSeqFull
<1>5. PICK w : w = s \o t
  OBVIOUS
<1>6. /\ w \in Seq(C) /\ Len(w) = m + n
      /\ \A i \in 1..m : w[i] = s[i]
      /\ \A i \in 1..n : w[m + i] = t[i]
  BY <1>3, <1>5
<1>7. SubSeq(w, 1, m) = s
  <2>1. Len(SubSeq(w, 1, m)) = Len(s) /\ SubSeq(w, 1, m) \in Seq(C)
        /\ \A i \in 1..Len(SubSeq(w, 1, m)) : SubSeq(w, 1, m)[i] = s[i]
    BY <1>2, <1>6
  <2> QED
    BY <2>1, SeqEqual
<1>8. SubSeq(w, m + 1, m + n) = t
  <2>1. Len(SubSeq(w, m + 1, m + n)) = Len(t) /\ SubSeq(w, m + 1, m + n) \in Seq(C)
        /\ \A i \in 1..Len(SubSeq(w, m + 1, m + n)) : SubSeq(w, m + 1, m + n)[i] = t[i]
    BY <1>2, <1>6
  <2> QED
    BY <2>1, SeqEqual
<1>9. IsPrefix(s, w)
  BY <1>1, <1>4, <1>6, <1>7 DEF IsPrefix
<1>10. ASSUME NEW u \in Seq(C), IsPrefix(s, u), SubSeq(u, m + 1, Len(u)) = t PROVE u = w
  <2>1. m =< Len(u) /\ SubSeq(u, 1, m) = s /\ Len(u) \in Nat
    BY <1>4, <1>10 DEF IsPrefix
  <2>2. Len(u) = m + n
    <3>1. Len(u) \in m..Len(u) /\ m \in 0..Len(u)
      BY <1>1, <2>1
    <3>2. Len(SubSeq(u, m + 1, Len(u))) = Len(u) - m
      <4> HIDE DEF m, n
      <4> QED
        BY <2>1, <3>1, PartOf
    <3> QED
      BY <1>1, <1>10, <2>1, <3>2
  <2>3. /\ \A i \in 1..m : u[i] = s[i]
        /\ \A i \in 1..n : u[m + i] = t[i]
    <3>1. SubSeq(u, m + 1, m + n) = t
      BY <1>10, <2>2
    <3> QED
      BY <1>2, <2>1, <2>2, <3>1
  <2>4. \A i \in 1..Len(u) : u[i] = w[i]
    <3> SUFFICES ASSUME NEW i \in 1..(m + n) PROVE u[i] = w[i]
      BY <2>2
    <3>1. CASE i \in 1..m
      BY <3>1, <1>6, <2>3
    <3>2. CASE i \notin 1..m
      <4> DEFINE j == i - m
      <4>1. j \in 1..n /\ i = m + j
        BY <3>2, <1>1
      <4> HIDE DEF j
      <4> QED
        BY <4>1, <1>6, <2>3
    <3> QED
      BY <3>1, <3>2
  <2> QED
    BY <1>6, <2>2, <2>4, SeqEqual
<1>11. \A u \in Seq(C) : IsPrefix(s, u) /\ SubSeq(u, m + 1, Len(u)) = t => u = w
  BY <1>10
<1>12. SubSeq(w, m + 1, Len(w)) = t
  BY <1>6, <1>8
<1> QED
  BY <1>5, <1>9, <1>11, <1>12

Bases == {ByteBase, Base58, Base64}

LEMMA BasesAre ==
    /\ Bases \subseteq Nat \ {0, 1}
    /\ Digit(ByteBase) = 0..(ByteBase - 1)
    /\ None \notin Seq(Digit(ByteBase))
<1>1. Pair \in Nat /\ Pair > 1 /\ Base58 \in Nat \ {0, 1} /\ None \notin Seq(Int)
  BY KeyTextAssumption
<1>2. Pair * Pair \in Nat /\ Pair * Pair > 1
  BY <1>1
<1>3. Base64 \in Nat /\ Base64 > 1
  <2> DEFINE q == Pair * Pair
  <2> HIDE DEF q
  <2>1. q * Pair \in Nat /\ q * Pair >= q
    BY <1>1, <1>2 DEF q
  <2> QED
    BY <1>2, <2>1 DEF Base64, q
<1>4. ByteBase \in Nat /\ ByteBase > 1
  <2> DEFINE q == Base64
  <2> HIDE DEF q
  <2>1. q * Pair \in Nat /\ q * Pair >= q
    BY <1>1, <1>3 DEF q
  <2>2. ByteBase = q * Pair
    BY DEF ByteBase, Base64, q
  <2> QED
    BY <1>3, <2>1, <2>2 DEF q
<1>5. Digit(ByteBase) = 0..(ByteBase - 1)
  BY DEF Digit
<1>6. Digit(ByteBase) \subseteq Int
  BY <1>4, <1>5
<1> QED
  BY <1>1, <1>3, <1>4, <1>5, <1>6 DEF Bases

LEMMA DidBack ==
    ASSUME NEW n \in Nat, n = KeySize, NEW key \in [1..n -> 0..(ByteBase - 1)]
    PROVE  /\ public_key_to_did(key) \in Seq(Digit(Base58))
           /\ did_to_public_key(public_key_to_did(key)) = key
           /\ \A c \in Seq(Int) : did_to_public_key(c) = key => c = public_key_to_did(key)
<1> DEFINE B == Digit(ByteBase)
           both == Tag \o key
<1>1. /\ ByteBase \in Nat \ {0, 1} /\ Base58 \in Nat \ {0, 1}
      /\ key \in Seq(B) /\ Len(key) = n /\ Tag \in Seq(B) /\ both \in Seq(B) /\ None \notin Seq(B)
  <2>1. ByteBase \in Nat \ {0, 1} /\ Base58 \in Nat \ {0, 1} /\ None \notin Seq(B) /\ B = 0..(ByteBase - 1)
    BY BasesAre DEF Bases
  <2> HIDE DEF B
  <2>2. key \in [1..n -> B] /\ Tag \in Seq(B)
    BY <2>1, KeyTextAssumption DEF Bytes
  <2>3. key \in Seq(B) /\ Len(key) = n
    BY <2>2
  <2> QED
    BY <2>1, <2>2, <2>3
<1> HIDE DEF B
<1>2. public_key_to_did(key) = in_base(both, ByteBase, Base58)
  BY DEF public_key_to_did, base58_encode, in_base
<1>3. /\ in_base(both, ByteBase, Base58) \in Seq(Digit(Base58))
      /\ in_base(in_base(both, ByteBase, Base58), Base58, ByteBase) = both
  BY <1>1, BackAgain DEF B
<1>4. /\ IsPrefix(Tag, both) /\ SubSeq(both, Len(Tag) + 1, Len(both)) = key
      /\ \A u \in Seq(B) : IsPrefix(Tag, u) /\ SubSeq(u, Len(Tag) + 1, Len(u)) = key => u = both
  BY <1>1, PrefixAndRest
<1> HIDE DEF both
<1>5. ASSUME NEW c \in Seq(Digit(Base58))
      PROVE  base58_decode(c) = in_base(c, Base58, ByteBase) /\ base58_decode(c) \in Seq(B)
  <2>1. InAlphabet(c, Base58)
    <3>1. \A i \in DOMAIN c : c[i] \in Digit(Base58)
      OBVIOUS
    <3> QED
      BY <3>1 DEF InAlphabet, Digit
  <2>2. in_base(c, Base58, ByteBase) \in Seq(B)
    BY <1>1, BackAgain DEF B
  <2> QED
    BY <2>1, <2>2 DEF base58_decode, in_base
<1>6. did_to_public_key(public_key_to_did(key)) = key
  <2>1. base58_decode(public_key_to_did(key)) = both
    BY <1>2, <1>3, <1>5
  <2> QED
    BY <1>1, <1>4, <2>1 DEF did_to_public_key
<1>7. ASSUME NEW c \in Seq(Int), did_to_public_key(c) = key PROVE c = public_key_to_did(key)
  <2>1. key # None
    BY <1>1
  <2>2. /\ base58_decode(c) # None /\ IsPrefix(Tag, base58_decode(c))
        /\ SubSeq(base58_decode(c), Len(Tag) + 1, Len(base58_decode(c))) = key
    BY <1>7, <2>1 DEF did_to_public_key
  <2>3. InAlphabet(c, Base58)
    BY <2>2 DEF base58_decode
  <2>4. c \in Seq(Digit(Base58))
    <3>1. \A i \in 1..Len(c) : c[i] \in Digit(Base58)
      BY <2>3 DEF InAlphabet, Digit
    <3>2. c \in [1..Len(c) -> Digit(Base58)] /\ Len(c) \in Nat
      BY <3>1
    <3> QED
      BY <3>2
  <2>5. base58_decode(c) = both
    BY <1>4, <1>5, <2>2, <2>4
  <2>6. in_base(both, ByteBase, Base58) = c
    <3>1. in_base(in_base(c, Base58, ByteBase), ByteBase, Base58) = c
      BY <1>1, <2>4, BackAgain
    <3> QED
      BY <3>1, <1>5, <2>4, <2>5
  <2> QED
    BY <1>2, <2>6
<1> QED
  BY <1>2, <1>3, <1>6, <1>7

\* What is in 1..n is a sequence.
LEMMA OctetsAreBytes ==
    ASSUME NEW n \in Nat, NEW octet \in [1..n -> 0..(ByteBase - 1)]
    PROVE  octet \in Bytes /\ Len(octet) = n /\ octet # None /\ octet \in Seq(Int)
<1>1. Digit(ByteBase) = 0..(ByteBase - 1) /\ None \notin Seq(Int)
  BY BasesAre, KeyTextAssumption
<1>2. octet \in [1..n -> Digit(ByteBase)]
  BY <1>1
<1>3. octet \in Seq(Digit(ByteBase)) /\ Len(octet) = n
  BY <1>2
<1>4. octet \in Seq(Int)
  <2>1. \A i \in 1..n : octet[i] \in Int
    BY <1>2 DEF Digit
  <2> QED
    BY <1>2, <2>1
<1> QED
  BY <1>1, <1>3, <1>4 DEF Bytes

LEMMA Base64Texts ==
    ASSUME NEW n \in Nat, NEW octet \in [1..n -> 0..(ByteBase - 1)]
    PROVE  /\ urlsafe_b64encode(octet) \in Seq(Digit(Base64))
           /\ n = KeySize => read_x(urlsafe_b64encode(octet)) = octet
           /\ n = SignatureSize =>
                 /\ read_signature(urlsafe_b64encode(octet)) = octet
                 /\ \A c : read_signature(c) = octet => c = urlsafe_b64encode(octet)
<1>1. octet \in Bytes /\ Len(octet) = n /\ octet # None
  BY OctetsAreBytes
<1> DEFINE e == urlsafe_b64encode(octet)
<1>2. e \in Seq(Digit(Base64)) /\ b64decode(e) = octet
  BY <1>1, Base64Back
<1> HIDE DEF e
<1>3. n = KeySize => read_x(e) = octet
  BY <1>1, <1>2 DEF read_x
<1>4. n = SignatureSize => read_signature(e) = octet
  BY <1>1, <1>2 DEF read_signature, e
<1>5. ASSUME NEW c, read_signature(c) = octet PROVE c = e
  BY <1>1, <1>5 DEF read_signature, e
<1> QED
  BY <1>2, <1>3, <1>4, <1>5 DEF e

Size(way) == IF way = "value" THEN SignatureSize ELSE KeySize

\* Everything that is written reads back, and in a did:key and an envelope it is the only text
\* that does.
LEMMA WrittenReadsBack ==
    ASSUME NEW way \in {"did", "x", "value"}, NEW octet \in Raws(Size(way))
    PROVE  /\ encode(way, octet) \in Seq(Int)
           /\ decode(way, encode(way, octet)) = octet
           /\ way # "x" => \A c \in Seq(Int) : decode(way, c) = octet => c = encode(way, octet)
<1>1. /\ KeySize \in Nat /\ SignatureSize \in Nat
      /\ octet \in [1..Size(way) -> 0..(ByteBase - 1)] /\ Size(way) \in Nat
  BY KeyTextAssumption DEF Raws, Size
<1>2. ASSUME NEW base \in {Base58, Base64}, NEW c \in Seq(Digit(base)) PROVE c \in Seq(Int)
  <2>1. \A i \in 1..Len(c) : c[i] \in Digit(base)
    OBVIOUS
  <2>2. \A i \in 1..Len(c) : c[i] \in Int
    BY <2>1 DEF Digit
  <2>3. c \in [1..Len(c) -> Int] /\ Len(c) \in Nat
    BY <2>2
  <2> QED
    BY <2>3
<1>3. CASE way = "did"
  <2>1. Size(way) = KeySize /\ encode(way, octet) = public_key_to_did(octet)
        /\ \A c : decode(way, c) = did_to_public_key(c)
    BY <1>3 DEF Size, encode, decode
  <2>2. /\ public_key_to_did(octet) \in Seq(Digit(Base58))
        /\ did_to_public_key(public_key_to_did(octet)) = octet
        /\ \A c \in Seq(Int) : did_to_public_key(c) = octet => c = public_key_to_did(octet)
    BY <1>1, <2>1, DidBack
  <2> QED
    BY <1>2, <2>1, <2>2
<1>4. CASE way = "x"
  <2>1. Size(way) = KeySize /\ encode(way, octet) = urlsafe_b64encode(octet)
        /\ \A c : decode(way, c) = read_x(c)
    BY <1>4 DEF Size, encode, decode, write_x
  <2>2. urlsafe_b64encode(octet) \in Seq(Digit(Base64)) /\ read_x(urlsafe_b64encode(octet)) = octet
    BY <1>1, <2>1, Base64Texts
  <2> QED
    BY <1>2, <1>4, <2>1, <2>2
<1>5. CASE way = "value"
  <2>1. Size(way) = SignatureSize /\ encode(way, octet) = urlsafe_b64encode(octet)
        /\ \A c : decode(way, c) = read_signature(c)
    BY <1>5 DEF Size, encode, decode
  <2>2. /\ urlsafe_b64encode(octet) \in Seq(Digit(Base64))
        /\ read_signature(urlsafe_b64encode(octet)) = octet
        /\ \A c : read_signature(c) = octet => c = urlsafe_b64encode(octet)
    BY <1>1, <2>1, Base64Texts
  <2> QED
    BY <1>2, <2>1, <2>2
<1> QED
  BY <1>3, <1>4, <1>5

\* What has been written is the encoding, what has been read the decoding of the copy.
KeyInv ==
    \/ NoText
    \/ /\ notation \in {"did", "x", "value"} /\ octets \in Raws(Size(notation))
       /\ \/ spelling = None /\ answer = None
          \/ /\ spelling = encode(notation, octets) /\ copied \in Seq(Int)
             /\ answer # None => answer = [bytes |-> decode(notation, copied)]

\* A text with one character left out, replaced or put in.
LEMMA SlipIsText ==
    ASSUME NEW s \in Seq(Int), Slip, spelling = s
    PROVE  copied' \in Seq(Int)
<1> DEFINE Chars == -1..(Max({Base58, Base64}) - 1)
<1>1. ASSUME NEW i \in DOMAIN s PROVE RemoveAt(s, i) \in Seq(Int)
  <2>1. SubSeq(s, 1, i - 1) \in Seq(Int) /\ SubSeq(s, i + 1, Len(s)) \in Seq(Int)
    OBVIOUS
  <2> QED
    BY <2>1 DEF RemoveAt
<1>2. ASSUME NEW i \in DOMAIN s, NEW c \in Int PROVE ReplaceAt(s, i, c) \in Seq(Int)
  BY DEF ReplaceAt
<1>3. ASSUME NEW i \in 1..(Len(s) + 1), NEW c \in Int PROVE InsertAt(s, i, c) \in Seq(Int)
  <2>1. SubSeq(s, 1, i - 1) \in Seq(Int) /\ SubSeq(s, i, Len(s)) \in Seq(Int) /\ <<c>> \in Seq(Int)
    OBVIOUS
  <2> QED
    BY <2>1 DEF InsertAt
<1>4. Chars \subseteq Int
  OBVIOUS
<1> HIDE DEF Chars
<1>5. \/ \E i \in DOMAIN s : copied' = RemoveAt(s, i)
      \/ \E i \in DOMAIN s, c \in Chars : copied' = ReplaceAt(s, i, c)
      \/ \E i \in 1..(Len(s) + 1), c \in Chars : copied' = InsertAt(s, i, c)
  BY DEF Slip, Chars
<1> QED
  BY <1>1, <1>2, <1>3, <1>4, <1>5

LEMMA KeysStep ==
    ASSUME KeyInv, TextNext
    PROVE  KeyInv'
<1>1. None \notin Seq(Int)
  BY KeyTextAssumption
<1>2. ~ NoText
  BY DEF NoText, TextNext, Write, Slip, Read
<1>3. notation \in {"did", "x", "value"} /\ octets \in Raws(Size(notation))
  BY <1>2 DEF KeyInv
<1>4. encode(notation, octets) \in Seq(Int)
  BY <1>3, WrittenReadsBack
<1>5. CASE Write
  <2>1. spelling = None /\ answer = None
    BY <1>1, <1>2, <1>4, <1>5 DEF KeyInv, Write
  <2>2. notation' = notation /\ octets' = octets /\ answer' = None
        /\ spelling' = encode(notation, octets) /\ copied' = encode(notation, octets)
    BY <1>5, <2>1 DEF Write
  <2> QED
    BY <1>3, <1>4, <2>2 DEF KeyInv
<1>6. CASE Slip
  <2>1. spelling = encode(notation, octets) /\ answer = None
    BY <1>2, <1>6 DEF KeyInv, Slip
  <2>2. copied' \in Seq(Int)
    BY <1>4, <1>6, <2>1, SlipIsText
  <2>3. notation' = notation /\ octets' = octets /\ answer' = None /\ spelling' = spelling
    BY <1>6, <2>1 DEF Slip
  <2> QED
    BY <1>3, <2>1, <2>2, <2>3 DEF KeyInv
<1>7. CASE Read
  <2>1. spelling = encode(notation, octets) /\ copied \in Seq(Int)
    BY <1>2, <1>7 DEF KeyInv, Read
  <2>2. /\ notation' = notation /\ octets' = octets /\ spelling' = spelling /\ copied' = copied
        /\ answer' = [bytes |-> decode(notation, copied)]
    BY <1>7 DEF Read
  <2> QED
    BY <1>3, <2>1, <2>2 DEF KeyInv
<1> QED
  BY <1>5, <1>6, <1>7 DEF TextNext

LEMMA KeysSafe ==
    ASSUME KeyInv
    PROVE  FaithfulCopiesReadBack /\ OneSpelling
<1> SUFFICES ASSUME answer # None
             PROVE  /\ copied = spelling => answer.bytes = octets
                    /\ notation # "x" /\ answer.bytes = octets => copied = spelling
  BY DEF FaithfulCopiesReadBack, OneSpelling
<1>1. /\ notation \in {"did", "x", "value"} /\ octets \in Raws(Size(notation))
      /\ spelling = encode(notation, octets) /\ copied \in Seq(Int)
      /\ answer = [bytes |-> decode(notation, copied)]
  BY DEF KeyInv, NoText
<1>2. answer.bytes = decode(notation, copied)
  BY <1>1
<1>3. /\ decode(notation, encode(notation, octets)) = octets
      /\ notation # "x" =>
            \A c \in Seq(Int) : decode(notation, c) = octets => c = encode(notation, octets)
  BY <1>1, WrittenReadsBack
<1> QED
  BY <1>1, <1>2, <1>3

LEMMA KeysStart ==
    ASSUME TextInit
    PROVE  KeyInv
  BY DEF TextInit, KeyInv, Size

\* What was written is the encoding of the bytes, and what was read what the copy decodes to.
LEMMA KeyProvenance == Spec => []KeyInv
<1>1. Init => KeyInv
  BY KeysStart DEF Init, KeyInv
<1>2. KeyInv /\ [Next]_vars => KeyInv'
  <2> SUFFICES ASSUME KeyInv, [Next]_vars PROVE KeyInv'
    OBVIOUS
  <2>1. TextNext \/ UNCHANGED text_vars
    BY DEF Next, vars
  <2>2. CASE TextNext
    BY <2>2, KeysStep
  <2>3. CASE UNCHANGED text_vars
    BY <2>3 DEF KeyInv, NoText, text_vars, Size, Raws, encode, decode
  <2> QED
    BY <2>1, <2>2, <2>3
<1> QED
  BY <1>1, <1>2, PTL DEF Spec

\* A key or a signature copied as it was written reads back as the same bytes, in any of the
\* three notations and for any sizes of bytes and alphabets (keys.py:223-248, signing.py:42-47).
THEOREM FaithfulCopies == Spec => []FaithfulCopiesReadBack
  BY KeyProvenance, KeysSafe, PTL

\* A did:key or a signature with a slip in it never reads as the same bytes
\* (keys.py:237-248, signing.py:50-58).
THEOREM OneSpellingOnly == Spec => []OneSpelling
  BY KeyProvenance, KeysSafe, PTL

-----------------------------------------------------------------------------
(***************************************************************************)
(* JSON values: their shapes, and the functions that recurse on the depth. *)
(***************************************************************************)
\* The values there are, by kind.
LEMMA Shapes ==
    ASSUME NEW json \in JsonValues
    PROVE  /\ json[1] \in {"str", "list", "dict", "number"}
           /\ json[1] = "str" => json[2] \in Seq(CodePoint)
           /\ json[1] = "list" => json[2] \in Seq(JsonValues)
           /\ json[1] = "dict" =>
                 /\ json[2] \in Seq(Seq(CodePoint) \X JsonValues)
                 /\ \A i, j \in DOMAIN json[2] : json[2][i][1] = json[2][j][1] => i = j
<1> DEFINE One(k) ==
          CASE k[1] = "str" -> k[2] \in Seq(CodePoint)
            [] k[1] = "list" -> k[2] \in Seq(JsonValues)
            [] k[1] = "dict" ->
                  /\ k[2] \in Seq(Seq(CodePoint) \X JsonValues)
                  /\ \A i, j \in DOMAIN k[2] : k[2][i][1] = k[2][j][1] => i = j
            [] OTHER -> k[1] = "number"
<1>1. One(json)
  BY JsonAssumption
<1>2. PICK tag, x : tag = json[1] /\ x = json[2]
  OBVIOUS
<1>3. CASE tag = "str"
  BY <1>1, <1>2, <1>3
<1>4. CASE tag = "list"
  BY <1>1, <1>2, <1>4
<1>5. CASE tag = "dict"
  BY <1>1, <1>2, <1>5
<1>6. CASE tag \notin {"str", "list", "dict"}
  BY <1>1, <1>2, <1>6
<1> QED
  BY <1>2, <1>3, <1>4, <1>5, <1>6

\* What an object holds: its names are a finite set of texts, each with one value.
LEMMA Entries ==
    ASSUME NEW e \in Seq(Seq(CodePoint) \X JsonValues),
           \A i, j \in DOMAIN e : e[i][1] = e[j][1] => i = j
    PROVE  /\ named(e) \in SUBSET Seq(CodePoint) /\ IsFiniteSet(named(e))
           /\ \A i \in DOMAIN e : e[i][1] \in named(e) /\ e[i][2] \in JsonValues
                                  /\ value_of(e, e[i][1]) = e[i][2]
           /\ \A name \in named(e) : \E i \in DOMAIN e : name = e[i][1] /\ value_of(e, name) = e[i][2]
<1>1. DOMAIN e = 1..Len(e) /\ Len(e) \in Nat
  OBVIOUS
<1>2. ASSUME NEW i \in DOMAIN e PROVE e[i][1] \in Seq(CodePoint) /\ e[i][2] \in JsonValues
  <2>1. e[i] \in Seq(CodePoint) \X JsonValues
    BY <1>1
  <2> QED
    BY <2>1
<1>3. ASSUME NEW i \in DOMAIN e PROVE e[i][1] \in named(e) /\ value_of(e, e[i][1]) = e[i][2]
  <2>1. PICK j : j = CHOOSE k \in DOMAIN e : e[k][1] = e[i][1]
    OBVIOUS
  <2>2. j \in DOMAIN e /\ e[j][1] = e[i][1]
    BY <2>1
  <2>3. j = i
    BY <2>2
  <2> QED
    BY <2>1, <2>3 DEF named, value_of
<1>4. ASSUME NEW name \in named(e)
      PROVE  \E i \in DOMAIN e : name = e[i][1] /\ value_of(e, name) = e[i][2]
  BY <1>3 DEF named
<1>5. named(e) \in SUBSET Seq(CodePoint)
  BY <1>2 DEF named
<1>6. IsFiniteSet(named(e))
  <2> DEFINE texts == [i \in 1..Len(e) |-> e[i][1]]
  <2>1. texts \in Seq(Seq(CodePoint)) /\ DOMAIN texts = DOMAIN e
    BY <1>1, <1>2
  <2>2. ToSet(texts) = named(e)
    BY <1>1, <2>1 DEF ToSet, named
  <2> HIDE DEF texts
  <2> QED
    BY <2>1, <2>2, EntriesAreFinite
<1> QED
  BY <1>2, <1>3, <1>4, <1>5, <1>6

\* What is nested in a value is a value.
LEMMA NestedAreValues ==
    ASSUME NEW json \in JsonValues
    PROVE  /\ \A i \in DOMAIN nested(json) : nested(json)[i] \in JsonValues
           /\ json[1] \notin {"list", "dict"} => nested(json) = << >>
           /\ json[1] = "list" => nested(json) = json[2]
           /\ json[1] = "dict" => nested(json) = [i \in DOMAIN json[2] |-> json[2][i][2]]
<1>1. PICK tag, x : tag = json[1] /\ x = json[2]
  OBVIOUS
<1>2. /\ tag \notin {"list", "dict"} => nested(json) = << >>
      /\ tag = "list" => nested(json) = x
      /\ tag = "dict" => nested(json) = [i \in DOMAIN x |-> x[i][2]]
  BY <1>1 DEF nested
<1>3. ASSUME NEW i \in DOMAIN nested(json) PROVE nested(json)[i] \in JsonValues
  <2>1. CASE tag = "list"
    <3>1. x \in Seq(JsonValues)
      BY <1>1, <2>1, Shapes
    <3>2. nested(json) = x
      BY <1>2, <2>1
    <3> QED
      BY <3>1, <3>2
  <2>2. CASE tag = "dict"
    <3>1. /\ x \in Seq(Seq(CodePoint) \X JsonValues)
          /\ \A j, k \in DOMAIN x : x[j][1] = x[k][1] => j = k
      BY <1>1, <2>2, Shapes
    <3>2. i \in DOMAIN x /\ nested(json)[i] = x[i][2]
      BY <1>2, <2>2
    <3> QED
      BY <3>1, <3>2, Entries
  <2>3. CASE tag \notin {"list", "dict"}
    BY <1>2, <2>3
  <2> QED
    BY <2>1, <2>2, <2>3
<1> QED
  BY <1>1, <1>2, <1>3

\* Recursion on the depth alone.
Deepens(f, e, step) == f[0] = e /\ \A n \in Nat \ {0} : f[n] = step[<<n, f[n - 1]>>]

\* There is a function for every such recursion.
LEMMA OneDeeper ==
    ASSUME NEW T, NEW e \in T, NEW step \in [Nat \X T -> T]
    PROVE  \E f : f \in [Nat -> T] /\ Deepens(f, e, step)
<1> DEFINE before == [n \in Nat |-> IF n = 0 THEN 0 ELSE n - 1]
<1>1. Downwards(before)
  BY DEF Downwards
<1>2. \A n \in Nat \ {0} : before[n] = n - 1
  OBVIOUS
<1> HIDE DEF before
<1>3. PICK f : f \in [Nat -> T] /\ Obeys(f, e, step, before)
  BY <1>1, Recursion
<1>4. ASSUME NEW n \in Nat \ {0} PROVE f[n] = step[<<n, f[n - 1]>>]
  <2>1. f[n] = step[<<n, f[before[n]]>>]
    BY <1>3, Zenon DEF Obeys
  <2> QED
    BY <2>1, <1>2, Zenon
<1>5. f[0] = e
  BY <1>3, Zenon DEF Obeys
<1>6. Deepens(f, e, step)
  BY <1>4, <1>5, Zenon DEF Deepens
<1> QED
  BY <1>3, <1>6, Zenon

\* One level of a refusal, from what is refused below.
RefusingOver(below, depth) ==
    [json \in JsonValues |->
        \/ refuses_at(json, depth)
        \/ json[1] = "number"
        \/ depth > 0 /\ \E i \in DOMAIN nested(json) : below[nested(json)[i]]]

\* What is refused at a depth, by what is refused at the one below.
LEMMA RefusingIs ==
    \A depth \in Nat : refusing[depth] = RefusingOver(refusing[depth - 1], depth)
<1> DEFINE T == [JsonValues -> BOOLEAN]
           step == [p \in Nat \X T |-> RefusingOver(p[2], p[1])]
           e == RefusingOver([json \in JsonValues |-> FALSE], 0)
<1>1. \A below, depth : RefusingOver(below, depth) \in T
  BY DEF RefusingOver, refuses_at
<1>2. \A below : RefusingOver(below, 0) = e
  BY DEF RefusingOver
<1> HIDE DEF T
<1>3. step \in [Nat \X T -> T] /\ e \in T
  BY <1>1
<1> HIDE DEF step, e
<1>4. PICK f : f \in [Nat -> T] /\ Deepens(f, e, step)
  BY <1>3, OneDeeper
<1>5. ASSUME NEW n \in Nat PROVE f[n] = RefusingOver(f[n - 1], n)
  <2>1. CASE n = 0
    BY <1>2, <1>4, <2>1 DEF Deepens
  <2>2. CASE n # 0
    <3>1. n - 1 \in Nat /\ n \in Nat \ {0}
      BY <2>2
    <3>2. f[n - 1] \in T
      BY <1>4, <3>1
    <3>3. step[<<n, f[n - 1]>>] = RefusingOver(f[n - 1], n)
      BY <3>2 DEF step
    <3> QED
      BY <1>4, <3>1, <3>3, Zenon DEF Deepens
  <2> QED
    BY <2>1, <2>2
<1>6. f = [depth \in Nat |-> RefusingOver(f[depth - 1], depth)]
  <2>1. f = [depth \in Nat |-> f[depth]]
    BY <1>4, Zenon
  <2> QED
    BY <1>5, <2>1, Zenon
<1>7. refusing = [depth \in Nat |-> RefusingOver(refusing[depth - 1], depth)]
  BY <1>6, Zenon DEF refusing, RefusingOver
<1> QED
  BY <1>7, Zenon

-----------------------------------------------------------------------------
(***************************************************************************)
(* What is written of a value, level by level.                             *)
(***************************************************************************)
\* What bytes are made of.  Only a refused value has anything but a text in quotes.
Token == brackets \cup {comma, colon} \cup {quoted(text) : text \in Seq(CodePoint)}
         \cup {quoted(json[2]) : json \in JsonValues}

\* A part as it stands among the others, after its comma.
Item(parts, i) == IF i = 1 THEN parts[i] ELSE <<comma>> \o parts[i]

\* The parts joined one after the other.
Joined(f, parts) == f[0] = << >> /\ \A i \in 1..Len(parts) : f[i] = f[i - 1] \o Item(parts, i)

\* Every mark is a token, and every text in quotes.
LEMMA MarksAreTokens ==
    /\ brackets \subseteq Token /\ comma \in Token /\ colon \in Token
    /\ \A text \in Seq(CodePoint) : quoted(text) \in Token
    /\ \A json \in JsonValues : quoted(json[2]) \in Token
<1>1. brackets \subseteq Token /\ comma \in Token /\ colon \in Token
  BY DEF Token
<1>2. ASSUME NEW text \in Seq(CodePoint) PROVE quoted(text) \in Token
  BY Zenon DEF Token
<1>3. ASSUME NEW json \in JsonValues PROVE quoted(json[2]) \in Token
  BY Zenon DEF Token
<1> QED
  BY <1>1, <1>2, <1>3

\* What json.dumps separates is joined part by part.
LEMMA Separated ==
    ASSUME NEW parts \in Seq(Seq(Token))
    PROVE  \E f : /\ f \in [0..Len(parts) -> Seq(Token)] /\ Joined(f, parts)
                  /\ separated(parts) = f[Len(parts)]
<1> DEFINE items == [i \in DOMAIN parts |-> IF i = 1 THEN parts[i] ELSE <<comma>> \o parts[i]]
<1>1. <<comma>> \in Seq(Token)
  <2>1. comma \in Token
    BY MarksAreTokens
  <2> QED
    BY <2>1
<1>2. DOMAIN parts = 1..Len(parts) /\ Len(parts) \in Nat /\ \A i \in 1..Len(parts) : parts[i] \in Seq(Token)
  OBVIOUS
<1>3. \A i \in 1..Len(parts) : Item(parts, i) \in Seq(Token) /\ items[i] = Item(parts, i)
  <2> SUFFICES ASSUME NEW i \in 1..Len(parts)
               PROVE  Item(parts, i) \in Seq(Token) /\ items[i] = Item(parts, i)
    OBVIOUS
  <2>1. items[i] = Item(parts, i)
    BY <1>2 DEF Item
  <2>2. parts[i] \in Seq(Token)
    BY <1>2
  <2>3. <<comma>> \o parts[i] \in Seq(Token)
    BY <1>1, <2>2
  <2> QED
    BY <2>1, <2>2, <2>3 DEF Item
<1>4. items \in Seq(Seq(Token)) /\ Len(items) = Len(parts)
  <2>1. items \in [1..Len(parts) -> Seq(Token)]
    BY <1>2, <1>3
  <2> HIDE DEF items
  <2> QED
    BY <1>2, <2>1
<1>5. separated(parts) = FlattenSeq(items)
  BY DEF separated
<1> HIDE DEF items
<1>6. PICK f : /\ f \in [0..Len(items) -> Seq(Token)]
               /\ f[0] = << >>
               /\ \A i \in 1..Len(items) : f[i] = f[i - 1] \o items[i]
               /\ FlattenSeq(items) = f[Len(items)]
  BY <1>4, Flattening
<1>7. Joined(f, parts)
  BY <1>3, <1>4, <1>6 DEF Joined
<1> QED
  BY <1>4, <1>5, <1>6, <1>7

\* Separated parts are tokens again.
LEMMA SeparatedIsTokens ==
    ASSUME NEW parts \in Seq(Seq(Token))
    PROVE  separated(parts) \in Seq(Token)
<1>1. PICK f : /\ f \in [0..Len(parts) -> Seq(Token)] /\ Joined(f, parts)
               /\ separated(parts) = f[Len(parts)]
  BY Separated
<1>2. Len(parts) \in 0..Len(parts)
  OBVIOUS
<1> QED
  BY <1>1, <1>2

\* The parts of a list, from what is written below.
listed(below, items) == [i \in DOMAIN items |-> below[items[i]]]

\* The parts of an object, from what is written below.
entered(below, names, entries) ==
    [i \in DOMAIN names |-> <<quoted(names[i]), colon>> \o below[value_of(entries, names[i])]]

\* One level of the bytes, from what is written below.
WritingOver(below, depth) ==
    [json \in JsonValues |->
        CASE depth > 0 /\ json[1] = "list" ->
                <<begin_array>> \o separated(listed(below, json[2])) \o <<end_array>>
          [] depth > 0 /\ json[1] = "dict" ->
                <<begin_object>> \o separated(entered(below, in_key_order(json[2]), json[2]))
                \o <<end_object>>
          [] OTHER -> <<quoted(json[2])>>]

\* Anything that writes values as tokens.
Writing == [JsonValues -> Seq(Token)]

\* The parts of a list, one for every item.
LEMMA ListedParts ==
    ASSUME NEW below \in Writing, NEW items \in Seq(JsonValues)
    PROVE  /\ listed(below, items) \in Seq(Seq(Token)) /\ Len(listed(below, items)) = Len(items)
           /\ \A i \in 1..Len(items) : listed(below, items)[i] = below[items[i]]
<1>1. DOMAIN items = 1..Len(items) /\ Len(items) \in Nat
      /\ \A i \in 1..Len(items) : items[i] \in JsonValues /\ below[items[i]] \in Seq(Token)
  BY DEF Writing
<1>2. listed(below, items) \in [1..Len(items) -> Seq(Token)]
  BY <1>1 DEF listed
<1>3. \A i \in 1..Len(items) : listed(below, items)[i] = below[items[i]]
  BY <1>1 DEF listed
<1> QED
  BY <1>1, <1>2, <1>3

\* The keys of an object in order.
LEMMA Keys ==
    ASSUME NEW e \in Seq(Seq(CodePoint) \X JsonValues),
           \A i, j \in DOMAIN e : e[i][1] = e[j][1] => i = j
    PROVE  /\ in_key_order(e) \in Seq(Seq(CodePoint)) /\ InOrder(in_key_order(e))
           /\ ToSet(in_key_order(e)) = named(e)
           /\ \A i \in 1..Len(in_key_order(e)) :
                 in_key_order(e)[i] \in named(e) /\ value_of(e, in_key_order(e)[i]) \in JsonValues
<1>1. /\ named(e) \in SUBSET Seq(CodePoint) /\ IsFiniteSet(named(e))
      /\ \A i \in DOMAIN e : e[i][2] \in JsonValues
      /\ \A name \in named(e) : \E i \in DOMAIN e : name = e[i][1] /\ value_of(e, name) = e[i][2]
  BY Entries
<1>2. PICK names : names = in_key_order(e)
  OBVIOUS
<1>3. names \in Seq(Seq(CodePoint)) /\ InOrder(names) /\ ToSet(names) = named(e)
  BY <1>1, <1>2, InUtf16Order DEF in_key_order
<1>4. \A i \in 1..Len(names) : names[i] \in named(e)
  BY <1>3 DEF ToSet
<1>5. \A name \in named(e) : value_of(e, name) \in JsonValues
  BY <1>1
<1> QED
  BY <1>2, <1>3, <1>4, <1>5

\* The parts of an object, one for every key.
LEMMA EnteredParts ==
    ASSUME NEW below \in Writing, NEW e, NEW names \in Seq(Seq(CodePoint)),
           \A i \in 1..Len(names) : value_of(e, names[i]) \in JsonValues
    PROVE  /\ entered(below, names, e) \in Seq(Seq(Token))
           /\ Len(entered(below, names, e)) = Len(names)
           /\ \A i \in 1..Len(names) :
                 entered(below, names, e)[i] = <<quoted(names[i]), colon>> \o below[value_of(e, names[i])]
<1>1. DOMAIN names = 1..Len(names) /\ Len(names) \in Nat /\ \A i \in 1..Len(names) : names[i] \in Seq(CodePoint)
  OBVIOUS
<1>2. ASSUME NEW i \in 1..Len(names)
      PROVE  <<quoted(names[i]), colon>> \o below[value_of(e, names[i])] \in Seq(Token)
  <2>1. quoted(names[i]) \in Token /\ colon \in Token
    BY <1>1, MarksAreTokens
  <2>2. <<quoted(names[i]), colon>> \in Seq(Token)
    BY <2>1
  <2>3. below[value_of(e, names[i])] \in Seq(Token)
    BY DEF Writing
  <2> QED
    BY <2>2, <2>3
<1>3. entered(below, names, e) \in [1..Len(names) -> Seq(Token)]
  BY <1>1, <1>2 DEF entered
<1>4. \A i \in 1..Len(names) :
          entered(below, names, e)[i] = <<quoted(names[i]), colon>> \o below[value_of(e, names[i])]
  BY <1>1 DEF entered
<1>5. entered(below, names, e) \in Seq(Seq(Token)) /\ Len(entered(below, names, e)) = Len(names)
  <2>1. PICK n \in Nat : n = Len(names)
    BY <1>1
  <2>2. PICK parts : parts = entered(below, names, e)
    OBVIOUS
  <2>3. parts \in [1..n -> Seq(Token)]
    BY <1>3, <2>1, <2>2
  <2>4. parts \in Seq(Seq(Token)) /\ Len(parts) = n
    BY <2>3
  <2> QED
    BY <2>1, <2>2, <2>4
<1> QED
  BY <1>4, <1>5

\* The keys and parts of an object there is.
LEMMA Entering ==
    ASSUME NEW below \in Writing, NEW json \in JsonValues, json[1] = "dict"
    PROVE  LET names == in_key_order(json[2])
               parts == entered(below, names, json[2])
           IN  /\ names \in Seq(Seq(CodePoint)) /\ InOrder(names) /\ ToSet(names) = named(json[2])
               /\ parts \in Seq(Seq(Token)) /\ Len(parts) = Len(names)
               /\ \A i \in 1..Len(names) :
                     /\ names[i] \in named(json[2]) /\ value_of(json[2], names[i]) \in JsonValues
                     /\ parts[i] = <<quoted(names[i]), colon>> \o below[value_of(json[2], names[i])]
<1>1. PICK e : e = json[2]
  OBVIOUS
<1>2. /\ e \in Seq(Seq(CodePoint) \X JsonValues)
      /\ \A i, j \in DOMAIN e : e[i][1] = e[j][1] => i = j
  BY <1>1, Shapes
<1>3. PICK names : names = in_key_order(e)
  OBVIOUS
<1>4. /\ names \in Seq(Seq(CodePoint)) /\ InOrder(names) /\ ToSet(names) = named(e)
      /\ \A i \in 1..Len(names) : names[i] \in named(e) /\ value_of(e, names[i]) \in JsonValues
  BY <1>2, <1>3, Keys
<1>5. PICK parts : parts = entered(below, names, e)
  OBVIOUS
<1>6. /\ parts \in Seq(Seq(Token)) /\ Len(parts) = Len(names)
      /\ \A i \in 1..Len(names) :
            parts[i] = <<quoted(names[i]), colon>> \o below[value_of(e, names[i])]
  BY <1>4, <1>5, EnteredParts
<1> QED
  BY <1>1, <1>3, <1>4, <1>5, <1>6

\* A level more writes tokens when the level below does.
LEMMA WritingIsTokens ==
    ASSUME NEW below \in Writing, NEW depth \in Nat
    PROVE  WritingOver(below, depth) \in Writing
<1> SUFFICES ASSUME NEW json \in JsonValues
             PROVE  WritingOver(below, depth)[json] \in Seq(Token)
  BY DEF WritingOver, Writing
<1>1. PICK tag, x, w : tag = json[1] /\ x = json[2] /\ w = WritingOver(below, depth)[json]
  OBVIOUS
<1>2. w = CASE depth > 0 /\ tag = "list" ->
                <<begin_array>> \o separated(listed(below, x)) \o <<end_array>>
          [] depth > 0 /\ tag = "dict" ->
                <<begin_object>> \o separated(entered(below, in_key_order(x), x))
                \o <<end_object>>
          [] OTHER -> <<quoted(x)>>
  BY <1>1 DEF WritingOver
<1>3. \A t \in brackets : <<t>> \in Seq(Token)
  BY MarksAreTokens
<1>4. brackets = {begin_array, end_array, begin_object, end_object}
  BY DEF brackets
<1>5. CASE depth > 0 /\ tag = "list"
  <2>1. listed(below, x) \in Seq(Seq(Token))
    <3>1. x \in Seq(JsonValues)
      BY <1>1, <1>5, Shapes
    <3> QED
      BY <3>1, ListedParts
  <2>2. PICK s : s = separated(listed(below, x)) /\ s \in Seq(Token)
    BY <2>1, SeparatedIsTokens
  <2>3. w = <<begin_array>> \o s \o <<end_array>>
    BY <1>2, <1>5, <2>2
  <2>4. <<begin_array>> \in Seq(Token) /\ <<end_array>> \in Seq(Token)
    BY <1>3, <1>4
  <2> QED
    BY <1>1, <2>2, <2>3, <2>4
<1>6. CASE depth > 0 /\ tag = "dict"
  <2>1. entered(below, in_key_order(x), x) \in Seq(Seq(Token))
    BY <1>1, <1>6, Entering
  <2>2. PICK s : s = separated(entered(below, in_key_order(x), x)) /\ s \in Seq(Token)
    BY <2>1, SeparatedIsTokens
  <2>3. w = <<begin_object>> \o s \o <<end_object>>
    BY <1>2, <1>6, <2>2
  <2>4. <<begin_object>> \in Seq(Token) /\ <<end_object>> \in Seq(Token)
    BY <1>3, <1>4
  <2> QED
    BY <1>1, <2>2, <2>3, <2>4
<1>7. CASE ~ (depth > 0 /\ tag = "list") /\ ~ (depth > 0 /\ tag = "dict")
  <2>1. w = <<quoted(x)>>
    BY <1>2, <1>7
  <2>2. quoted(x) \in Token
    BY <1>1, MarksAreTokens
  <2> QED
    BY <1>1, <2>1, <2>2
<1> QED
  BY <1>5, <1>6, <1>7

\* What is written at a depth, by what is written at the one below.
LEMMA WritingIs ==
    /\ written \in [Nat -> Writing]
    /\ \A depth \in Nat : written[depth] = WritingOver(written[depth - 1], depth)
<1> DEFINE step == [p \in Nat \X Writing |-> WritingOver(p[2], p[1])]
           nothing == [json \in JsonValues |-> << >>]
           e == WritingOver(nothing, 0)
<1>1. \A below \in Writing, depth \in Nat : WritingOver(below, depth) \in Writing
  BY WritingIsTokens
<1>2. \A below : WritingOver(below, 0) = e
  <2>1. ~ (0 > 0)
    OBVIOUS
  <2> QED
    BY <2>1 DEF WritingOver
<1>8. nothing \in Writing
  <2>1. << >> \in Seq(Token)
    OBVIOUS
  <2> QED
    BY <2>1 DEF Writing
<1> HIDE DEF nothing
<1>3. step \in [Nat \X Writing -> Writing] /\ e \in Writing
  BY <1>1, <1>8
<1> HIDE DEF step, e
<1>4. PICK f : f \in [Nat -> Writing] /\ Deepens(f, e, step)
  BY <1>3, OneDeeper
<1>5. ASSUME NEW n \in Nat PROVE f[n] = WritingOver(f[n - 1], n)
  <2>1. CASE n = 0
    BY <1>2, <1>4, <2>1 DEF Deepens
  <2>2. CASE n # 0
    <3>1. n - 1 \in Nat /\ n \in Nat \ {0}
      BY <2>2
    <3>2. f[n - 1] \in Writing
      BY <1>4, <3>1
    <3>3. step[<<n, f[n - 1]>>] = WritingOver(f[n - 1], n)
      BY <3>2 DEF step
    <3> QED
      BY <1>4, <3>1, <3>3, Zenon DEF Deepens
  <2> QED
    BY <2>1, <2>2
<1>6. f = [depth \in Nat |-> WritingOver(f[depth - 1], depth)]
  <2>1. f = [depth \in Nat |-> f[depth]]
    BY <1>4, Zenon
  <2> QED
    BY <1>5, <2>1, Zenon
<1>7. written = [depth \in Nat |-> WritingOver(written[depth - 1], depth)]
  BY <1>6, Zenon DEF written, WritingOver, listed, entered
<1>9. \A depth \in Nat : written[depth] = WritingOver(written[depth - 1], depth)
  BY <1>7, Zenon
<1>10. ASSUME NEW n \in Nat PROVE written[n] \in Writing
  <2> DEFINE S == {m \in Nat : written[m] \in Writing}
  <2>1. 0 \in S
    <3>1. 0 \in Nat
      OBVIOUS
    <3> QED
      BY <3>1, <1>2, <1>3, <1>9
  <2>2. ASSUME NEW m \in Nat, m \in S PROVE m + 1 \in S
    <3>1. m + 1 \in Nat /\ (m + 1) - 1 = m
      OBVIOUS
    <3>2. written[m + 1] = WritingOver(written[(m + 1) - 1], m + 1)
      BY <3>1, <1>9, Zenon
    <3>3. written[m] \in Writing
      BY <2>2
    <3>4. WritingOver(written[m], m + 1) \in Writing
      BY <3>1, <3>3, <1>1
    <3> QED
      BY <3>1, <3>2, <3>4
  <2> HIDE DEF S
  <2>3. Nat \subseteq S
    BY <2>1, <2>2, ForEveryNumber
  <2> QED
    BY <2>3 DEF S
<1>11. written = [depth \in Nat |-> written[depth]]
  BY <1>7, Zenon
<1> QED
  BY <1>9, <1>10, <1>11, Zenon

-----------------------------------------------------------------------------
(***************************************************************************)
(* The levels of a value, and what is alike.                               *)
(***************************************************************************)
\* One level down from what is below.
LevelOver(below, depth) ==
    [json \in JsonValues |->
        IF depth = 0 THEN {json}
        ELSE UNION {below[nested(json)[i]] : i \in DOMAIN nested(json)}]

\* What is so far down, by what is one less.
LEMMA LevelIs ==
    \A depth \in Nat : level[depth] = LevelOver(level[depth - 1], depth)
<1> DEFINE T == [JsonValues -> SUBSET JsonValues]
           step == [p \in Nat \X T |-> LevelOver(p[2], p[1])]
           e == LevelOver([json \in JsonValues |-> {}], 0)
<1>1. \A below \in T, depth \in Nat : LevelOver(below, depth) \in T
  <2> SUFFICES ASSUME NEW below \in T, NEW depth \in Nat, NEW json \in JsonValues, depth # 0
               PROVE  UNION {below[nested(json)[i]] : i \in DOMAIN nested(json)} \in SUBSET JsonValues
    BY DEF LevelOver
  <2> QED
    BY NestedAreValues
<1>2. \A below : LevelOver(below, 0) = e
  BY DEF LevelOver
<1>8. [json \in JsonValues |-> {}] \in T
  OBVIOUS
<1> HIDE DEF T
<1>3. step \in [Nat \X T -> T] /\ e \in T
  BY <1>1, <1>8
<1> HIDE DEF step, e
<1>4. PICK f : f \in [Nat -> T] /\ Deepens(f, e, step)
  BY <1>3, OneDeeper
<1>5. ASSUME NEW n \in Nat PROVE f[n] = LevelOver(f[n - 1], n)
  <2>1. CASE n = 0
    BY <1>2, <1>4, <2>1 DEF Deepens
  <2>2. CASE n # 0
    <3>1. n - 1 \in Nat /\ n \in Nat \ {0}
      BY <2>2
    <3>2. f[n - 1] \in T
      BY <1>4, <3>1
    <3>3. step[<<n, f[n - 1]>>] = LevelOver(f[n - 1], n)
      BY <3>2 DEF step
    <3> QED
      BY <1>4, <3>1, <3>3, Zenon DEF Deepens
  <2> QED
    BY <2>1, <2>2
<1>6. f = [depth \in Nat |-> LevelOver(f[depth - 1], depth)]
  <2>1. f = [depth \in Nat |-> f[depth]]
    BY <1>4, Zenon
  <2> QED
    BY <1>5, <2>1, Zenon
<1>7. level = [depth \in Nat |-> LevelOver(level[depth - 1], depth)]
  BY <1>6, Zenon DEF level, LevelOver
<1> QED
  BY <1>7, Zenon

\* Likeness, from what is alike below.
AlikeOver(below, depth) ==
    [pair \in JsonValues \X JsonValues |->
        LET one == pair[1][2]
            two == pair[2][2]
        IN  /\ pair[1][1] = pair[2][1]
            /\ CASE depth > 0 /\ pair[1][1] = "list" ->
                      /\ Len(one) = Len(two)
                      /\ \A i \in DOMAIN one : below[<<one[i], two[i]>>]
                 [] depth > 0 /\ pair[1][1] = "dict" ->
                      /\ named(one) = named(two)
                      /\ \A name \in named(one) :
                            below[<<value_of(one, name), value_of(two, name)>>]
                 [] OTHER -> one = two]

\* What is alike at a depth, by what is alike at the one below.
LEMMA AlikeIs ==
    \A depth \in Nat : alike[depth] = AlikeOver(alike[depth - 1], depth)
<1> DEFINE T == [JsonValues \X JsonValues -> BOOLEAN]
           step == [p \in Nat \X T |-> AlikeOver(p[2], p[1])]
           e == AlikeOver([pair \in JsonValues \X JsonValues |-> FALSE], 0)
<1>1. \A below, depth : AlikeOver(below, depth) \in T
  BY DEF AlikeOver
<1>2. \A below : AlikeOver(below, 0) = e
  <2>1. ~ (0 > 0)
    OBVIOUS
  <2> QED
    BY <2>1 DEF AlikeOver
<1> HIDE DEF T
<1>3. step \in [Nat \X T -> T] /\ e \in T
  BY <1>1
<1> HIDE DEF step, e
<1>4. PICK f : f \in [Nat -> T] /\ Deepens(f, e, step)
  BY <1>3, OneDeeper
<1>5. ASSUME NEW n \in Nat PROVE f[n] = AlikeOver(f[n - 1], n)
  <2>1. CASE n = 0
    BY <1>2, <1>4, <2>1 DEF Deepens
  <2>2. CASE n # 0
    <3>1. n - 1 \in Nat /\ n \in Nat \ {0}
      BY <2>2
    <3>2. f[n - 1] \in T
      BY <1>4, <3>1
    <3>3. step[<<n, f[n - 1]>>] = AlikeOver(f[n - 1], n)
      BY <3>2 DEF step
    <3> QED
      BY <1>4, <3>1, <3>3, Zenon DEF Deepens
  <2> QED
    BY <2>1, <2>2
<1>6. f = [depth \in Nat |-> AlikeOver(f[depth - 1], depth)]
  <2>1. f = [depth \in Nat |-> f[depth]]
    BY <1>4, Zenon
  <2> QED
    BY <1>5, <2>1, Zenon
<1>7. alike = [depth \in Nat |-> AlikeOver(alike[depth - 1], depth)]
  <2>1. alike = CHOOSE a : a = [depth \in Nat |-> AlikeOver(a[depth - 1], depth)]
    BY DEF alike, AlikeOver
  <2> QED
    BY <1>6, <2>1, Zenon
<1> QED
  BY <1>7, Zenon

-----------------------------------------------------------------------------
(***************************************************************************)
(* When a value is refused.                                                *)
(***************************************************************************)
\* A refusal, by the kind of the value.
LEMMA RefusedStep ==
    ASSUME NEW depth \in Nat, NEW json \in JsonValues
    PROVE  refusing[depth][json] <=>
              \/ json[1] # "str" /\ depth = 0
              \/ json[1] = "number"
              \/ depth > 0 /\ \E i \in DOMAIN nested(json) : refusing[depth - 1][nested(json)[i]]
<1>1. refusing[depth] = RefusingOver(refusing[depth - 1], depth)
  BY RefusingIs
<1>2. PICK below : below = refusing[depth - 1]
  OBVIOUS
<1>3. refusing[depth] = RefusingOver(below, depth)
  BY <1>1, <1>2
<1>4. refusing[depth][json] = (\/ json[1] # "str" /\ depth = 0
                               \/ json[1] = "number"
                               \/ depth > 0 /\ \E i \in DOMAIN nested(json) : below[nested(json)[i]])
  BY <1>3, Zenon DEF RefusingOver, refuses_at
<1> QED
  BY <1>2, <1>4

\* The levels of a value, by those of what is nested in it.
LEMMA LevelStep ==
    ASSUME NEW json \in JsonValues
    PROVE  /\ level[0][json] = {json}
           /\ \A n \in Nat : \A inner :
                 inner \in level[n + 1][json]
                 <=> \E i \in DOMAIN nested(json) : inner \in level[n][nested(json)[i]]
<1>1. level[0][json] = {json}
  <2>1. level[0] = LevelOver(level[0 - 1], 0)
    BY LevelIs
  <2> QED
    BY <2>1 DEF LevelOver
<1>2. ASSUME NEW n \in Nat, NEW inner
      PROVE  inner \in level[n + 1][json]
             <=> \E i \in DOMAIN nested(json) : inner \in level[n][nested(json)[i]]
  <2>1. n + 1 \in Nat /\ (n + 1) - 1 = n /\ n + 1 # 0
    OBVIOUS
  <2>2. level[n + 1] = LevelOver(level[(n + 1) - 1], n + 1)
    BY <2>1, LevelIs, Zenon
  <2>3. PICK below, m : below = level[n] /\ m = n + 1 /\ m # 0
    BY <2>1
  <2>4. level[m] = LevelOver(below, m)
    BY <2>1, <2>2, <2>3
  <2>5. level[m][json] = UNION {below[nested(json)[i]] : i \in DOMAIN nested(json)}
    BY <2>3, <2>4 DEF LevelOver
  <2> QED
    BY <2>3, <2>5
<1> QED
  BY <1>1, <1>2

\* What in a value, so many levels down of so many, has it refused.
Unwelcome(inner, k, depth) == inner[1] = "number" \/ (inner[1] # "str" /\ k = depth)

\* A value has that in it at some level.
Somewhere(json, depth) == \E k \in 0..depth : \E inner \in level[k][json] : Unwelcome(inner, k, depth)

\* A value is refused for something in it, and only for that.
LEMMA RefusedByLevel ==
    \A depth \in Nat : \A json \in JsonValues : refusing[depth][json] <=> Somewhere(json, depth)
<1> DEFINE S == {n \in Nat : \A json \in JsonValues : refusing[n][json] <=> Somewhere(json, n)}
<1>1. 0 \in S
  <2> SUFFICES ASSUME NEW json \in JsonValues PROVE refusing[0][json] <=> Somewhere(json, 0)
    OBVIOUS
  <2>1. refusing[0][json] <=> (json[1] # "str" \/ json[1] = "number")
    BY RefusedStep
  <2>2. level[0][json] = {json}
    BY LevelStep
  <2>3. Somewhere(json, 0) <=> Unwelcome(json, 0, 0)
    BY <2>2 DEF Somewhere
  <2> QED
    BY <2>1, <2>3 DEF Unwelcome
<1>2. ASSUME NEW n \in Nat, n \in S PROVE n + 1 \in S
  <2> SUFFICES ASSUME NEW json \in JsonValues PROVE refusing[n + 1][json] <=> Somewhere(json, n + 1)
    OBVIOUS
  <2> DEFINE Inside == \E i \in DOMAIN nested(json) : Somewhere(nested(json)[i], n)
  <2>1. refusing[n + 1][json] <=> (json[1] = "number" \/ Inside)
    <3>1. n + 1 \in Nat /\ n + 1 > 0 /\ n + 1 # 0 /\ (n + 1) - 1 = n
      OBVIOUS
    <3>2. refusing[n + 1][json] <=>
              (json[1] = "number" \/ \E i \in DOMAIN nested(json) : refusing[n][nested(json)[i]])
      BY <3>1, RefusedStep
    <3>3. \A i \in DOMAIN nested(json) : refusing[n][nested(json)[i]] <=> Somewhere(nested(json)[i], n)
      BY <1>2, NestedAreValues
    <3> QED
      BY <3>2, <3>3
  <2>2. ASSUME Somewhere(json, n + 1) PROVE json[1] = "number" \/ Inside
    <3>a. PICK k \in 0..(n + 1) : \E inner \in level[k][json] : Unwelcome(inner, k, n + 1)
      BY <2>2 DEF Somewhere
    <3>1. PICK inner \in level[k][json] : Unwelcome(inner, k, n + 1)
      BY <3>a
    <3>2. CASE k = 0
      <4>1. inner = json
        BY <3>1, <3>2, LevelStep
      <4> QED
        BY <3>1, <3>2, <4>1 DEF Unwelcome
    <3>3. CASE k # 0
      <4>1. PICK m \in 0..n : k = m + 1
        <5>1. k - 1 \in 0..n /\ k = (k - 1) + 1
          BY <3>3
        <5> QED
          BY <5>1
      <4>2. PICK i \in DOMAIN nested(json) : inner \in level[m][nested(json)[i]]
        BY <3>1, <4>1, LevelStep
      <4>3. Unwelcome(inner, m, n)
        BY <3>1, <4>1 DEF Unwelcome
      <4> QED
        BY <4>2, <4>3 DEF Somewhere
    <3> QED
      BY <3>2, <3>3
  <2>3. ASSUME json[1] = "number" PROVE Somewhere(json, n + 1)
    <3>1. json \in level[0][json] /\ 0 \in 0..(n + 1) /\ Unwelcome(json, 0, n + 1)
      BY <2>3, LevelStep DEF Unwelcome
    <3> QED
      BY <3>1 DEF Somewhere
  <2>4. ASSUME Inside PROVE Somewhere(json, n + 1)
    <3>1. PICK i \in DOMAIN nested(json) : Somewhere(nested(json)[i], n)
      BY <2>4
    <3>a. PICK k \in 0..n : \E inner \in level[k][nested(json)[i]] : Unwelcome(inner, k, n)
      BY <3>1 DEF Somewhere
    <3>2. PICK inner \in level[k][nested(json)[i]] : Unwelcome(inner, k, n)
      BY <3>a
    <3>3. inner \in level[k + 1][json]
      BY LevelStep
    <3>4. k + 1 \in 0..(n + 1) /\ Unwelcome(inner, k + 1, n + 1)
      BY <3>2 DEF Unwelcome
    <3> QED
      BY <3>3, <3>4 DEF Somewhere
  <2> QED
    BY <2>1, <2>2, <2>3, <2>4
<1> HIDE DEF S
<1>3. Nat \subseteq S
  BY <1>1, <1>2, ForEveryNumber
<1> QED
  BY <1>3 DEF S

\* Above anything there is an object or a list.
LEMMA Above ==
    ASSUME NEW k \in Nat
    PROVE  \A m \in Nat : \A json \in JsonValues : \A inner \in level[(m + k) + 1][json] :
              \E outer \in level[m][json] : outer[1] \in {"list", "dict"}
<1> DEFINE S == {m \in Nat : \A json \in JsonValues : \A inner \in level[(m + k) + 1][json] :
                               \E outer \in level[m][json] : outer[1] \in {"list", "dict"}}
<1>1. 0 \in S
  <2> SUFFICES ASSUME NEW json \in JsonValues, NEW inner \in level[(0 + k) + 1][json]
               PROVE  \E outer \in level[0][json] : outer[1] \in {"list", "dict"}
    OBVIOUS
  <2>1. 0 + k = k
    OBVIOUS
  <2>2. PICK i \in DOMAIN nested(json) : inner \in level[k][nested(json)[i]]
    BY <2>1, LevelStep
  <2>3. nested(json) # << >>
    BY <2>2
  <2>4. json[1] \in {"list", "dict"}
    BY <2>3, NestedAreValues
  <2> QED
    BY <2>4, LevelStep
<1>2. ASSUME NEW m \in Nat, m \in S PROVE m + 1 \in S
  <2> SUFFICES ASSUME NEW json \in JsonValues, NEW inner \in level[((m + 1) + k) + 1][json]
               PROVE  \E outer \in level[m + 1][json] : outer[1] \in {"list", "dict"}
    OBVIOUS
  <2>1. PICK n \in Nat : n = (m + 1) + k /\ n = (m + k) + 1
    OBVIOUS
  <2>2. PICK i \in DOMAIN nested(json) : inner \in level[n][nested(json)[i]]
    BY <2>1, LevelStep
  <2>3. PICK outer \in level[m][nested(json)[i]] : outer[1] \in {"list", "dict"}
    BY <1>2, <2>1, <2>2, NestedAreValues
  <2>4. outer \in level[m + 1][json]
    BY <2>3, LevelStep
  <2> QED
    BY <2>3, <2>4
<1> HIDE DEF S
<1>3. Nat \subseteq S
  BY <1>1, <1>2, ForEveryNumber
<1> QED
  BY <1>3 DEF S

\* The same with a limit to the levels that are looked at.
LEMMA RefusedWhen ==
    ASSUME NEW json \in JsonValues
    PROVE  refuses(json) <=>
              \E depth \in 0..Deepest : \E inner \in level[depth][json] :
                  inner[1] = "number" \/ (inner[1] # "str" /\ depth >= MAX_DEPTH)
<1>1. MAX_DEPTH \in Nat /\ Deepest \in Nat /\ MAX_DEPTH =< Deepest
  BY JsonAssumption
<1>2. refuses(json) <=> Somewhere(json, MAX_DEPTH)
  BY <1>1, RefusedByLevel DEF refuses
<1>3. ASSUME Somewhere(json, MAX_DEPTH)
      PROVE  \E depth \in 0..Deepest : \E inner \in level[depth][json] :
                 inner[1] = "number" \/ (inner[1] # "str" /\ depth >= MAX_DEPTH)
  <2>a. PICK k \in 0..MAX_DEPTH : \E inner \in level[k][json] : Unwelcome(inner, k, MAX_DEPTH)
    BY <1>3 DEF Somewhere
  <2>1. PICK inner \in level[k][json] : Unwelcome(inner, k, MAX_DEPTH)
    BY <2>a
  <2>2. k \in 0..Deepest /\ (k = MAX_DEPTH => k >= MAX_DEPTH)
    BY <1>1
  <2> QED
    BY <2>1, <2>2 DEF Unwelcome
<1>4. ASSUME NEW n \in 0..Deepest, NEW inner \in level[n][json],
             inner[1] = "number" \/ (inner[1] # "str" /\ n >= MAX_DEPTH)
      PROVE  Somewhere(json, MAX_DEPTH)
  <2>1. CASE n =< MAX_DEPTH
    <3>1. n \in 0..MAX_DEPTH /\ Unwelcome(inner, n, MAX_DEPTH)
      BY <1>1, <1>4, <2>1 DEF Unwelcome
    <3> QED
      BY <3>1 DEF Somewhere
  <2>2. CASE n > MAX_DEPTH
    <3>1. PICK k \in Nat : n = (MAX_DEPTH + k) + 1
      <4>1. (n - MAX_DEPTH) - 1 \in Nat /\ n = (MAX_DEPTH + ((n - MAX_DEPTH) - 1)) + 1
        BY <1>1, <2>2
      <4> QED
        BY <4>1
    <3>2. PICK outer \in level[MAX_DEPTH][json] : outer[1] \in {"list", "dict"}
      BY <1>1, <3>1, Above
    <3>3. MAX_DEPTH \in 0..MAX_DEPTH /\ Unwelcome(outer, MAX_DEPTH, MAX_DEPTH)
      BY <1>1, <3>2 DEF Unwelcome
    <3> QED
      BY <3>3 DEF Somewhere
  <2> QED
    BY <1>1, <2>1, <2>2
<1> QED
  BY <1>2, <1>3, <1>4

-----------------------------------------------------------------------------
(***************************************************************************)
(* Sequences of which one goes on from the other, and parts that are told  *)
(* apart between commas.                                                   *)
(***************************************************************************)
\* One of the two goes on from the other.
Agree(s, t) == \A i \in DOMAIN s \cap DOMAIN t : s[i] = t[i]

\* Sequences with one beginning agree as far as they agree after it.
LEMMA AgreeAfter ==
    ASSUME NEW C, NEW s \in Seq(C), NEW t \in Seq(C), NEW u \in Seq(C), Agree(s \o t, s \o u)
    PROVE  Agree(t, u)
<1>1. PICK n \in Nat : n = Len(s)
  OBVIOUS
<1>2. PICK v, w : v = s \o t /\ w = s \o u
  OBVIOUS
<1>3. /\ v \in Seq(C) /\ Len(v) = n + Len(t)
      /\ \A i \in 1..(n + Len(t)) : v[i] = IF i <= n THEN s[i] ELSE t[i - n]
  BY <1>1, <1>2, ConcatProperties
<1>4. /\ w \in Seq(C) /\ Len(w) = n + Len(u)
      /\ \A i \in 1..(n + Len(u)) : w[i] = IF i <= n THEN s[i] ELSE u[i - n]
  BY <1>1, <1>2, ConcatProperties
<1> SUFFICES ASSUME NEW i \in DOMAIN t \cap DOMAIN u PROVE t[i] = u[i]
  BY DEF Agree
<1>5. i \in Nat /\ i >= 1 /\ i =< Len(t) /\ i =< Len(u) /\ Len(t) \in Nat /\ Len(u) \in Nat
  OBVIOUS
<1>6. PICK k \in Nat : k = n + i
  BY <1>5
<1>7. k \in 1..(n + Len(t)) /\ k \in 1..(n + Len(u)) /\ ~ (k <= n) /\ k - n = i
  BY <1>5, <1>6
<1>8. v[k] = t[i]
  BY <1>3, <1>7
<1>9. w[k] = u[i]
  BY <1>4, <1>7
<1>10. k \in DOMAIN v \cap DOMAIN w
  BY <1>3, <1>4, <1>7
<1> QED
  BY <1>2, <1>8, <1>9, <1>10 DEF Agree

\* Sequences that agree do so in their beginnings.
LEMMA AgreeBefore ==
    ASSUME NEW C, NEW s \in Seq(C), NEW t \in Seq(C), NEW u \in Seq(C), NEW v \in Seq(C),
           Agree(s \o u, t \o v)
    PROVE  Agree(s, t)
<1>1. PICK x, y : x = s \o u /\ y = t \o v
  OBVIOUS
<1>2. /\ x \in Seq(C) /\ Len(x) = Len(s) + Len(u)
      /\ \A i \in 1..(Len(s) + Len(u)) : x[i] = IF i <= Len(s) THEN s[i] ELSE u[i - Len(s)]
  BY <1>1, ConcatProperties
<1>3. /\ y \in Seq(C) /\ Len(y) = Len(t) + Len(v)
      /\ \A i \in 1..(Len(t) + Len(v)) : y[i] = IF i <= Len(t) THEN t[i] ELSE v[i - Len(t)]
  BY <1>1, ConcatProperties
<1> SUFFICES ASSUME NEW i \in DOMAIN s \cap DOMAIN t PROVE s[i] = t[i]
  BY DEF Agree
<1>4. /\ i \in Nat /\ i >= 1 /\ i =< Len(s) /\ i =< Len(t)
      /\ Len(s) \in Nat /\ Len(t) \in Nat /\ Len(u) \in Nat /\ Len(v) \in Nat
  OBVIOUS
<1>5. i \in 1..(Len(s) + Len(u)) /\ i \in 1..(Len(t) + Len(v))
  BY <1>4
<1>6. x[i] = s[i]
  BY <1>2, <1>4, <1>5
<1>7. y[i] = t[i]
  BY <1>3, <1>4, <1>5
<1>8. i \in DOMAIN x \cap DOMAIN y
  BY <1>2, <1>3, <1>5
<1> QED
  BY <1>1, <1>6, <1>7, <1>8 DEF Agree

\* Tokens put together in two ways.
LEMMA TokensAssociate ==
    ASSUME NEW s \in Seq(Token), NEW t \in Seq(Token), NEW u \in Seq(Token)
    PROVE  (s \o t) \o u = s \o (t \o u)
  BY ConcatAssociative

\* An item is its part, or a comma and its part.
LEMMA ItemIsTokens ==
    ASSUME NEW parts \in Seq(Seq(Token)), NEW i \in 1..Len(parts)
    PROVE  /\ Item(parts, i) \in Seq(Token)
           /\ i # 1 => Item(parts, i) = <<comma>> \o parts[i] /\ Item(parts, i)[1] = comma
           /\ i = 1 => Item(parts, i) = parts[i]
           /\ parts[i] # << >> => Item(parts, i) # << >>
<1>1. parts[i] \in Seq(Token) /\ <<comma>> \in Seq(Token)
  <2>1. comma \in Token
    BY MarksAreTokens
  <2> QED
    BY <2>1
<1>2. PICK joined : joined = <<comma>> \o parts[i]
  OBVIOUS
<1>3. joined \in Seq(Token) /\ joined # << >> /\ joined[1] = comma
  <2>1. /\ joined \in Seq(Token) /\ Len(joined) = Len(<<comma>>) + Len(parts[i])
        /\ \A k \in 1..(Len(<<comma>>) + Len(parts[i])) :
              joined[k] = IF k <= Len(<<comma>>) THEN <<comma>>[k] ELSE parts[i][k - Len(<<comma>>)]
    BY <1>1, <1>2, ConcatProperties
  <2>2. PICK first, n : first = <<comma>> /\ n = Len(parts[i])
    OBVIOUS
  <2>3. Len(first) = 1 /\ n \in Nat /\ first[1] = comma
    BY <1>1, <2>2
  <2>4. /\ joined \in Seq(Token) /\ Len(joined) = Len(first) + n
        /\ \A k \in 1..(Len(first) + n) : joined[k] = IF k <= Len(first) THEN first[k] ELSE parts[i][k - Len(first)]
    BY <2>1, <2>2
  <2>5. 1 \in 1..(Len(first) + n) /\ 1 <= Len(first)
    BY <2>3
  <2>6. joined[1] = comma
    BY <2>3, <2>4, <2>5
  <2>7. Len(joined) # 0
    BY <2>3, <2>4
  <2> QED
    BY <2>4, <2>6, <2>7
<1> QED
  BY <1>1, <1>2, <1>3 DEF Item

\* From any part on, what comes next.
LEMMA Continued ==
    ASSUME NEW parts \in Seq(Seq(Token)), NEW f \in [0..Len(parts) -> Seq(Token)], Joined(f, parts),
           NEW k \in Nat, k < Len(parts)
    PROVE  \E rest \in Seq(Token) : f[Len(parts)] = f[k] \o (Item(parts, k + 1) \o rest)
<1> DEFINE n == Len(parts)
           GoesOn(m) == \E rest \in Seq(Token) : f[m] = f[k] \o (Item(parts, k + 1) \o rest)
           S == {m \in Nat : k + 1 =< m /\ m =< n => GoesOn(m)}
<1>1. n \in Nat /\ \A i \in 0..n : f[i] \in Seq(Token)
  OBVIOUS
<1>2. \A i \in 1..n : f[i] = f[i - 1] \o Item(parts, i) /\ Item(parts, i) \in Seq(Token)
  BY ItemIsTokens DEF Joined
<1> HIDE DEF n, GoesOn
<1>3. k + 1 \in 1..n /\ k \in 0..n /\ (k + 1) - 1 = k
  BY <1>1 DEF n
<1>4. 0 \in S
  OBVIOUS
<1>5. ASSUME NEW m \in Nat, m \in S PROVE m + 1 \in S
  <2> SUFFICES ASSUME k + 1 =< m + 1, m + 1 =< n
               PROVE  GoesOn(m + 1)
    OBVIOUS
  <2>1. CASE m = k
    <3>1. f[m + 1] = f[k] \o Item(parts, k + 1)
      BY <1>2, <1>3, <2>1
    <3>2. Item(parts, k + 1) \o << >> = Item(parts, k + 1)
      BY <1>2, <1>3, ConcatEmptySeq
    <3>3. << >> \in Seq(Token)
      OBVIOUS
    <3> QED
      BY <3>1, <3>2, <3>3 DEF GoesOn
  <2>2. CASE m # k
    <3>1. k + 1 =< m /\ m =< n /\ m + 1 \in 1..n /\ (m + 1) - 1 = m
      BY <1>1, <2>2
    <3>2. PICK rest \in Seq(Token) : f[m] = f[k] \o (Item(parts, k + 1) \o rest)
      BY <1>5, <3>1 DEF GoesOn
    <3>3. PICK head, middle, last : head = f[k] /\ middle = Item(parts, k + 1) /\ last = Item(parts, m + 1)
      OBVIOUS
    <3>4. head \in Seq(Token) /\ middle \in Seq(Token) /\ last \in Seq(Token)
      BY <1>1, <1>2, <1>3, <3>1, <3>3
    <3>5. f[m + 1] = (head \o (middle \o rest)) \o last
      BY <1>2, <3>1, <3>2, <3>3
    <3>6. middle \o rest \in Seq(Token) /\ rest \o last \in Seq(Token)
      BY <3>4
    <3>7. (head \o (middle \o rest)) \o last = head \o ((middle \o rest) \o last)
      BY <3>4, <3>6, TokensAssociate
    <3>8. (middle \o rest) \o last = middle \o (rest \o last)
      BY <3>4, TokensAssociate
    <3> QED
      BY <3>3, <3>5, <3>6, <3>7, <3>8 DEF GoesOn
  <2> QED
    BY <2>1, <2>2
<1> HIDE DEF S
<1>6. n \in S
  BY <1>1, <1>4, <1>5, ForEveryNumber
<1> QED
  <2>1. GoesOn(n)
    BY <1>1, <1>3, <1>6 DEF S
  <2> QED
    BY <2>1 DEF GoesOn, n

\* A line of tokens.
Line == Seq(Token)

\* Lines put together in two ways.
LEMMA LinesAssociate ==
    \A s, t, u \in Line : (s \o t) \o u = s \o (t \o u)
  BY TokensAssociate DEF Line

\* Lines put together are a line.
LEMMA LinesJoin ==
    \A s, t \in Line : s \o t \in Line
  BY DEF Line

\* Parts that do not begin as the end of them all does, and `last` is no comma.
PartsBefore(parts, last) ==
    /\ parts \in Seq(Seq(Token))
    /\ \A i \in 1..Len(parts) : parts[i] # << >> /\ parts[i][1] # last

\* Of two parts neither goes on from the other, without being it.
Unambiguous(parts, others) ==
    \A i \in 1..Len(parts), j \in 1..Len(others) : Agree(parts[i], others[j]) => parts[i] = others[j]

\* Items that agree are the same.
LEMMA ItemsAgree ==
    ASSUME NEW parts \in Seq(Seq(Token)), NEW others \in Seq(Seq(Token)), Unambiguous(parts, others),
           NEW i \in Nat \ {0}, i =< Len(parts), i =< Len(others),
           Agree(Item(parts, i), Item(others, i))
    PROVE  parts[i] = others[i] /\ Item(parts, i) = Item(others, i)
<1>1. i \in 1..Len(parts) /\ i \in 1..Len(others)
  OBVIOUS
<1>2. parts[i] \in Seq(Token) /\ others[i] \in Seq(Token)
  BY <1>1
<1>3. Agree(parts[i], others[i])
  <2>1. CASE i = 1
    BY <1>1, <2>1, ItemIsTokens
  <2>2. CASE i # 1
    <3>1. Item(parts, i) = <<comma>> \o parts[i] /\ Item(others, i) = <<comma>> \o others[i]
      BY <1>1, <2>2, ItemIsTokens
    <3>2. <<comma>> \in Seq(Token)
      <4>1. comma \in Token
        BY MarksAreTokens
      <4> QED
        BY <4>1
    <3>3. Agree(<<comma>> \o parts[i], <<comma>> \o others[i])
      BY <3>1
    <3> QED
      BY <1>2, <3>2, <3>3, AgreeAfter
  <2> QED
    BY <2>1, <2>2
<1>4. parts[i] = others[i]
  BY <1>1, <1>3 DEF Unambiguous
<1> QED
  BY <1>4 DEF Item

\* As long as there are parts on either side they are the same.
LEMMA PartsAgree ==
    ASSUME NEW parts \in Seq(Seq(Token)), NEW others \in Seq(Seq(Token)), Unambiguous(parts, others),
           NEW f \in [0..Len(parts) -> Seq(Token)], Joined(f, parts),
           NEW g \in [0..Len(others) -> Seq(Token)], Joined(g, others),
           NEW last \in Seq(Token), Agree(f[Len(parts)] \o last, g[Len(others)] \o last)
    PROVE  \A k \in Nat : k =< Len(parts) /\ k =< Len(others) =>
              f[k] = g[k] /\ \A i \in 1..k : parts[i] = others[i]
<1> DEFINE Same(k) == f[k] = g[k] /\ \A i \in 1..k : parts[i] = others[i]
           S == {k \in Nat : k =< Len(parts) /\ k =< Len(others) => Same(k)}
<1>0. Len(parts) \in Nat /\ Len(others) \in Nat
  OBVIOUS
<1>1. 0 \in S
  <2>1. f[0] = g[0]
    BY DEF Joined
  <2> QED
    BY <2>1
<1> HIDE DEF Same
<1>2. ASSUME NEW k \in Nat, k \in S PROVE k + 1 \in S
  <2> SUFFICES ASSUME k + 1 =< Len(parts), k + 1 =< Len(others) PROVE Same(k + 1)
    OBVIOUS
  <2>1. k < Len(parts) /\ k < Len(others) /\ k =< Len(parts) /\ k =< Len(others)
    BY <1>0
  <2>2. Same(k)
    BY <1>2, <2>1
  <2>3. PICK r \in Seq(Token) : f[Len(parts)] = f[k] \o (Item(parts, k + 1) \o r)
    BY <2>1, Continued
  <2>4. PICK q \in Seq(Token) : g[Len(others)] = g[k] \o (Item(others, k + 1) \o q)
    BY <2>1, Continued
  <2>5. PICK i \in Nat \ {0} : i = k + 1 /\ i - 1 = k
    OBVIOUS
  <2>6. i \in 1..Len(parts) /\ i \in 1..Len(others)
    BY <1>0, <2>5
  <2>7. PICK one, two : one = Item(parts, i) /\ two = Item(others, i)
    OBVIOUS
  <2>8. one \in Seq(Token) /\ two \in Seq(Token)
    BY <2>6, <2>7, ItemIsTokens
  <2>h. f[k] \in Seq(Token) /\ f[k] = g[k]
    <3>1. k \in 0..Len(parts)
      BY <1>0, <2>1
    <3> QED
      BY <3>1, <2>2 DEF Same
  <2>9. PICK head : head = f[k] /\ head = g[k] /\ head \in Seq(Token)
    BY <2>h
  <2>t. head \in Seq(Token)
    BY <2>9
  <2>10. one \o r \in Seq(Token) /\ two \o q \in Seq(Token) /\ r \o last \in Seq(Token) /\ q \o last \in Seq(Token)
    BY <2>8
  <2>11. (head \o (one \o r)) \o last = head \o (one \o (r \o last))
    <3>1. head \in Line /\ one \in Line /\ r \in Line /\ last \in Line
      BY <2>8, <2>t DEF Line
    <3>2. PICK m : m = one \o r
      OBVIOUS
    <3>3. m \in Line
      BY <3>1, <3>2, LinesJoin
    <3>4. (head \o m) \o last = head \o (m \o last)
      BY <3>1, <3>3, LinesAssociate
    <3>5. (one \o r) \o last = one \o (r \o last)
      BY <3>1, LinesAssociate
    <3> QED
      BY <3>2, <3>4, <3>5, Zenon
  <2>12. (head \o (two \o q)) \o last = head \o (two \o (q \o last))
    <3>1. head \in Line /\ two \in Line /\ q \in Line /\ last \in Line
      BY <2>8, <2>t DEF Line
    <3>2. PICK m : m = two \o q
      OBVIOUS
    <3>3. m \in Line
      BY <3>1, <3>2, LinesJoin
    <3>4. (head \o m) \o last = head \o (m \o last)
      BY <3>1, <3>3, LinesAssociate
    <3>5. (two \o q) \o last = two \o (q \o last)
      BY <3>1, LinesAssociate
    <3> QED
      BY <3>2, <3>4, <3>5, Zenon
  <2>13. Agree(head \o (one \o (r \o last)), head \o (two \o (q \o last)))
    BY <2>3, <2>4, <2>5, <2>7, <2>9, <2>11, <2>12
  <2>14. one \o (r \o last) \in Seq(Token) /\ two \o (q \o last) \in Seq(Token)
    BY <2>8, <2>10
  <2>15. Agree(one \o (r \o last), two \o (q \o last))
    BY <2>9, <2>13, <2>14, AgreeAfter
  <2>16. Agree(one, two)
    BY <2>8, <2>10, <2>15, AgreeBefore
  <2>17. parts[i] = others[i] /\ one = two
    BY <2>6, <2>7, <2>16, ItemsAgree
  <2>18. f[i] = head \o one /\ g[i] = head \o two
    BY <2>5, <2>6, <2>7, <2>9 DEF Joined
  <2> QED
    BY <2>2, <2>5, <2>17, <2>18 DEF Same
<1> HIDE DEF S
<1>3. Nat \subseteq S
  BY <1>1, <1>2, ForEveryNumber
<1> QED
  BY <1>3 DEF S, Same

\* So neither can be longer.
LEMMA NoneLonger ==
    ASSUME NEW last \in Token, last # comma, NEW parts \in Seq(Seq(Token)), NEW others, PartsBefore(others, last),
           NEW f \in [0..Len(parts) -> Seq(Token)], Joined(f, parts),
           NEW g \in [0..Len(others) -> Seq(Token)], Joined(g, others),
           Agree(f[Len(parts)] \o <<last>>, g[Len(others)] \o <<last>>),
           Len(parts) =< Len(others) => f[Len(parts)] = g[Len(parts)]
    PROVE  Len(others) =< Len(parts)
<1>0. others \in Seq(Seq(Token)) /\ Len(others) \in Nat
  BY DEF PartsBefore
<1>1. PICK n \in Nat : n = Len(parts)
  OBVIOUS
<1> SUFFICES ASSUME n < Len(others) PROVE FALSE
  BY <1>0, <1>1
<1>2. PICK head : head = f[n] /\ head = g[n] /\ head \in Seq(Token)
  BY <1>0, <1>1
<1>3. PICK q \in Seq(Token) : g[Len(others)] = head \o (Item(others, n + 1) \o q)
  BY <1>0, <1>2, Continued
<1>4. PICK i \in 1..Len(others) : i = n + 1
  BY <1>0
<1>5. others[i] # << >> /\ others[i][1] # last /\ others[i] \in Seq(Token)
  BY <1>0 DEF PartsBefore
<1>6. PICK two : two = Item(others, i)
  OBVIOUS
<1>7. two \in Seq(Token) /\ two # << >> /\ two[1] # last
  <2>1. two \in Seq(Token) /\ two # << >>
    BY <1>0, <1>5, <1>6, ItemIsTokens
  <2>2. CASE i = 1
    BY <1>0, <1>5, <1>6, <2>1, <2>2, ItemIsTokens
  <2>3. CASE i # 1
    BY <1>0, <1>5, <1>6, <2>1, <2>3, ItemIsTokens
  <2> QED
    BY <2>1, <2>2, <2>3
<1>h. <<last>> \in Seq(Token) /\ Len(<<last>>) = 1 /\ <<last>>[1] = last
  OBVIOUS
<1>8. PICK tail : tail = <<last>> /\ tail \in Seq(Token) /\ Len(tail) = 1 /\ tail[1] = last
  BY <1>h
<1>9. q \o tail \in Seq(Token) /\ two \o q \in Seq(Token) /\ two \o (q \o tail) \in Seq(Token)
  BY <1>7, <1>8
<1>t. head \in Seq(Token) /\ two \in Seq(Token) /\ tail \in Seq(Token)
  BY <1>2, <1>7, <1>8
<1>10. (head \o (two \o q)) \o tail = head \o (two \o (q \o tail))
  <2>1. head \in Line /\ two \in Line /\ q \in Line /\ tail \in Line
    BY <1>t DEF Line
  <2>2. PICK m : m = two \o q
    OBVIOUS
  <2>3. m \in Line
    BY <2>1, <2>2, LinesJoin
  <2>4. (head \o m) \o tail = head \o (m \o tail)
    BY <2>1, <2>3, LinesAssociate
  <2>5. (two \o q) \o tail = two \o (q \o tail)
    BY <2>1, LinesAssociate
  <2> QED
    BY <2>2, <2>4, <2>5, Zenon
<1>11. Agree(head \o tail, head \o (two \o (q \o tail)))
  BY <1>1, <1>2, <1>3, <1>4, <1>6, <1>8, <1>10
<1>12. Agree(tail, two \o (q \o tail))
  BY <1>2, <1>8, <1>9, <1>11, AgreeAfter
<1>n. << >> \in Seq(Token) /\ tail \o << >> = tail
  BY <1>8, ConcatEmptySeq
<1>13. PICK none : none \in Seq(Token) /\ tail \o none = tail
  BY <1>n
<1>b. Agree(tail \o none, two \o (q \o tail))
  BY <1>12, <1>13
<1>14. Agree(tail, two)
  BY <1>7, <1>8, <1>9, <1>13, <1>b, AgreeBefore
<1>15. 1 \in DOMAIN tail \cap DOMAIN two
  BY <1>7, <1>8
<1> QED
  BY <1>7, <1>8, <1>14, <1>15 DEF Agree

\* Separated parts that one end follows are told apart.
LEMMA SeparatedAgree ==
    ASSUME NEW last \in Token, last # comma, NEW parts, NEW others,
           PartsBefore(parts, last), PartsBefore(others, last), Unambiguous(parts, others),
           Agree(separated(parts) \o <<last>>, separated(others) \o <<last>>)
    PROVE  parts = others
<1>0. parts \in Seq(Seq(Token)) /\ others \in Seq(Seq(Token)) /\ Len(parts) \in Nat /\ Len(others) \in Nat
      /\ <<last>> \in Seq(Token)
  BY DEF PartsBefore
<1>1. PICK f : f \in [0..Len(parts) -> Seq(Token)] /\ Joined(f, parts) /\ separated(parts) = f[Len(parts)]
  BY <1>0, Separated
<1>2. PICK g : g \in [0..Len(others) -> Seq(Token)] /\ Joined(g, others) /\ separated(others) = g[Len(others)]
  BY <1>0, Separated
<1>3. Agree(f[Len(parts)] \o <<last>>, g[Len(others)] \o <<last>>)
  BY <1>1, <1>2
<1>4. Agree(g[Len(others)] \o <<last>>, f[Len(parts)] \o <<last>>)
  BY <1>3 DEF Agree
<1>5. \A k \in Nat : k =< Len(parts) /\ k =< Len(others) =>
          f[k] = g[k] /\ \A i \in 1..k : parts[i] = others[i]
  BY <1>0, <1>1, <1>2, <1>3, PartsAgree
<1>a. /\ Len(parts) =< Len(others) => f[Len(parts)] = g[Len(parts)]
      /\ Len(others) =< Len(parts) => g[Len(others)] = f[Len(others)]
  BY <1>0, <1>5
<1>6. Len(others) =< Len(parts)
  BY <1>0, <1>1, <1>2, <1>3, <1>a, NoneLonger
<1>7. Len(parts) =< Len(others)
  BY <1>0, <1>1, <1>2, <1>4, <1>a, NoneLonger
<1>8. Len(parts) = Len(others)
  BY <1>0, <1>6, <1>7
<1>9. \A i \in 1..Len(parts) : parts[i] = others[i]
  BY <1>0, <1>5, <1>6, <1>8
<1> QED
  BY <1>0, <1>8, <1>9, SeqEqual

-----------------------------------------------------------------------------
(***************************************************************************)
(* Two values that are written alike are the same: nothing that is written *)
(* of a value goes on from what is written of another.                     *)
(***************************************************************************)
\* No two marks are the same, and no text is one of them.
LEMMA TokensDiffer ==
    /\ comma \notin brackets /\ colon \notin brackets /\ comma # colon
    /\ begin_array \notin {end_array, begin_object, end_object, comma, colon}
    /\ begin_object \notin {end_array, end_object, comma, colon}
    /\ {begin_array, begin_object, end_array, end_object} = brackets
    /\ \A x : quoted(x) \notin brackets /\ quoted(x) # comma /\ quoted(x) # colon
    /\ \A x, y : quoted(x) = quoted(y) => x = y
    /\ \A x : quoted(x)[2] = x
  BY DEF brackets, begin_array, end_array, begin_object, end_object, comma, colon, mark, quoted

\* What is written, by the kind of the value.
LEMMA WrittenStep ==
    ASSUME NEW n \in Nat, NEW json \in JsonValues
    PROVE  /\ written[n] \in Writing /\ written[n][json] \in Seq(Token)
           /\ n = 0 \/ json[1] \notin {"list", "dict"} => written[n][json] = <<quoted(json[2])>>
           /\ n > 0 /\ json[1] = "list" =>
                 written[n][json] =
                     <<begin_array>> \o separated(listed(written[n - 1], json[2])) \o <<end_array>>
           /\ n > 0 /\ json[1] = "dict" =>
                 written[n][json] =
                     <<begin_object>> \o separated(entered(written[n - 1], in_key_order(json[2]), json[2]))
                     \o <<end_object>>
<1>1. written[n] \in Writing
  BY WritingIs
<1>2. written[n][json] \in Seq(Token)
  BY <1>1 DEF Writing
<1>3. PICK below : below = written[n - 1]
  OBVIOUS
<1>4. written[n] = WritingOver(below, n)
  BY <1>3, WritingIs
<1>5. PICK tag, x, w : tag = json[1] /\ x = json[2] /\ w = written[n][json]
  OBVIOUS
<1>6. w = CASE n > 0 /\ tag = "list" ->
                <<begin_array>> \o separated(listed(below, x)) \o <<end_array>>
          [] n > 0 /\ tag = "dict" ->
                <<begin_object>> \o separated(entered(below, in_key_order(x), x))
                \o <<end_object>>
          [] OTHER -> <<quoted(x)>>
  BY <1>4, <1>5 DEF WritingOver
<1>7. ASSUME n > 0, tag = "list"
      PROVE  w = <<begin_array>> \o separated(listed(below, x)) \o <<end_array>>
  BY <1>6, <1>7
<1>8. ASSUME n > 0, tag = "dict"
      PROVE  w = <<begin_object>> \o separated(entered(below, in_key_order(x), x)) \o <<end_object>>
  BY <1>6, <1>8
<1>9. ASSUME n = 0 \/ tag \notin {"list", "dict"} PROVE w = <<quoted(x)>>
  <2>1. ~ (n > 0 /\ tag = "list") /\ ~ (n > 0 /\ tag = "dict")
    BY <1>9
  <2> QED
    BY <1>6, <2>1
<1> QED
  BY <1>1, <1>2, <1>3, <1>5, <1>7, <1>8, <1>9

\* Likeness, by the kind of the value.
LEMMA AlikeStep ==
    ASSUME NEW n \in Nat, NEW x \in JsonValues, NEW y \in JsonValues
    PROVE  /\ n = 0 \/ x[1] \notin {"list", "dict"} =>
                 (alike[n][<<x, y>>] <=> x[1] = y[1] /\ x[2] = y[2])
           /\ n > 0 /\ x[1] = "list" =>
                 (alike[n][<<x, y>>] <=>
                     /\ y[1] = "list" /\ Len(x[2]) = Len(y[2])
                     /\ \A i \in DOMAIN x[2] : alike[n - 1][<<x[2][i], y[2][i]>>])
           /\ n > 0 /\ x[1] = "dict" =>
                 (alike[n][<<x, y>>] <=>
                     /\ y[1] = "dict" /\ named(x[2]) = named(y[2])
                     /\ \A name \in named(x[2]) :
                           alike[n - 1][<<value_of(x[2], name), value_of(y[2], name)>>])
<1>1. PICK below : below = alike[n - 1]
  OBVIOUS
<1>2. alike[n] = AlikeOver(below, n)
  BY <1>1, AlikeIs
<1>3. PICK tag, other, one, two, a : /\ tag = x[1] /\ other = y[1] /\ one = x[2] /\ two = y[2]
                                     /\ a = alike[n][<<x, y>>]
  OBVIOUS
<1>4. <<x, y>> \in JsonValues \X JsonValues /\ <<x, y>>[1] = x /\ <<x, y>>[2] = y
  OBVIOUS
<1>5. AlikeOver(below, n)[<<x, y>>] = (
          /\ tag = other
          /\ CASE n > 0 /\ tag = "list" ->
                    /\ Len(one) = Len(two)
                    /\ \A i \in DOMAIN one : below[<<one[i], two[i]>>]
               [] n > 0 /\ tag = "dict" ->
                    /\ named(one) = named(two)
                    /\ \A name \in named(one) : below[<<value_of(one, name), value_of(two, name)>>]
               [] OTHER -> one = two)
  BY <1>3, <1>4, Zenon DEF AlikeOver
<1>6. a <=> (
          /\ tag = other
          /\ CASE n > 0 /\ tag = "list" ->
                    /\ Len(one) = Len(two)
                    /\ \A i \in DOMAIN one : below[<<one[i], two[i]>>]
               [] n > 0 /\ tag = "dict" ->
                    /\ named(one) = named(two)
                    /\ \A name \in named(one) : below[<<value_of(one, name), value_of(two, name)>>]
               [] OTHER -> one = two)
  BY <1>2, <1>3, <1>5
<1>7. ASSUME n > 0, tag = "list"
      PROVE  a <=> /\ other = "list" /\ Len(one) = Len(two)
                   /\ \A i \in DOMAIN one : below[<<one[i], two[i]>>]
  BY <1>6, <1>7
<1>8. ASSUME n > 0, tag = "dict"
      PROVE  a <=> /\ other = "dict" /\ named(one) = named(two)
                   /\ \A name \in named(one) : below[<<value_of(one, name), value_of(two, name)>>]
  BY <1>6, <1>8
<1>9. ASSUME n = 0 \/ tag \notin {"list", "dict"} PROVE a <=> tag = other /\ one = two
  <2>1. ~ (n > 0 /\ tag = "list") /\ ~ (n > 0 /\ tag = "dict")
    BY <1>9
  <2> QED
    BY <1>6, <2>1
<1> QED
  BY <1>1, <1>3, <1>7, <1>8, <1>9

\* What is written of a value begins with a token that tells of what kind it is.
LEMMA Opening ==
    ASSUME NEW n \in Nat, NEW json \in JsonValues
    PROVE  /\ written[n][json] # << >>
           /\ written[n][json][1] =
                 IF n > 0 /\ json[1] = "list" THEN begin_array
                 ELSE IF n > 0 /\ json[1] = "dict" THEN begin_object ELSE quoted(json[2])
           /\ written[n][json][1] \notin {end_array, end_object, comma, colon}
<1>1. ASSUME NEW s \in Seq(Token), NEW a \in Token, NEW z \in Token, written[n][json] = <<a>> \o s \o <<z>>
      PROVE  written[n][json] # << >> /\ written[n][json][1] = a
  BY <1>1
<1>2. CASE n > 0 /\ json[1] = "list"
  <2>1. /\ listed(written[n - 1], json[2]) \in Seq(Seq(Token))
    <3>1. json[2] \in Seq(JsonValues)
      BY <1>2, Shapes
    <3>2. n - 1 \in Nat
      BY <1>2
    <3>3. written[n - 1] \in Writing
      BY <3>2, WritingIs
    <3> QED
      BY <3>1, <3>3, ListedParts
  <2>2. separated(listed(written[n - 1], json[2])) \in Seq(Token)
    BY <2>1, SeparatedIsTokens
  <2>3. begin_array \in Token /\ end_array \in Token
    BY MarksAreTokens, TokensDiffer
  <2>4. written[n][json] # << >> /\ written[n][json][1] = begin_array
    BY <1>1, <1>2, <2>2, <2>3, WrittenStep
  <2> QED
    BY <1>2, <2>4, TokensDiffer
<1>3. CASE n > 0 /\ json[1] = "dict"
  <2>1. entered(written[n - 1], in_key_order(json[2]), json[2]) \in Seq(Seq(Token))
    <3>1. n - 1 \in Nat
      BY <1>3
    <3>2. written[n - 1] \in Writing
      BY <3>1, WritingIs
    <3> QED
      BY <1>3, <3>2, Entering
  <2>2. separated(entered(written[n - 1], in_key_order(json[2]), json[2])) \in Seq(Token)
    BY <2>1, SeparatedIsTokens
  <2>3. begin_object \in Token /\ end_object \in Token
    BY MarksAreTokens, TokensDiffer
  <2>4. written[n][json] # << >> /\ written[n][json][1] = begin_object
    BY <1>1, <1>3, <2>2, <2>3, WrittenStep
  <2> QED
    BY <1>3, <2>4, TokensDiffer
<1>4. CASE ~ (n > 0 /\ json[1] = "list") /\ ~ (n > 0 /\ json[1] = "dict")
  <2>0. n = 0 \/ json[1] \notin {"list", "dict"}
    BY <1>4
  <2>1. written[n][json] = <<quoted(json[2])>>
    BY <2>0, WrittenStep
  <2>2. quoted(json[2]) \notin {end_array, end_object, comma, colon}
    BY TokensDiffer
  <2> QED
    BY <1>4, <2>1, <2>2
<1> QED
  BY <1>2, <1>3, <1>4

\* What is nested in a value that is not refused is not refused.
LEMMA NestedRefused ==
    ASSUME NEW n \in Nat, NEW json \in JsonValues, ~ refusing[n][json]
    PROVE  /\ json[1] = "str" \/ (n > 0 /\ json[1] \in {"list", "dict"})
           /\ n > 0 => \A i \in DOMAIN nested(json) : ~ refusing[n - 1][nested(json)[i]]
  BY RefusedStep, Shapes

\* Two entries that agree have one name.
LEMMA EntriesAgree ==
    ASSUME NEW s \in Seq(CodePoint), NEW t \in Seq(CodePoint),
           NEW v \in Seq(Token), NEW w \in Seq(Token),
           Agree(<<quoted(s), colon>> \o v, <<quoted(t), colon>> \o w)
    PROVE  s = t /\ Agree(v, w)
<1>1. quoted(s) \in Token /\ quoted(t) \in Token /\ colon \in Token
  BY MarksAreTokens
<1>2. PICK a, b : a = <<quoted(s), colon>> /\ b = <<quoted(t), colon>>
  OBVIOUS
<1>3. a \in Seq(Token) /\ b \in Seq(Token) /\ DOMAIN a = 1..2 /\ DOMAIN b = 1..2
      /\ a[1] = quoted(s) /\ b[1] = quoted(t)
  BY <1>1, <1>2
<1>4. Agree(a, b)
  BY <1>2, <1>3, AgreeBefore
<1>5. quoted(s) = quoted(t)
  <2>1. 1 \in DOMAIN a \cap DOMAIN b
    BY <1>3
  <2> QED
    BY <1>3, <1>4, <2>1 DEF Agree
<1>6. s = t
  BY <1>5, TokensDiffer
<1>7. Agree(a \o v, a \o w)
  BY <1>2, <1>6
<1> QED
  BY <1>3, <1>6, <1>7, AgreeAfter

\* Within the same brackets, what agrees are the parts.
LEMMA BracketsAgree ==
    ASSUME NEW first \in Token, NEW last \in Token, last # comma, NEW parts, NEW others,
           PartsBefore(parts, last), PartsBefore(others, last), Unambiguous(parts, others),
           Agree(<<first>> \o separated(parts) \o <<last>>, <<first>> \o separated(others) \o <<last>>)
    PROVE  parts = others
<1>1. PICK a, z, s, t : /\ a = <<first>> /\ z = <<last>>
                        /\ s = separated(parts) /\ t = separated(others)
  OBVIOUS
<1>2. a \in Seq(Token) /\ z \in Seq(Token)
  BY <1>1
<1>3. s \in Seq(Token) /\ t \in Seq(Token)
  BY <1>1, SeparatedIsTokens DEF PartsBefore
<1>4. (a \o s) \o z = a \o (s \o z) /\ (a \o t) \o z = a \o (t \o z)
  <2>1. a \in Line /\ z \in Line /\ s \in Line /\ t \in Line
    BY <1>2, <1>3 DEF Line
  <2>2. (a \o s) \o z = a \o (s \o z)
    BY <2>1, LinesAssociate
  <2>3. (a \o t) \o z = a \o (t \o z)
    BY <2>1, LinesAssociate
  <2> QED
    BY <2>2, <2>3
<1>5. Agree(a \o (s \o z), a \o (t \o z))
  BY <1>1, <1>4
<1>6. s \o z \in Seq(Token) /\ t \o z \in Seq(Token)
  BY <1>2, <1>3
<1>7. Agree(s \o z, t \o z)
  BY <1>2, <1>5, <1>6, AgreeAfter
<1>8. Agree(separated(parts) \o <<last>>, separated(others) \o <<last>>)
  BY <1>1, <1>7
<1> QED
  BY <1>8, SeparatedAgree

\* Of values that are not refused, none is written as another begins.
ToldApart(n) ==
    \A x, y \in JsonValues :
        ~ refusing[n][x] /\ ~ refusing[n][y] /\ Agree(written[n][x], written[n][y])
        => written[n][x] = written[n][y] /\ alike[n][<<x, y>>]

\* Two lists are told apart when what they hold is.
LEMMA ListsToldApart ==
    ASSUME NEW n \in Nat, ToldApart(n), NEW x \in JsonValues, NEW y \in JsonValues,
           x[1] = "list", y[1] = "list", ~ refusing[n + 1][x], ~ refusing[n + 1][y],
           Agree(written[n + 1][x], written[n + 1][y])
    PROVE  written[n + 1][x] = written[n + 1][y] /\ alike[n + 1][<<x, y>>]
<1>0. n + 1 \in Nat /\ n + 1 > 0 /\ (n + 1) - 1 = n
  OBVIOUS
<1>1. PICK s, t : s = x[2] /\ t = y[2]
  OBVIOUS
<1>2. s \in Seq(JsonValues) /\ t \in Seq(JsonValues)
  BY <1>1, Shapes
<1>3. /\ \A i \in 1..Len(s) : ~ refusing[n][s[i]] /\ s[i] \in JsonValues
      /\ \A i \in 1..Len(t) : ~ refusing[n][t[i]] /\ t[i] \in JsonValues
  <2>1. nested(x) = s /\ nested(y) = t
    BY <1>1, NestedAreValues
  <2>2. /\ \A i \in DOMAIN nested(x) : ~ refusing[n][nested(x)[i]]
        /\ \A i \in DOMAIN nested(y) : ~ refusing[n][nested(y)[i]]
    BY <1>0, NestedRefused
  <2> QED
    BY <1>2, <2>1, <2>2
<1>4. PICK below : below = written[n] /\ below \in Writing
  BY WritingIs
<1>5. PICK parts, others : parts = listed(below, s) /\ others = listed(below, t)
  OBVIOUS
<1>6. /\ parts \in Seq(Seq(Token)) /\ Len(parts) = Len(s) /\ \A i \in 1..Len(s) : parts[i] = written[n][s[i]]
      /\ others \in Seq(Seq(Token)) /\ Len(others) = Len(t) /\ \A i \in 1..Len(t) : others[i] = written[n][t[i]]
  BY <1>2, <1>4, <1>5, ListedParts
<1>7. PartsBefore(parts, end_array) /\ PartsBefore(others, end_array)
  <2>1. \A v \in JsonValues : written[n][v] # << >> /\ written[n][v][1] # end_array
    BY Opening
  <2>2. \A i \in 1..Len(parts) : parts[i] # << >> /\ parts[i][1] # end_array
    <3> SUFFICES ASSUME NEW i \in 1..Len(s) PROVE parts[i] # << >> /\ parts[i][1] # end_array
      BY <1>6
    <3>1. parts[i] = written[n][s[i]] /\ s[i] \in JsonValues
      BY <1>3, <1>6
    <3> QED
      BY <2>1, <3>1, Zenon
  <2>3. \A i \in 1..Len(others) : others[i] # << >> /\ others[i][1] # end_array
    <3> SUFFICES ASSUME NEW i \in 1..Len(t) PROVE others[i] # << >> /\ others[i][1] # end_array
      BY <1>6
    <3>1. others[i] = written[n][t[i]] /\ t[i] \in JsonValues
      BY <1>3, <1>6
    <3> QED
      BY <2>1, <3>1, Zenon
  <2> QED
    BY <1>6, <2>2, <2>3 DEF PartsBefore
<1>8. \A i \in 1..Len(s), j \in 1..Len(t) :
          Agree(parts[i], others[j]) => parts[i] = others[j] /\ alike[n][<<s[i], t[j]>>]
  <2> SUFFICES ASSUME NEW i \in 1..Len(s), NEW j \in 1..Len(t), Agree(parts[i], others[j])
               PROVE  parts[i] = others[j] /\ alike[n][<<s[i], t[j]>>]
    OBVIOUS
  <2>1. s[i] \in JsonValues /\ t[j] \in JsonValues /\ ~ refusing[n][s[i]] /\ ~ refusing[n][t[j]]
    BY <1>3
  <2>2. parts[i] = written[n][s[i]] /\ others[j] = written[n][t[j]]
    BY <1>6
  <2> QED
    BY <2>1, <2>2 DEF ToldApart
<1>9. Unambiguous(parts, others)
  BY <1>6, <1>8 DEF Unambiguous
<1>10. /\ written[n + 1][x] = <<begin_array>> \o separated(parts) \o <<end_array>>
       /\ written[n + 1][y] = <<begin_array>> \o separated(others) \o <<end_array>>
  BY <1>0, <1>1, <1>4, <1>5, WrittenStep
<1>11. begin_array \in Token /\ end_array \in Token /\ end_array # comma
  BY MarksAreTokens, TokensDiffer
<1>12. parts = others
  BY <1>7, <1>9, <1>10, <1>11, BracketsAgree
<1>13. Len(s) = Len(t)
  BY <1>6, <1>12
<1>14. \A i \in 1..Len(s) : alike[n][<<s[i], t[i]>>]
  <2> SUFFICES ASSUME NEW i \in 1..Len(s) PROVE alike[n][<<s[i], t[i]>>]
    OBVIOUS
  <2>1. Agree(parts[i], others[i])
    BY <1>12 DEF Agree
  <2> QED
    BY <1>8, <1>13, <2>1
<1>15. DOMAIN s = 1..Len(s)
  BY <1>2
<1>16. alike[n + 1][<<x, y>>]
  BY <1>0, <1>1, <1>13, <1>14, <1>15, AlikeStep
<1> QED
  BY <1>10, <1>12, <1>16

\* What an object that is not refused holds.
LEMMA NamedValues ==
    ASSUME NEW n \in Nat, NEW x \in JsonValues, x[1] = "dict", ~ refusing[n + 1][x]
    PROVE  \A name \in named(x[2]) :
              /\ name \in Seq(CodePoint)
              /\ value_of(x[2], name) \in JsonValues /\ ~ refusing[n][value_of(x[2], name)]
<1>0. n + 1 \in Nat /\ n + 1 > 0 /\ (n + 1) - 1 = n
  OBVIOUS
<1>1. PICK e : e = x[2]
  OBVIOUS
<1>2. /\ e \in Seq(Seq(CodePoint) \X JsonValues)
      /\ \A i, j \in DOMAIN e : e[i][1] = e[j][1] => i = j
  BY <1>1, Shapes
<1>3. nested(x) = [i \in DOMAIN e |-> e[i][2]]
  BY <1>1, NestedAreValues
<1>4. \A i \in DOMAIN nested(x) : ~ refusing[n][nested(x)[i]]
  BY <1>0, NestedRefused
<1>5. \A i \in DOMAIN e : ~ refusing[n][e[i][2]]
  BY <1>3, <1>4
<1> SUFFICES ASSUME NEW name \in named(e)
             PROVE  name \in Seq(CodePoint) /\ value_of(e, name) \in JsonValues
                    /\ ~ refusing[n][value_of(e, name)]
  BY <1>1
<1>6. PICK i \in DOMAIN e : name = e[i][1] /\ value_of(e, name) = e[i][2]
  BY <1>2, Entries
<1>7. e[i][2] \in JsonValues /\ name \in Seq(CodePoint)
  BY <1>2, Entries
<1> QED
  BY <1>5, <1>6, <1>7

\* Two objects are told apart when what they hold is.
LEMMA DictsToldApart ==
    ASSUME NEW n \in Nat, ToldApart(n), NEW x \in JsonValues, NEW y \in JsonValues,
           x[1] = "dict", y[1] = "dict", ~ refusing[n + 1][x], ~ refusing[n + 1][y],
           Agree(written[n + 1][x], written[n + 1][y])
    PROVE  written[n + 1][x] = written[n + 1][y] /\ alike[n + 1][<<x, y>>]
<1>0. n + 1 \in Nat /\ n + 1 > 0 /\ (n + 1) - 1 = n
  OBVIOUS
<1>1. PICK s, t : s = x[2] /\ t = y[2]
  OBVIOUS
<1>2. /\ \A name \in named(s) : name \in Seq(CodePoint) /\ value_of(s, name) \in JsonValues
                                /\ ~ refusing[n][value_of(s, name)]
      /\ \A name \in named(t) : name \in Seq(CodePoint) /\ value_of(t, name) \in JsonValues
                                /\ ~ refusing[n][value_of(t, name)]
  BY <1>1, NamedValues
<1>3. PICK below : below = written[n] /\ below \in Writing
  BY WritingIs
<1>4. PICK names, keys : names = in_key_order(s) /\ keys = in_key_order(t)
  OBVIOUS
<1>5. PICK parts, others : parts = entered(below, names, s) /\ others = entered(below, keys, t)
  OBVIOUS
<1>6. /\ names \in Seq(Seq(CodePoint)) /\ ToSet(names) = named(s)
      /\ parts \in Seq(Seq(Token)) /\ Len(parts) = Len(names)
      /\ \A i \in 1..Len(names) : names[i] \in named(s)
            /\ parts[i] = <<quoted(names[i]), colon>> \o below[value_of(s, names[i])]
  BY <1>1, <1>3, <1>4, <1>5, Entering
<1>7. /\ keys \in Seq(Seq(CodePoint)) /\ ToSet(keys) = named(t)
      /\ others \in Seq(Seq(Token)) /\ Len(others) = Len(keys)
      /\ \A i \in 1..Len(keys) : keys[i] \in named(t)
            /\ others[i] = <<quoted(keys[i]), colon>> \o below[value_of(t, keys[i])]
  BY <1>1, <1>3, <1>4, <1>5, Entering
<1>8. ASSUME NEW name \in Seq(CodePoint), NEW v \in Seq(Token)
      PROVE  <<quoted(name), colon>> \o v # << >> /\ (<<quoted(name), colon>> \o v)[1] # end_object
  <2>1. PICK a : a = <<quoted(name), colon>>
    OBVIOUS
  <2>2. a \in Seq(Token) /\ Len(a) = 2 /\ a[1] = quoted(name)
    BY <2>1, MarksAreTokens
  <2>3. PICK w : w = a \o v
    OBVIOUS
  <2>c. /\ w \in Seq(Token) /\ Len(w) = Len(a) + Len(v)
        /\ \A i \in 1..(Len(a) + Len(v)) : w[i] = IF i <= Len(a) THEN a[i] ELSE v[i - Len(a)]
    BY <2>2, <2>3, ConcatProperties
  <2>4. /\ w \in Seq(Token) /\ Len(w) = 2 + Len(v)
        /\ \A i \in 1..(2 + Len(v)) : w[i] = IF i <= 2 THEN a[i] ELSE v[i - 2]
    BY <2>2, <2>c
  <2>5. Len(v) \in Nat /\ 1 \in 1..(2 + Len(v)) /\ 1 <= 2
    OBVIOUS
  <2>6. w[1] = quoted(name) /\ Len(w) # 0
    BY <2>2, <2>4, <2>5
  <2>7. quoted(name) # end_object
    BY TokensDiffer
  <2> QED
    BY <2>1, <2>3, <2>4, <2>6, <2>7
<1>9. \A v \in JsonValues : below[v] \in Seq(Token)
  BY <1>3 DEF Writing
<1>10. PartsBefore(parts, end_object)
  <2> SUFFICES ASSUME NEW i \in 1..Len(names) PROVE parts[i] # << >> /\ parts[i][1] # end_object
    BY <1>6 DEF PartsBefore
  <2>1. names[i] \in Seq(CodePoint) /\ below[value_of(s, names[i])] \in Seq(Token)
    BY <1>2, <1>6, <1>9
  <2>2. parts[i] = <<quoted(names[i]), colon>> \o below[value_of(s, names[i])]
    BY <1>6
  <2> QED
    BY <1>8, <2>1, <2>2
<1>11. PartsBefore(others, end_object)
  <2> SUFFICES ASSUME NEW i \in 1..Len(keys) PROVE others[i] # << >> /\ others[i][1] # end_object
    BY <1>7 DEF PartsBefore
  <2>1. keys[i] \in Seq(CodePoint) /\ below[value_of(t, keys[i])] \in Seq(Token)
    BY <1>2, <1>7, <1>9
  <2>2. others[i] = <<quoted(keys[i]), colon>> \o below[value_of(t, keys[i])]
    BY <1>7
  <2> QED
    BY <1>8, <2>1, <2>2
<1>12. ASSUME NEW i \in 1..Len(names), NEW j \in 1..Len(keys), Agree(parts[i], others[j])
       PROVE  /\ names[i] = keys[j] /\ parts[i] = others[j]
              /\ alike[n][<<value_of(s, names[i]), value_of(t, keys[j])>>]
  <2>1. PICK v, w : v = value_of(s, names[i]) /\ w = value_of(t, keys[j])
    OBVIOUS
  <2>2. v \in JsonValues /\ w \in JsonValues /\ ~ refusing[n][v] /\ ~ refusing[n][w]
    BY <1>2, <1>6, <1>7, <2>1
  <2>3. names[i] \in Seq(CodePoint) /\ keys[j] \in Seq(CodePoint)
    BY <1>2, <1>6, <1>7
  <2>4. below[v] \in Seq(Token) /\ below[w] \in Seq(Token)
    BY <1>9, <2>2
  <2>5. /\ parts[i] = <<quoted(names[i]), colon>> \o below[v]
        /\ others[j] = <<quoted(keys[j]), colon>> \o below[w]
    BY <1>6, <1>7, <2>1
  <2>6. Agree(<<quoted(names[i]), colon>> \o below[v], <<quoted(keys[j]), colon>> \o below[w])
    BY <1>12, <2>5
  <2>7. names[i] = keys[j] /\ Agree(below[v], below[w])
    BY <2>3, <2>4, <2>6, EntriesAgree
  <2>8. below[v] = below[w] /\ alike[n][<<v, w>>]
    BY <1>3, <2>2, <2>7 DEF ToldApart
  <2> QED
    BY <2>1, <2>5, <2>7, <2>8
<1>13. Unambiguous(parts, others)
  BY <1>6, <1>7, <1>12 DEF Unambiguous
<1>14. /\ written[n + 1][x] = <<begin_object>> \o separated(parts) \o <<end_object>>
       /\ written[n + 1][y] = <<begin_object>> \o separated(others) \o <<end_object>>
  BY <1>0, <1>1, <1>3, <1>4, <1>5, WrittenStep
<1>15. begin_object \in Token /\ end_object \in Token /\ end_object # comma
  BY MarksAreTokens, TokensDiffer
<1>16. parts = others
  BY <1>10, <1>11, <1>13, <1>14, <1>15, BracketsAgree
<1>17. Len(names) = Len(keys)
  BY <1>6, <1>7, <1>16
<1>18. ASSUME NEW i \in 1..Len(names)
       PROVE  names[i] = keys[i] /\ alike[n][<<value_of(s, names[i]), value_of(t, names[i])>>]
  <2>1. Agree(parts[i], others[i])
    BY <1>16 DEF Agree
  <2>2. i \in 1..Len(keys)
    BY <1>17
  <2> QED
    BY <1>12, <2>1, <2>2
<1>19. names = keys
  <2>1. names \in Seq(Seq(CodePoint)) /\ keys \in Seq(Seq(CodePoint)) /\ Len(names) = Len(keys)
    BY <1>6, <1>7, <1>17
  <2>2. \A i \in 1..Len(names) : names[i] = keys[i]
    BY <1>18
  <2> QED
    BY <2>1, <2>2, SeqEqual
<1>20. named(s) = named(t)
  BY <1>6, <1>7, <1>19
<1>21. \A name \in named(s) : alike[n][<<value_of(s, name), value_of(t, name)>>]
  <2> SUFFICES ASSUME NEW name \in named(s) PROVE alike[n][<<value_of(s, name), value_of(t, name)>>]
    OBVIOUS
  <2>1. PICK i \in DOMAIN names : name = names[i]
    BY <1>6 DEF ToSet
  <2>2. i \in 1..Len(names)
    BY <1>6
  <2> QED
    BY <1>18, <2>1, <2>2
<1>22. alike[n + 1][<<x, y>>]
  BY <1>0, <1>1, <1>20, <1>21, AlikeStep
<1> QED
  BY <1>14, <1>16, <1>22

\* A text is told apart from everything.
LEMMA TextsToldApart ==
    ASSUME NEW n \in Nat, NEW x \in JsonValues, NEW y \in JsonValues,
           x[1] = "str" \/ y[1] = "str", ~ refusing[n][x], ~ refusing[n][y],
           Agree(written[n][x], written[n][y])
    PROVE  written[n][x] = written[n][y] /\ alike[n][<<x, y>>]
<1>1. PICK v, w : v = written[n][x] /\ w = written[n][y]
  OBVIOUS
<1>2. /\ v \in Seq(Token) /\ v # << >> /\ w \in Seq(Token) /\ w # << >>
  BY <1>1, Opening, WrittenStep
<1>3. v[1] = w[1]
  <2>1. 1 \in DOMAIN v \cap DOMAIN w
    BY <1>2
  <2> QED
    BY <1>1, <2>1 DEF Agree
<1>4. /\ x[1] = "str" \/ (n > 0 /\ x[1] \in {"list", "dict"})
      /\ y[1] = "str" \/ (n > 0 /\ y[1] \in {"list", "dict"})
  BY NestedRefused
<1>5. /\ v[1] = IF n > 0 /\ x[1] = "list" THEN begin_array
               ELSE IF n > 0 /\ x[1] = "dict" THEN begin_object ELSE quoted(x[2])
      /\ w[1] = IF n > 0 /\ y[1] = "list" THEN begin_array
               ELSE IF n > 0 /\ y[1] = "dict" THEN begin_object ELSE quoted(y[2])
  BY <1>1, Opening
<1>6. \A z : quoted(z) # begin_array /\ quoted(z) # begin_object
  BY TokensDiffer
<1>7. x[1] = "str" /\ y[1] = "str"
  BY <1>3, <1>4, <1>5, <1>6
<1>8. quoted(x[2]) = quoted(y[2])
  BY <1>3, <1>5, <1>7
<1>9. x[2] = y[2]
  BY <1>8, TokensDiffer
<1>10. x[1] \notin {"list", "dict"} /\ y[1] \notin {"list", "dict"}
  BY <1>7
<1>11. written[n][x] = <<quoted(x[2])>> /\ written[n][y] = <<quoted(y[2])>>
  BY <1>10, WrittenStep
<1>12. alike[n][<<x, y>>]
  BY <1>7, <1>9, <1>10, AlikeStep
<1> QED
  BY <1>9, <1>11, <1>12

\* At every depth what is not refused is told apart.
LEMMA AllToldApart ==
    \A n \in Nat : ToldApart(n)
<1> DEFINE S == {n \in Nat : ToldApart(n)}
<1>1. 0 \in S
  <2> SUFFICES ASSUME NEW x \in JsonValues, NEW y \in JsonValues,
                      ~ refusing[0][x], ~ refusing[0][y], Agree(written[0][x], written[0][y])
               PROVE  written[0][x] = written[0][y] /\ alike[0][<<x, y>>]
    BY DEF ToldApart
  <2>1. x[1] = "str"
    BY NestedRefused
  <2> QED
    BY <2>1, TextsToldApart
<1>2. ASSUME NEW n \in Nat, n \in S PROVE n + 1 \in S
  <2>0. n + 1 \in Nat /\ ToldApart(n)
    BY <1>2
  <2> SUFFICES ASSUME NEW x \in JsonValues, NEW y \in JsonValues,
                      ~ refusing[n + 1][x], ~ refusing[n + 1][y],
                      Agree(written[n + 1][x], written[n + 1][y])
               PROVE  written[n + 1][x] = written[n + 1][y] /\ alike[n + 1][<<x, y>>]
    BY <2>0 DEF ToldApart
  <2>1. CASE x[1] = "str" \/ y[1] = "str"
    BY <2>0, <2>1, TextsToldApart
  <2>2. CASE x[1] = "list" /\ y[1] = "list"
    BY <2>0, <2>2, ListsToldApart
  <2>3. CASE x[1] = "dict" /\ y[1] = "dict"
    BY <2>0, <2>3, DictsToldApart
  <2>4. x[1] \in {"str", "list", "dict"} /\ y[1] \in {"str", "list", "dict"}
    BY <2>0, NestedRefused
  <2>5. x[1] \in {"list", "dict"} /\ y[1] \in {"list", "dict"} => x[1] = y[1]
    <3> SUFFICES ASSUME x[1] \in {"list", "dict"}, y[1] \in {"list", "dict"} PROVE x[1] = y[1]
      OBVIOUS
    <3>1. PICK v, w : v = written[n + 1][x] /\ w = written[n + 1][y]
      OBVIOUS
    <3>2. v \in Seq(Token) /\ v # << >> /\ w \in Seq(Token) /\ w # << >>
      BY <2>0, <3>1, Opening, WrittenStep
    <3>3. v[1] = w[1]
      <4>1. 1 \in DOMAIN v \cap DOMAIN w
        BY <3>2
      <4> QED
        BY <3>1, <4>1 DEF Agree
    <3>4. n + 1 > 0
      OBVIOUS
    <3>5. /\ v[1] = IF x[1] = "list" THEN begin_array ELSE begin_object
          /\ w[1] = IF y[1] = "list" THEN begin_array ELSE begin_object
      BY <2>0, <3>1, <3>4, Opening
    <3>6. begin_array # begin_object
      BY TokensDiffer
    <3>7. PICK a, b : a = x[1] /\ b = y[1]
      OBVIOUS
    <3>8. (IF a = "list" THEN begin_array ELSE begin_object)
          = IF b = "list" THEN begin_array ELSE begin_object
      BY <3>3, <3>5, <3>7
    <3>9. a \in {"list", "dict"} /\ b \in {"list", "dict"}
      BY <3>7
    <3>10. a = b
      BY <3>6, <3>8, <3>9
    <3> QED
      BY <3>7, <3>10
  <2> QED
    BY <2>1, <2>2, <2>3, <2>4, <2>5
<1> HIDE DEF S
<1>3. Nat \subseteq S
  BY <1>1, <1>2, ForEveryNumber
<1> QED
  BY <1>3 DEF S

\* What is alike is written alike.
WrittenAlike(n) ==
    \A x, y \in JsonValues : alike[n][<<x, y>>] => written[n][x] = written[n][y]

\* This is so at every depth.
LEMMA AllWrittenAlike ==
    \A n \in Nat : WrittenAlike(n)
<1> DEFINE S == {n \in Nat : WrittenAlike(n)}
<1>1. ASSUME NEW n \in Nat, NEW x \in JsonValues, NEW y \in JsonValues, alike[n][<<x, y>>],
             n = 0 \/ x[1] \notin {"list", "dict"}
      PROVE  written[n][x] = written[n][y]
  <2>1. x[1] = y[1] /\ x[2] = y[2]
    BY <1>1, AlikeStep
  <2>2. n = 0 \/ y[1] \notin {"list", "dict"}
    BY <1>1, <2>1
  <2>3. written[n][x] = <<quoted(x[2])>>
    BY <1>1, WrittenStep
  <2>4. written[n][y] = <<quoted(y[2])>>
    BY <2>2, WrittenStep
  <2> QED
    BY <2>1, <2>3, <2>4
<1>2. 0 \in S
  BY <1>1 DEF WrittenAlike
<1>3. ASSUME NEW n \in Nat, n \in S PROVE n + 1 \in S
  <2>0. n + 1 \in Nat /\ n + 1 > 0 /\ (n + 1) - 1 = n /\ WrittenAlike(n)
    BY <1>3
  <2> SUFFICES ASSUME NEW x \in JsonValues, NEW y \in JsonValues, alike[n + 1][<<x, y>>]
               PROVE  written[n + 1][x] = written[n + 1][y]
    BY <2>0 DEF WrittenAlike
  <2>1. PICK below : below = written[n] /\ below \in Writing
    BY WritingIs
  <2>2. PICK s, t : s = x[2] /\ t = y[2]
    OBVIOUS
  <2>3. CASE x[1] = "list"
    <3>0. /\ y[1] = "list" /\ Len(x[2]) = Len(y[2])
          /\ \A i \in DOMAIN x[2] : alike[(n + 1) - 1][<<x[2][i], y[2][i]>>]
      BY <2>0, <2>3, AlikeStep
    <3>1. /\ y[1] = "list" /\ Len(s) = Len(t)
          /\ \A i \in DOMAIN s : alike[n][<<s[i], t[i]>>]
      BY <2>0, <2>2, <3>0
    <3>2. s \in Seq(JsonValues) /\ t \in Seq(JsonValues)
      BY <2>2, <2>3, <3>1, Shapes
    <3>3. /\ Len(listed(below, s)) = Len(s) /\ listed(below, s) \in Seq(Seq(Token))
          /\ \A i \in 1..Len(s) : listed(below, s)[i] = below[s[i]]
          /\ Len(listed(below, t)) = Len(t) /\ listed(below, t) \in Seq(Seq(Token))
          /\ \A i \in 1..Len(t) : listed(below, t)[i] = below[t[i]]
      BY <2>1, <3>2, ListedParts
    <3>4. ASSUME NEW i \in 1..Len(s) PROVE listed(below, s)[i] = listed(below, t)[i]
      <4>1. s[i] \in JsonValues /\ t[i] \in JsonValues /\ i \in DOMAIN s /\ i \in 1..Len(t)
        BY <3>1, <3>2
      <4>2. below[s[i]] = below[t[i]]
        BY <2>0, <2>1, <3>1, <4>1 DEF WrittenAlike
      <4> QED
        BY <3>3, <4>1, <4>2
    <3>5. listed(below, s) = listed(below, t)
      <4>1. PICK p, q : p = listed(below, s) /\ q = listed(below, t)
        OBVIOUS
      <4>2. /\ p \in Seq(Seq(Token)) /\ q \in Seq(Seq(Token)) /\ Len(p) = Len(q)
            /\ \A i \in 1..Len(p) : p[i] = q[i]
        BY <3>1, <3>3, <3>4, <4>1
      <4> QED
        BY <4>1, <4>2, SeqEqual
    <3>6. /\ written[n + 1][x] = <<begin_array>> \o separated(listed(below, s)) \o <<end_array>>
          /\ written[n + 1][y] = <<begin_array>> \o separated(listed(below, t)) \o <<end_array>>
      BY <2>0, <2>1, <2>2, <2>3, <3>1, WrittenStep
    <3> QED
      BY <3>5, <3>6
  <2>4. CASE x[1] = "dict"
    <3>1. /\ y[1] = "dict" /\ named(s) = named(t)
          /\ \A name \in named(s) : alike[n][<<value_of(s, name), value_of(t, name)>>]
      BY <2>0, <2>2, <2>4, AlikeStep
    <3>2. PICK names : names = in_key_order(s) /\ names = in_key_order(t)
      BY <3>1 DEF in_key_order
    <3>3. PICK p, q : p = entered(below, names, s) /\ q = entered(below, names, t)
      OBVIOUS
    <3>4. /\ p \in Seq(Seq(Token)) /\ Len(p) = Len(names)
          /\ \A i \in 1..Len(names) :
                /\ names[i] \in named(s) /\ value_of(s, names[i]) \in JsonValues
                /\ p[i] = <<quoted(names[i]), colon>> \o below[value_of(s, names[i])]
      <4>1. names = in_key_order(x[2]) /\ p = entered(below, in_key_order(x[2]), x[2]) /\ s = x[2]
        BY <2>2, <3>2, <3>3
      <4>2. /\ entered(below, in_key_order(x[2]), x[2]) \in Seq(Seq(Token))
            /\ Len(entered(below, in_key_order(x[2]), x[2])) = Len(in_key_order(x[2]))
            /\ \A i \in 1..Len(in_key_order(x[2])) :
                  /\ in_key_order(x[2])[i] \in named(x[2])
                  /\ value_of(x[2], in_key_order(x[2])[i]) \in JsonValues
                  /\ entered(below, in_key_order(x[2]), x[2])[i]
                     = <<quoted(in_key_order(x[2])[i]), colon>>
                       \o below[value_of(x[2], in_key_order(x[2])[i])]
        BY <2>1, <2>4, Entering
      <4> QED
        BY <4>1, <4>2, Zenon
    <3>5. /\ q \in Seq(Seq(Token)) /\ Len(q) = Len(names)
          /\ \A i \in 1..Len(names) :
                /\ names[i] \in named(t) /\ value_of(t, names[i]) \in JsonValues
                /\ q[i] = <<quoted(names[i]), colon>> \o below[value_of(t, names[i])]
      <4>1. names = in_key_order(y[2]) /\ q = entered(below, in_key_order(y[2]), y[2]) /\ t = y[2]
        BY <2>2, <3>2, <3>3
      <4>2. /\ entered(below, in_key_order(y[2]), y[2]) \in Seq(Seq(Token))
            /\ Len(entered(below, in_key_order(y[2]), y[2])) = Len(in_key_order(y[2]))
            /\ \A i \in 1..Len(in_key_order(y[2])) :
                  /\ in_key_order(y[2])[i] \in named(y[2])
                  /\ value_of(y[2], in_key_order(y[2])[i]) \in JsonValues
                  /\ entered(below, in_key_order(y[2]), y[2])[i]
                     = <<quoted(in_key_order(y[2])[i]), colon>>
                       \o below[value_of(y[2], in_key_order(y[2])[i])]
        BY <2>1, <3>1, Entering
      <4> QED
        BY <4>1, <4>2, Zenon
    <3>6. ASSUME NEW i \in 1..Len(names) PROVE p[i] = q[i]
      <4>1. PICK v, w : v = value_of(s, names[i]) /\ w = value_of(t, names[i])
        OBVIOUS
      <4>2. v \in JsonValues /\ w \in JsonValues /\ alike[n][<<v, w>>]
        BY <3>1, <3>4, <3>5, <4>1
      <4>3. below[v] = below[w]
        BY <2>0, <2>1, <4>2 DEF WrittenAlike
      <4> QED
        BY <3>4, <3>5, <4>1, <4>3
    <3>7. p = q
      <4>1. /\ p \in Seq(Seq(Token)) /\ q \in Seq(Seq(Token)) /\ Len(p) = Len(q)
            /\ \A i \in 1..Len(p) : p[i] = q[i]
        BY <3>4, <3>5, <3>6
      <4> QED
        BY <4>1, SeqEqual
    <3>8. /\ written[n + 1][x] = <<begin_object>> \o separated(p) \o <<end_object>>
          /\ written[n + 1][y] = <<begin_object>> \o separated(q) \o <<end_object>>
      BY <2>0, <2>1, <2>2, <2>4, <3>1, <3>2, <3>3, WrittenStep
    <3> QED
      BY <3>7, <3>8
  <2> QED
    BY <1>1, <2>0, <2>3, <2>4
<1> HIDE DEF S
<1>4. Nat \subseteq S
  BY <1>2, <1>3, ForEveryNumber
<1> QED
  BY <1>4 DEF S

\* The bytes of two values are the same exactly when the values are.
LEMMA BytesMean ==
    ASSUME NEW x \in JsonValues, NEW y \in JsonValues, canonical_json_bytes(x) # refused
    PROVE  (canonical_json_bytes(y) = canonical_json_bytes(x))
           <=> (canonical_json_bytes(y) # refused /\ same(x, y))
<1>1. MAX_DEPTH \in Nat
  BY JsonAssumption
<1>2. ~ refusing[MAX_DEPTH][x] /\ canonical_json_bytes(x) = written[MAX_DEPTH][x]
  BY DEF canonical_json_bytes, refuses, dumps
<1>3. canonical_json_bytes(y) # refused =>
          ~ refusing[MAX_DEPTH][y] /\ canonical_json_bytes(y) = written[MAX_DEPTH][y]
  BY DEF canonical_json_bytes, refuses, dumps
<1>4. ASSUME canonical_json_bytes(y) = canonical_json_bytes(x)
      PROVE  canonical_json_bytes(y) # refused /\ same(x, y)
  <2>1. canonical_json_bytes(y) # refused
    BY <1>4
  <2>2. Agree(written[MAX_DEPTH][x], written[MAX_DEPTH][y])
    BY <1>2, <1>3, <1>4, <2>1 DEF Agree
  <2>3. alike[MAX_DEPTH][<<x, y>>]
    BY <1>1, <1>2, <1>3, <2>1, <2>2, AllToldApart DEF ToldApart
  <2> QED
    BY <2>1, <2>3 DEF same
<1>5. ASSUME canonical_json_bytes(y) # refused, same(x, y)
      PROVE  canonical_json_bytes(y) = canonical_json_bytes(x)
  <2>1. written[MAX_DEPTH][x] = written[MAX_DEPTH][y]
    BY <1>1, <1>5, AllWrittenAlike DEF same, WrittenAlike
  <2> QED
    BY <1>2, <1>3, <1>5, <2>1
<1> QED
  BY <1>4, <1>5

-----------------------------------------------------------------------------
(***************************************************************************)
(* The steps of writing a value, and what the bytes mean.                  *)
(***************************************************************************)
\* What a refusal is told by: nothing that is written is empty.
LEMMA NeverEmpty ==
    ASSUME NEW json \in JsonValues
    PROVE  (canonical_json_bytes(json) = refused) <=> refuses(json)
<1>1. MAX_DEPTH \in Nat
  BY JsonAssumption
<1>2. dumps(json) # refused
  BY <1>1, Opening DEF dumps, refused
<1> QED
  BY <1>2 DEF canonical_json_bytes

\* What is written is the canonical form of a value there is.
JsonInv ==
    \/ NoJson
    \/ value \in JsonValues /\ (bytes = None \/ bytes = canonical_json_bytes(value))

\* Serializing keeps it.
LEMMA JsonStep ==
    ASSUME JsonInv, Serialize
    PROVE  JsonInv'
<1>1. value \in JsonValues
  BY DEF JsonInv, NoJson, Serialize
<1>2. value' = value /\ bytes' = canonical_json_bytes(value)
  BY DEF Serialize
<1> QED
  BY <1>1, <1>2 DEF JsonInv

\* So does any step of something else.
LEMMA JsonStays ==
    ASSUME JsonInv, UNCHANGED json_vars
    PROVE  JsonInv'
<1>1. value' = value /\ bytes' = bytes
  BY DEF json_vars
<1> QED
  BY <1>1 DEF JsonInv, NoJson

\* The bytes are those of the value, at every moment.
LEMMA JsonProvenance == Spec => []JsonInv
<1>1. Init => JsonInv
  BY DEF Init, JsonInit, JsonInv
<1>2. JsonInv /\ [Next]_vars => JsonInv'
  <2> SUFFICES ASSUME JsonInv, [Next]_vars PROVE JsonInv'
    OBVIOUS
  <2>1. Serialize \/ UNCHANGED json_vars
    BY DEF Next, vars
  <2> QED
    BY <2>1, JsonStep, JsonStays
<1> QED
  BY <1>1, <1>2, PTL DEF Spec

\* What is there once there are bytes.
LEMMA JsonWritten ==
    ASSUME JsonInv, bytes # None
    PROVE  value \in JsonValues /\ bytes = canonical_json_bytes(value)
  BY DEF JsonInv, NoJson

\* The reasons for a refusal.
LEMMA RefusalSafe ==
    ASSUME JsonInv
    PROVE  RefusedExactlyWhenTooDeep
<1> SUFFICES ASSUME bytes # None
             PROVE  (bytes = refused) <=>
                        \E depth \in 0..Deepest : \E inner \in level[depth][value] :
                            inner[1] = "number" \/ (inner[1] # "str" /\ depth >= MAX_DEPTH)
  BY DEF RefusedExactlyWhenTooDeep
<1>1. value \in JsonValues /\ bytes = canonical_json_bytes(value)
  BY JsonWritten
<1>2. (bytes = refused) <=> refuses(value)
  BY <1>1, NeverEmpty
<1> QED
  BY <1>1, <1>2, RefusedWhen

\* What the bytes mean.
LEMMA MeaningSafe ==
    ASSUME JsonInv
    PROVE  BytesMeanTheValue
<1> SUFFICES ASSUME bytes \notin {None, refused}, NEW other \in Written
             PROVE  (other[2] = bytes) <=> (other[2] # refused /\ same(value, other[1]))
  BY DEF BytesMeanTheValue
<1>1. value \in JsonValues /\ bytes = canonical_json_bytes(value)
  BY JsonWritten
<1>2. PICK y \in JsonValues : other = <<y, canonical_json_bytes(y)>>
  BY DEF Written
<1>3. other[1] = y /\ other[2] = canonical_json_bytes(y)
  BY <1>2
<1> QED
  BY <1>1, <1>3, BytesMean

\* A value of any shape is refused exactly when something in it is no text, list or object, or
\* is nested deeper than the limit, whatever the limit (canonical.py:85-104).
THEOREM RefusedOnlyWhenTooDeep == Spec => []RefusedExactlyWhenTooDeep
  BY JsonProvenance, RefusalSafe, PTL

\* Two values of any shape have the same canonical bytes exactly when they are the same up to
\* the order of keys: no two sequences of tokens run together (canonical.py:51-82).
THEOREM MeaningOfBytes == Spec => []BytesMeanTheValue
  BY JsonProvenance, MeaningSafe, PTL

-----------------------------------------------------------------------------
(***************************************************************************)
(* The order of keys: between two keys of one object every bracket that is *)
(* opened is closed.                                                       *)
(***************************************************************************)
\* One text comes before another as JavaScript compares them.
Precedes(text, other) == Before(ranks(text), ranks(other))

\* No bracket stands after a place and up to another.
Unbroken(s, i, j) == \A n \in (i + 1)..j : s[n] \notin brackets

\* The keys of one object are in order, as far as they are written.
KeysOrdered(s) ==
    \A i, j \in 1..Len(s) :
        i < j /\ s[i] = colon /\ s[j] = colon /\ Unbroken(s, i, j - 1)
        => Precedes(s[i - 1][2], s[j - 1][2])

\* The keys of the object that is being written are among these.
Keyed(s, names) ==
    /\ KeysOrdered(s)
    /\ \A i \in 1..Len(s) :
          s[i] = colon => /\ i > 1
                          /\ Unbroken(s, i, Len(s)) => \E name \in names : s[i - 1] = quoted(name)

\* Everything that has keys is between brackets.
Closed(s) ==
    /\ KeysOrdered(s)
    /\ \A i \in 1..Len(s) :
          s[i] = colon => /\ \E n \in 1..(i - 1) : s[n] \in brackets
                          /\ \E n \in (i + 1)..Len(s) : s[n] \in brackets

\* Adding what is closed leaves the keys as they are.
LEMMA AddingClosed ==
    ASSUME NEW s \in Seq(Token), NEW v \in Seq(Token), NEW names, Keyed(s, names), Closed(v)
    PROVE  Keyed(s \o v, names)
<1>1. PICK c : c = s \o v
  OBVIOUS
<1>2. PICK m, k : m = Len(s) /\ k = Len(v)
  OBVIOUS
<1>3. /\ m \in Nat /\ k \in Nat /\ Len(c) = m + k
      /\ \A i \in 1..m : c[i] = s[i]
      /\ \A i \in 1..k : c[m + i] = v[i]
  BY <1>1, <1>2
<1>4. ASSUME NEW i \in 1..(m + k), NEW j \in 1..(m + k), i < j, c[i] = colon, c[j] = colon,
             Unbroken(c, i, j - 1)
      PROVE  Precedes(c[i - 1][2], c[j - 1][2])
  <2>1. CASE j =< m
    <3>1. i \in 1..m /\ j \in 1..m /\ s[i] = colon /\ s[j] = colon
      BY <1>3, <1>4, <2>1
    <3>2. Unbroken(s, i, j - 1)
      BY <1>3, <1>4, <2>1 DEF Unbroken
    <3>3. i > 1 /\ j > 1
      BY <1>2, <3>1 DEF Keyed
    <3>4. Precedes(s[i - 1][2], s[j - 1][2])
      BY <1>2, <1>4, <3>1, <3>2 DEF Keyed, KeysOrdered
    <3>5. c[i - 1] = s[i - 1] /\ c[j - 1] = s[j - 1]
      <4>1. i - 1 \in 1..m /\ j - 1 \in 1..m
        BY <1>3, <3>1, <3>3
      <4> QED
        BY <1>3, <4>1
    <3> QED
      BY <3>4, <3>5
  <2>2. CASE i > m
    <3>1. PICK a, b : a = i - m /\ b = j - m
      OBVIOUS
    <3>2. a \in 1..k /\ b \in 1..k /\ a < b /\ i = m + a /\ j = m + b
      BY <1>3, <1>4, <2>2, <3>1
    <3>3. v[a] = colon /\ v[b] = colon
      BY <1>3, <1>4, <3>2
    <3>4. Unbroken(v, a, b - 1)
      <4> SUFFICES ASSUME NEW n \in (a + 1)..(b - 1) PROVE v[n] \notin brackets
        BY DEF Unbroken
      <4>1. n \in 1..k /\ m + n \in (i + 1)..(j - 1)
        BY <1>3, <3>2
      <4> QED
        BY <1>3, <1>4, <4>1 DEF Unbroken
    <3>5. Precedes(v[a - 1][2], v[b - 1][2])
      BY <1>2, <3>2, <3>3, <3>4 DEF Closed, KeysOrdered
    <3>6. a > 1
      <4>1. PICK n \in 1..(a - 1) : v[n] \in brackets
        BY <1>2, <3>2, <3>3 DEF Closed
      <4> QED
        BY <3>2, <4>1
    <3>7. a - 1 \in 1..k /\ b - 1 \in 1..k /\ i - 1 = m + (a - 1) /\ j - 1 = m + (b - 1)
      BY <1>3, <3>2, <3>6
    <3>8. c[i - 1] = v[a - 1] /\ c[j - 1] = v[b - 1]
      BY <1>3, <3>7
    <3> QED
      BY <3>5, <3>8
  <2>3. CASE i =< m /\ j > m
    <3>1. PICK b : b = j - m
      OBVIOUS
    <3>2. b \in 1..k /\ j = m + b
      BY <1>3, <2>3, <3>1
    <3>3. v[b] = colon
      BY <1>3, <1>4, <3>2
    <3>4. PICK n \in 1..(b - 1) : v[n] \in brackets
      BY <1>2, <3>2, <3>3 DEF Closed
    <3>5. n \in 1..k /\ m + n \in (i + 1)..(j - 1)
      BY <1>3, <2>3, <3>2
    <3>6. c[m + n] \in brackets
      BY <1>3, <3>4, <3>5
    <3> QED
      BY <1>4, <3>5, <3>6 DEF Unbroken
  <2> QED
    BY <1>3, <2>1, <2>2, <2>3
<1>5. ASSUME NEW i \in 1..(m + k), c[i] = colon
      PROVE  i > 1 /\ (Unbroken(c, i, m + k) => \E name \in names : c[i - 1] = quoted(name))
  <2>1. CASE i =< m
    <3>1. i \in 1..m /\ s[i] = colon
      BY <1>3, <1>5, <2>1
    <3>2. i > 1 /\ (Unbroken(s, i, m) => \E name \in names : s[i - 1] = quoted(name))
      BY <1>2, <3>1 DEF Keyed
    <3>3. c[i - 1] = s[i - 1]
      BY <1>3, <3>1, <3>2
    <3>4. Unbroken(c, i, m + k) => Unbroken(s, i, m)
      BY <1>3, <3>1 DEF Unbroken
    <3> QED
      BY <3>2, <3>3, <3>4
  <2>2. CASE i > m
    <3>1. PICK a : a = i - m
      OBVIOUS
    <3>2. a \in 1..k /\ i = m + a
      BY <1>3, <2>2, <3>1
    <3>3. v[a] = colon
      BY <1>3, <1>5, <3>2
    <3>4. PICK n \in 1..(a - 1) : v[n] \in brackets
      BY <1>2, <3>2, <3>3 DEF Closed
    <3>5. PICK p \in (a + 1)..k : v[p] \in brackets
      BY <1>2, <3>2, <3>3 DEF Closed
    <3>6. i > 1
      BY <1>3, <3>2, <3>4
    <3>7. p \in 1..k /\ m + p \in (i + 1)..(m + k)
      BY <1>3, <3>2
    <3>8. c[m + p] \in brackets
      BY <1>3, <3>5, <3>7
    <3>9. ~ Unbroken(c, i, m + k)
      BY <3>7, <3>8 DEF Unbroken
    <3> QED
      BY <3>6, <3>9
  <2> QED
    BY <1>3, <2>1, <2>2
<1>6. Keyed(c, names)
  BY <1>3, <1>4, <1>5 DEF Keyed, KeysOrdered
<1> QED
  BY <1>1, <1>6

\* Adding a key that comes after all the others keeps them in order.
LEMMA AddingKey ==
    ASSUME NEW s \in Seq(Token), NEW names, Keyed(s, names), NEW next, quoted(next) \in Token,
           \A name \in names : Precedes(name, next)
    PROVE  Keyed(s \o <<quoted(next), colon>>, names \cup {next})
<1>1. PICK c, key : c = s \o <<quoted(next), colon>> /\ key = quoted(next)
  OBVIOUS
<1>2. PICK m : m = Len(s)
  OBVIOUS
<1>3. /\ m \in Nat /\ Len(c) = m + 2
      /\ \A i \in 1..m : c[i] = s[i]
      /\ c[m + 1] = key /\ c[m + 2] = colon
  BY <1>1, <1>2, MarksAreTokens
<1>4. key # colon /\ key[2] = next /\ colon \notin brackets
      /\ \A name \in names : quoted(name)[2] = name
  BY <1>1, TokensDiffer
<1>5. ASSUME NEW i \in 1..m, s[i] = colon
      PROVE  /\ i > 1 /\ c[i - 1] = s[i - 1]
             /\ \A j \in (m + 1)..(m + 2) : Unbroken(c, i, j - 1) => \E name \in names : s[i - 1] = quoted(name)
  <2>1. i > 1 /\ (Unbroken(s, i, m) => \E name \in names : s[i - 1] = quoted(name))
    BY <1>2, <1>5 DEF Keyed
  <2>2. c[i - 1] = s[i - 1]
    BY <1>3, <2>1
  <2>3. ASSUME NEW j \in (m + 1)..(m + 2), Unbroken(c, i, j - 1) PROVE Unbroken(s, i, m)
    BY <1>3, <2>3 DEF Unbroken
  <2> QED
    BY <2>1, <2>2, <2>3
<1>6. ASSUME NEW i \in 1..(m + 2), NEW j \in 1..(m + 2), i < j, c[i] = colon, c[j] = colon,
             Unbroken(c, i, j - 1)
      PROVE  Precedes(c[i - 1][2], c[j - 1][2])
  <2>1. i \in 1..m /\ s[i] = colon
    BY <1>3, <1>4, <1>6
  <2>2. CASE j =< m
    <3>1. j \in 1..m /\ s[j] = colon
      BY <1>3, <1>6, <2>2
    <3>2. Unbroken(s, i, j - 1)
      BY <1>3, <1>6, <2>2 DEF Unbroken
    <3>3. Precedes(s[i - 1][2], s[j - 1][2])
      BY <1>2, <1>6, <2>1, <3>1, <3>2 DEF Keyed, KeysOrdered
    <3>4. c[i - 1] = s[i - 1] /\ c[j - 1] = s[j - 1]
      BY <1>5, <2>1, <3>1
    <3> QED
      BY <3>3, <3>4
  <2>3. CASE j > m
    <3>1. j = m + 2
      BY <1>3, <1>4, <1>6, <2>3
    <3>2. c[j - 1] = key
      <4>1. j - 1 = m + 1
        BY <1>3, <3>1
      <4> QED
        BY <1>3, <4>1
    <3>3. PICK name \in names : s[i - 1] = quoted(name)
      BY <1>3, <1>5, <1>6, <2>1, <3>1
    <3>4. c[i - 1] = quoted(name)
      BY <1>5, <2>1, <3>3
    <3> QED
      BY <1>4, <3>2, <3>4
  <2> QED
    BY <1>3, <2>2, <2>3
<1>7. ASSUME NEW i \in 1..(m + 2), c[i] = colon
      PROVE  i > 1 /\ (Unbroken(c, i, m + 2) => \E name \in names \cup {next} : c[i - 1] = quoted(name))
  <2>1. CASE i =< m
    <3>1. i \in 1..m /\ s[i] = colon
      BY <1>3, <1>7, <2>1
    <3>2. Unbroken(c, i, m + 2) => Unbroken(c, i, (m + 2) - 1)
      BY <1>3 DEF Unbroken
    <3>3. m + 2 \in (m + 1)..(m + 2)
      BY <1>3
    <3> QED
      BY <1>5, <3>1, <3>2, <3>3
  <2>2. CASE i > m
    <3>1. i = m + 2
      BY <1>3, <1>4, <1>7, <2>2
    <3>2. i - 1 = m + 1 /\ i > 1
      BY <1>3, <3>1
    <3> QED
      BY <1>1, <1>3, <3>2
  <2> QED
    BY <1>3, <2>1, <2>2
<1>8. Keyed(c, names \cup {next})
  BY <1>3, <1>6, <1>7 DEF Keyed, KeysOrdered
<1> QED
  BY <1>1, <1>8

\* Brackets close what has its keys in order.
LEMMA Enclosing ==
    ASSUME NEW first \in brackets, NEW last \in brackets, NEW s \in Seq(Token), NEW names, Keyed(s, names)
    PROVE  Closed(<<first>> \o s \o <<last>>)
<1>1. PICK c : c = <<first>> \o s \o <<last>>
  OBVIOUS
<1>2. PICK m : m = Len(s)
  OBVIOUS
<1>3. first \in Token /\ last \in Token /\ first # colon /\ last # colon
  BY MarksAreTokens, TokensDiffer
<1>4. /\ m \in Nat /\ Len(c) = m + 2 /\ c[1] = first /\ c[m + 2] = last
      /\ \A i \in 1..m : c[i + 1] = s[i]
  BY <1>1, <1>2, <1>3
<1>5. ASSUME NEW i \in 1..(m + 2), c[i] = colon
      PROVE  i - 1 \in 1..m /\ i - 1 > 1 /\ s[i - 1] = colon /\ c[i - 1] = s[(i - 1) - 1]
  <2>1. i # 1 /\ i # m + 2
    BY <1>3, <1>4, <1>5
  <2>2. i - 1 \in 1..m /\ (i - 1) + 1 = i
    BY <1>4, <2>1
  <2>3. s[i - 1] = colon
    BY <1>4, <1>5, <2>2
  <2>4. i - 1 > 1
    BY <1>2, <2>2, <2>3 DEF Keyed
  <2>5. (i - 1) - 1 \in 1..m /\ ((i - 1) - 1) + 1 = i - 1
    BY <1>4, <2>2, <2>4
  <2>6. c[i - 1] = s[(i - 1) - 1]
    BY <1>4, <2>5
  <2> QED
    BY <2>2, <2>3, <2>4, <2>6
<1>6. ASSUME NEW i \in 1..(m + 2), NEW j \in 1..(m + 2), i < j, c[i] = colon, c[j] = colon,
             Unbroken(c, i, j - 1)
      PROVE  Precedes(c[i - 1][2], c[j - 1][2])
  <2>1. PICK a, b : a = i - 1 /\ b = j - 1
    OBVIOUS
  <2>2. /\ a \in 1..m /\ b \in 1..m /\ s[a] = colon /\ s[b] = colon
        /\ c[i - 1] = s[a - 1] /\ c[j - 1] = s[b - 1]
    BY <1>5, <1>6, <2>1
  <2>3. a < b
    BY <1>6, <2>1
  <2>4. Unbroken(s, a, b - 1)
    <3> SUFFICES ASSUME NEW n \in (a + 1)..(b - 1) PROVE s[n] \notin brackets
      BY DEF Unbroken
    <3>1. n \in 1..m /\ n + 1 \in (i + 1)..(j - 1)
      BY <1>4, <2>1, <2>2
    <3> QED
      BY <1>4, <1>6, <3>1 DEF Unbroken
  <2>5. Precedes(s[a - 1][2], s[b - 1][2])
    BY <1>2, <2>2, <2>3, <2>4 DEF Keyed, KeysOrdered
  <2> QED
    BY <2>2, <2>5
<1>7. ASSUME NEW i \in 1..(m + 2), c[i] = colon
      PROVE  /\ \E n \in 1..(i - 1) : c[n] \in brackets
             /\ \E n \in (i + 1)..(m + 2) : c[n] \in brackets
  <2>1. 1 \in 1..(i - 1) /\ m + 2 \in (i + 1)..(m + 2)
    BY <1>4, <1>5, <1>7
  <2> QED
    BY <1>4, <2>1
<1>8. Closed(c)
  BY <1>4, <1>6, <1>7 DEF Closed, KeysOrdered
<1> QED
  BY <1>1, <1>8

\* A text or a mark has no keys.
LEMMA OneTokenIsClosed ==
    ASSUME NEW token \in Token, token # colon
    PROVE  Closed(<<token>>)
  BY DEF Closed, KeysOrdered

\* Parts that each leave the keys in order do so together.
LEMMA PartsKeyed ==
    ASSUME NEW parts \in Seq(Seq(Token)), NEW names,
           names[0] = {},
           \A i \in 1..Len(parts) : \A s \in Seq(Token) :
               Keyed(s, names[i - 1]) => Keyed(s \o parts[i], names[i])
    PROVE  Keyed(separated(parts), names[Len(parts)])
<1>1. PICK f : /\ f \in [0..Len(parts) -> Seq(Token)] /\ Joined(f, parts)
               /\ separated(parts) = f[Len(parts)]
  BY Separated
<1>2. PICK n \in Nat : n = Len(parts)
  OBVIOUS
<1> DEFINE S == {k \in Nat : k =< n => Keyed(f[k], names[k])}
<1>3. 0 \in S
  <2>1. Keyed(<< >>, {})
    BY DEF Keyed, KeysOrdered
  <2> QED
    BY <1>1, <2>1 DEF Joined
<1>4. ASSUME NEW k \in Nat, k \in S PROVE k + 1 \in S
  <2> SUFFICES ASSUME k + 1 =< n PROVE Keyed(f[k + 1], names[k + 1])
    OBVIOUS
  <2>1. k + 1 \in 1..n /\ (k + 1) - 1 = k /\ k \in 0..n /\ k + 1 \in Nat
    BY <1>2
  <2>2. Keyed(f[k], names[k]) /\ f[k] \in Seq(Token) /\ parts[k + 1] \in Seq(Token)
    BY <1>1, <1>2, <1>4, <2>1
  <2>3. f[k + 1] = f[k] \o Item(parts, k + 1)
    BY <1>1, <1>2, <2>1 DEF Joined
  <2>4. ASSUME NEW s \in Seq(Token), Keyed(s, names[k]) PROVE Keyed(s \o parts[k + 1], names[k + 1])
    BY <1>2, <2>1, <2>4
  <2>5. CASE k = 0
    <3>1. Item(parts, k + 1) = parts[k + 1]
      BY <2>5 DEF Item
    <3> QED
      BY <2>2, <2>3, <2>4, <3>1
  <2>6. CASE k # 0
    <3>1. Item(parts, k + 1) = <<comma>> \o parts[k + 1]
      <4>1. k + 1 # 1
        BY <2>6
      <4> QED
        BY <4>1 DEF Item
    <3>2. comma \in Token /\ comma # colon /\ <<comma>> \in Seq(Token)
      BY MarksAreTokens, TokensDiffer
    <3>3. f[k] \o <<comma>> \in Seq(Token) /\ Keyed(f[k] \o <<comma>>, names[k])
      <4>1. PICK s, v : s = f[k] /\ v = <<comma>>
        OBVIOUS
      <4>2. Closed(<<comma>>)
        BY <3>2, OneTokenIsClosed
      <4>3. s \in Seq(Token) /\ v \in Seq(Token) /\ Keyed(s, names[k]) /\ Closed(v)
        BY <2>2, <3>2, <4>1, <4>2
      <4>4. s \o v \in Seq(Token) /\ Keyed(s \o v, names[k])
        BY <4>3, AddingClosed
      <4> QED
        BY <4>1, <4>4
    <3>4. (f[k] \o <<comma>>) \o parts[k + 1] = f[k] \o (<<comma>> \o parts[k + 1])
      BY <2>2, <3>2, TokensAssociate
    <3>5. Keyed((f[k] \o <<comma>>) \o parts[k + 1], names[k + 1])
      BY <2>4, <3>3
    <3> QED
      BY <2>3, <3>1, <3>4, <3>5
  <2> QED
    BY <2>5, <2>6
<1> HIDE DEF S
<1>5. Nat \subseteq S
  BY <1>3, <1>4, ForEveryNumber
<1> QED
  BY <1>1, <1>2, <1>5 DEF S

\* The keys of an object, as far as they are written.
LEMMA FirstNames ==
    ASSUME NEW names \in Seq(Seq(CodePoint)), InOrder(names), NEW i \in 1..Len(names),
           NEW k \in 1..(i - 1)
    PROVE  Precedes(names[k], names[i])
<1>1. k \in 1..Len(names) /\ k < i
  OBVIOUS
<1>2. names[k] \in Seq(CodePoint) /\ names[i] \in Seq(CodePoint)
  BY <1>1
<1>3. Less(names[k], names[i])
  BY <1>1 DEF InOrder
<1> QED
  BY <1>2, <1>3, UnitsOrder DEF Less, Precedes

\* Everything of every depth is closed.
AllClosed(n) == \A json \in JsonValues : Closed(written[n][json])

\* A list of what is closed is closed.
LEMMA ListsClosed ==
    ASSUME NEW n \in Nat, AllClosed(n), NEW json \in JsonValues, json[1] = "list"
    PROVE  Closed(written[n + 1][json])
<1>1. PICK below : below = written[n] /\ below \in Writing
  BY WritingIs
<1>2. PICK s : s = json[2]
  OBVIOUS
<1>3. s \in Seq(JsonValues)
  BY <1>2, Shapes
<1>4. PICK p : p = listed(below, s)
  OBVIOUS
<1>5. /\ p \in Seq(Seq(Token)) /\ Len(p) = Len(s)
      /\ \A i \in 1..Len(s) : p[i] = below[s[i]]
  BY <1>1, <1>3, <1>4, ListedParts
<1> DEFINE names == [i \in 0..Len(p) |-> {}]
<1>6. ASSUME NEW i \in 1..Len(p), NEW t \in Seq(Token), Keyed(t, names[i - 1])
      PROVE  Keyed(t \o p[i], names[i])
  <2>1. p[i] \in Seq(Token) /\ s[i] \in JsonValues /\ names[i - 1] = {} /\ names[i] = {}
    BY <1>3, <1>5
  <2>2. Closed(p[i])
    BY <1>1, <1>5, <2>1 DEF AllClosed
  <2> HIDE DEF names
  <2> QED
    BY <1>6, <2>1, <2>2, AddingClosed
<1>7. names[0] = {} /\ names[Len(p)] = {}
  BY <1>5
<1> HIDE DEF names
<1>8. Keyed(separated(p), names[Len(p)])
  BY <1>5, <1>6, <1>7, PartsKeyed
<1>9. separated(p) \in Seq(Token)
  BY <1>5, SeparatedIsTokens
<1>10. Closed(<<begin_array>> \o separated(p) \o <<end_array>>)
  BY <1>8, <1>9, Enclosing, TokensDiffer
<1>11. n + 1 \in Nat /\ n + 1 > 0 /\ (n + 1) - 1 = n
  OBVIOUS
<1>12. written[n + 1][json]
       = <<begin_array>> \o separated(listed(written[(n + 1) - 1], json[2])) \o <<end_array>>
  BY <1>11, WrittenStep
<1> QED
  BY <1>1, <1>2, <1>4, <1>10, <1>11, <1>12

\* An object of what is closed is closed, its keys being in order.
LEMMA DictsClosed ==
    ASSUME NEW n \in Nat, AllClosed(n), NEW json \in JsonValues, json[1] = "dict"
    PROVE  Closed(written[n + 1][json])
<1>1. PICK below : below = written[n] /\ below \in Writing
  BY WritingIs
<1>2. PICK keys : keys = in_key_order(json[2])
  OBVIOUS
<1>3. PICK p : p = entered(below, in_key_order(json[2]), json[2])
  OBVIOUS
<1>4. /\ in_key_order(json[2]) \in Seq(Seq(CodePoint)) /\ InOrder(in_key_order(json[2]))
      /\ entered(below, in_key_order(json[2]), json[2]) \in Seq(Seq(Token))
      /\ Len(entered(below, in_key_order(json[2]), json[2])) = Len(in_key_order(json[2]))
      /\ \A i \in 1..Len(in_key_order(json[2])) :
            /\ value_of(json[2], in_key_order(json[2])[i]) \in JsonValues
            /\ entered(below, in_key_order(json[2]), json[2])[i]
               = <<quoted(in_key_order(json[2])[i]), colon>>
                 \o below[value_of(json[2], in_key_order(json[2])[i])]
  BY <1>1, Entering
<1>5. /\ keys \in Seq(Seq(CodePoint)) /\ InOrder(keys)
      /\ p \in Seq(Seq(Token)) /\ Len(p) = Len(keys)
      /\ \A i \in 1..Len(keys) :
            /\ value_of(json[2], keys[i]) \in JsonValues
            /\ p[i] = <<quoted(keys[i]), colon>> \o below[value_of(json[2], keys[i])]
  BY <1>2, <1>3, <1>4, Zenon
<1> DEFINE names == [i \in 0..Len(p) |-> {keys[k] : k \in 1..i}]
<1>6. ASSUME NEW i \in 1..Len(p), NEW t \in Seq(Token), Keyed(t, names[i - 1])
      PROVE  Keyed(t \o p[i], names[i])
  <2>1. i \in 1..Len(keys) /\ i - 1 \in 0..Len(p) /\ i \in 0..Len(p)
    BY <1>5
  <2>2. names[i - 1] = {keys[k] : k \in 1..(i - 1)} /\ names[i] = {keys[k] : k \in 1..i}
    BY <2>1
  <2>3. names[i] = names[i - 1] \cup {keys[i]}
    <3>1. 1..i = 1..(i - 1) \cup {i}
      BY <2>1
    <3> QED
      BY <2>2, <3>1
  <2>4. \A name \in names[i - 1] : Precedes(name, keys[i])
    BY <1>5, <2>1, <2>2, FirstNames
  <2> HIDE DEF names
  <2>5. keys[i] \in Seq(CodePoint)
    BY <1>5, <2>1
  <2>6. quoted(keys[i]) \in Token /\ colon \in Token
    BY <2>5, MarksAreTokens
  <2>7. PICK key : key = <<quoted(keys[i]), colon>>
    OBVIOUS
  <2>8. key \in Seq(Token) /\ t \o key \in Seq(Token)
    BY <2>6, <2>7
  <2>9. Keyed(t \o key, names[i])
    BY <1>6, <2>3, <2>4, <2>6, <2>7, AddingKey
  <2>10. PICK v : v = below[value_of(json[2], keys[i])]
    OBVIOUS
  <2>11. v \in Seq(Token) /\ Closed(v)
    BY <1>1, <1>5, <2>1, <2>10 DEF AllClosed, Writing
  <2>12. Keyed((t \o key) \o v, names[i])
    BY <2>8, <2>9, <2>11, AddingClosed
  <2>13. (t \o key) \o v = t \o (key \o v)
    BY <2>8, <2>11, TokensAssociate
  <2>14. p[i] = key \o v
    BY <1>5, <2>1, <2>7, <2>10
  <2> QED
    BY <2>12, <2>13, <2>14
<1>7. names[0] = {}
  BY <1>5
<1> HIDE DEF names
<1>8. Keyed(separated(p), names[Len(p)])
  BY <1>5, <1>6, <1>7, PartsKeyed
<1>9. separated(p) \in Seq(Token)
  BY <1>5, SeparatedIsTokens
<1>10. Closed(<<begin_object>> \o separated(p) \o <<end_object>>)
  BY <1>8, <1>9, Enclosing, TokensDiffer
<1>11. n + 1 \in Nat /\ n + 1 > 0 /\ (n + 1) - 1 = n
  OBVIOUS
<1>12. written[n + 1][json]
       = <<begin_object>> \o separated(entered(written[(n + 1) - 1], in_key_order(json[2]), json[2]))
         \o <<end_object>>
  BY <1>11, WrittenStep
<1> QED
  BY <1>1, <1>3, <1>10, <1>11, <1>12

\* What is written of any value is closed.
LEMMA EverythingClosed ==
    \A n \in Nat : AllClosed(n)
<1> DEFINE S == {n \in Nat : AllClosed(n)}
<1>1. ASSUME NEW n \in Nat, NEW json \in JsonValues, n = 0 \/ json[1] \notin {"list", "dict"}
      PROVE  Closed(written[n][json])
  <2>1. written[n][json] = <<quoted(json[2])>>
    BY <1>1, WrittenStep
  <2> QED
    BY <2>1, OneTokenIsClosed, MarksAreTokens, TokensDiffer
<1>2. 0 \in S
  BY <1>1 DEF AllClosed
<1>3. ASSUME NEW n \in Nat, n \in S PROVE n + 1 \in S
  <2>0. AllClosed(n) /\ n + 1 \in Nat
    BY <1>3
  <2> SUFFICES ASSUME NEW json \in JsonValues PROVE Closed(written[n + 1][json])
    BY <2>0 DEF AllClosed
  <2> QED
    BY <1>1, <2>0, ListsClosed, DictsClosed
<1> HIDE DEF S
<1>4. Nat \subseteq S
  BY <1>2, <1>3, ForEveryNumber
<1> QED
  BY <1>4 DEF S

\* The keys of what was written.
LEMMA KeysSorted ==
    ASSUME JsonInv
    PROVE  KeysInUtf16Order
<1> SUFFICES ASSUME bytes \notin {None, refused} PROVE KeysInUtf16Order
  BY DEF KeysInUtf16Order
<1>1. value \in JsonValues /\ bytes = canonical_json_bytes(value)
  BY JsonWritten
<1>2. PICK depth \in Nat : depth = MAX_DEPTH
  BY JsonAssumption
<1>3. bytes = written[depth][value]
  BY <1>1, <1>2 DEF canonical_json_bytes, dumps
<1>4. bytes \in Seq(Token) /\ Closed(bytes)
  BY <1>1, <1>3, WrittenStep, EverythingClosed DEF AllClosed
<1> SUFFICES ASSUME NEW i \in DOMAIN bytes, NEW j \in DOMAIN bytes, i < j,
                    bytes[i] = colon, bytes[j] = colon,
                    \A n \in (i + 1)..(j - 1) : bytes[n] \notin brackets
             PROVE  Before(ranks(bytes[i - 1][2]), ranks(bytes[j - 1][2]))
  BY DEF KeysInUtf16Order
<1>5. i \in 1..Len(bytes) /\ j \in 1..Len(bytes)
  BY <1>4
<1>6. Unbroken(bytes, i, j - 1)
  BY DEF Unbroken
<1>7. Precedes(bytes[i - 1][2], bytes[j - 1][2])
  BY <1>4, <1>5, <1>6 DEF Closed, KeysOrdered
<1> QED
  BY <1>7 DEF Precedes

\* In the bytes of a value of any shape the keys of every object come in the order of rank,
\* which is the one JavaScript has (canonical.py:96-98).
THEOREM KeysInOrder == Spec => []KeysInUtf16Order
  BY JsonProvenance, KeysSorted, PTL
=============================================================================
