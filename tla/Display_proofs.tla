--------------------------- MODULE Display_proofs ---------------------------
(***************************************************************************)
(* Lemmas about screens.  A screen is put together from lines, however     *)
(* many and whatever they say: concatenation, and FlattenSeq over any      *)
(* number of parts, preserve what one line has.                            *)
(***************************************************************************)
EXTENDS Display, Authority_proofs, FiniteSetTheorems

-----------------------------------------------------------------------------
(***************************************************************************)
(* Text.                                                                   *)
(***************************************************************************)

LEMMA TextOver ==
    ASSUME NEW C, NEW u \in Seq(C)
    PROVE  IsSequence(u) /\ Len(u) \in Nat /\ DOMAIN u = 1..Len(u)
BY DEF IsSequence

\* Two texts one after the other, character by character.
LEMMA Joined ==
    ASSUME NEW s, NEW t, IsSequence(s), IsSequence(t)
    PROVE  /\ IsSequence(s \o t)
           /\ Len(s) \in Nat /\ Len(t) \in Nat /\ Len(s \o t) = Len(s) + Len(t)
           /\ DOMAIN s = 1..Len(s) /\ DOMAIN t = 1..Len(t)
           /\ DOMAIN (s \o t) = 1..(Len(s) + Len(t))
           /\ \A i \in 1..Len(s) : (s \o t)[i] = s[i]
           /\ \A i \in 1..Len(t) : (s \o t)[Len(s) + i] = t[i]
<1> DEFINE C == {s[i] : i \in DOMAIN s} \cup {t[i] : i \in DOMAIN t}
<1>1. s \in Seq(C) /\ t \in Seq(C)
  BY DEF IsSequence
<1> HIDE DEF C
<1>2. /\ s \o t \in Seq(C)
      /\ Len(s) \in Nat /\ Len(t) \in Nat /\ Len(s \o t) = Len(s) + Len(t)
      /\ DOMAIN s = 1..Len(s) /\ DOMAIN t = 1..Len(t)
      /\ DOMAIN (s \o t) = 1..(Len(s) + Len(t))
      /\ \A i \in 1..Len(s) : (s \o t)[i] = s[i]
      /\ \A i \in 1..Len(t) : (s \o t)[Len(s) + i] = t[i]
  BY <1>1
<1> QED
  BY <1>2, TextOver

LEMMA ShortTexts ==
    /\ IsSequence(<< >>)
    /\ \A a : IsSequence(<<a>>) /\ Len(<<a>>) = 1 /\ DOMAIN <<a>> = {1} /\ <<a>>[1] = a
    /\ \A a, b : IsSequence(<<a, b>>)
    /\ \A a, b, c : IsSequence(<<a, b, c>>)
<1>1. IsSequence(<< >>)
  BY DEF IsSequence
<1>2. \A a : IsSequence(<<a>>) /\ Len(<<a>>) = 1 /\ DOMAIN <<a>> = {1} /\ <<a>>[1] = a
  BY DEF IsSequence
<1>3. \A a, b : IsSequence(<<a, b>>)
  BY DEF IsSequence
<1>4. \A a, b, c : IsSequence(<<a, b, c>>)
  BY DEF IsSequence
<1> QED
  BY <1>1, <1>2, <1>3, <1>4

\* FlattenSeq stays in whatever set has the parts and is closed under concatenation.
LEMMA Flattened ==
    ASSUME NEW parts, IsSequence(parts),
           NEW T, << >> \in T, \A s, t \in T : s \o t \in T,
           \A i \in DOMAIN parts : parts[i] \in T
    PROVE  FlattenSeq(parts) \in T
<1> DEFINE n == Len(parts)
           Step(f, i) == IF i = 1 THEN parts[i] ELSE f[i - 1] \o parts[i]
           flatten[i \in 1..n] == IF i = 1 THEN parts[i] ELSE flatten[i - 1] \o parts[i]
<1>1. n \in Nat /\ DOMAIN parts = 1..n
  BY SequenceDomain
<1>2. CASE n = 0
  <2>1. parts = << >>
    BY <1>1, <1>2 DEF IsSequence
  <2> QED
    BY <1>2, <2>1 DEF FlattenSeq
<1>3. CASE n # 0
  <2>1. FlattenSeq(parts) = flatten[n]
    BY <1>3 DEF FlattenSeq
  <2> DEFINE Def(m) == {f \in [1..m -> T] : \A i \in 1..m : f[i] = Step(f, i)}
             S == {m \in Nat : m =< n => Def(m) # {}}
  <2>3. 0 \in S
    <3>1. [i \in 1..0 |-> << >>] \in Def(0)
      OBVIOUS
    <3> QED
      BY <3>1
  <2>4. ASSUME NEW m \in Nat, m \in S
        PROVE  m + 1 \in S
    <3> SUFFICES ASSUME m + 1 =< n PROVE Def(m + 1) # {}
      OBVIOUS
    <3>1. PICK f \in [1..m -> T] : \A i \in 1..m : f[i] = Step(f, i)
      BY <1>1, <2>4
    <3> DEFINE g == [i \in 1..(m + 1) |-> IF i =< m THEN f[i] ELSE Step(f, i)]
    <3>2. Step(f, m + 1) \in T
      BY <1>1, <3>1
    <3>3. g \in [1..(m + 1) -> T]
      BY <3>1, <3>2
    <3>4. \A i \in 1..(m + 1) : g[i] = Step(g, i)
      <4> SUFFICES ASSUME NEW i \in 1..(m + 1) PROVE g[i] = Step(g, i)
        OBVIOUS
      <4>1. CASE i = m + 1
        <5>1. i # 1 => g[i - 1] = f[i - 1]
          BY <4>1
        <5> QED
          BY <4>1, <5>1
      <4>2. CASE i \in 1..m
        <5>1. g[i] = f[i] /\ (i # 1 => g[i - 1] = f[i - 1])
          BY <4>2
        <5>2. f[i] = Step(f, i)
          BY <3>1, <4>2
        <5> HIDE DEF g
        <5> QED
          BY <5>1, <5>2
      <4> QED
        BY <4>1, <4>2
    <3> QED
      BY <3>3, <3>4
  <2>5. n \in S
    BY <1>1, <2>3, <2>4, NatSetInduction
  <2>6. PICK f \in Def(n) : TRUE
    BY <1>1, <2>5
  <2>7. f = [i \in 1..n |-> IF i = 1 THEN parts[i] ELSE f[i - 1] \o parts[i]]
    BY <2>6
  <2>8. flatten = [i \in 1..n |-> IF i = 1 THEN parts[i] ELSE flatten[i - 1] \o parts[i]]
    BY <2>7
  <2> HIDE DEF flatten
  <2>9. \A i \in 1..n : flatten[i] = IF i = 1 THEN parts[i] ELSE flatten[i - 1] \o parts[i]
    BY <2>8
  <2> DEFINE U == {m \in Nat : m \in 1..n => flatten[m] \in T}
  <2>10. 0 \in U
    OBVIOUS
  <2>11. ASSUME NEW m \in Nat, m \in U
         PROVE  m + 1 \in U
    <3> SUFFICES ASSUME m + 1 \in 1..n PROVE flatten[m + 1] \in T
      OBVIOUS
    <3>1. flatten[m + 1] = IF m = 0 THEN parts[m + 1] ELSE flatten[m] \o parts[m + 1]
      BY <2>9
    <3>2. parts[m + 1] \in T /\ (m # 0 => flatten[m] \in T)
      BY <1>1, <2>11
    <3> QED
      BY <3>1, <3>2
  <2>12. n \in U
    BY <1>1, <2>10, <2>11, NatSetInduction
  <2> QED
    BY <1>1, <1>3, <2>1, <2>12
<1> QED
  BY <1>2, <1>3

-----------------------------------------------------------------------------
(***************************************************************************)
(* Lines.                                                                  *)
(***************************************************************************)

\* Text as _line puts it out: whole lines, none of them under one of the banned.
Lines(text, banned) ==
    /\ IsSequence(text)
    /\ \A i \in DOMAIN text : text[i] \notin {"ESC", "LRM", "LS", "PS"}
    /\ text # << >> => text[Len(text)] = "LF"
    /\ \A i \in Starts(text) : text[i] \notin banned

\* After whole lines, what follows starts its lines where it does on its own.
LEMMA StartsJoined ==
    ASSUME NEW s, NEW t, IsSequence(s), IsSequence(t), s # << >> => s[Len(s)] = "LF"
    PROVE  Starts(s \o t) = Starts(s) \cup {Len(s) + i : i \in Starts(t)}
<1> DEFINE u == s \o t
           n == Len(s)
<1>1. /\ IsSequence(u) /\ n \in Nat /\ Len(t) \in Nat
      /\ DOMAIN s = 1..n /\ DOMAIN t = 1..Len(t) /\ DOMAIN u = 1..(n + Len(t))
      /\ \A i \in 1..n : u[i] = s[i]
      /\ \A i \in 1..Len(t) : u[n + i] = t[i]
  BY Joined
<1>2. n = 0 \/ s[n] = "LF"
  BY EmptySeq DEF IsSequence
<1> HIDE DEF u, n
<1>3. ASSUME NEW i \in 1..n PROVE i \in Starts(u) <=> i \in Starts(s)
  <2>1. i # 1 => u[i - 1] = s[i - 1]
    BY <1>1
  <2> QED
    BY <1>1, <2>1 DEF Starts
<1>4. ASSUME NEW i \in 1..Len(t) PROVE n + i \in Starts(u) <=> i \in Starts(t)
  <2>1. CASE i = 1
    <3>1. n = 0 \/ (n + i # 1 /\ u[n + i - 1] = "LF")
      BY <1>1, <1>2, <2>1
    <3> QED
      BY <1>1, <2>1, <3>1 DEF Starts
  <2>2. CASE i # 1
    <3>1. n + i # 1 /\ u[n + i - 1] = t[i - 1]
      <4>1. i - 1 \in 1..Len(t) /\ n + i - 1 = n + (i - 1)
        BY <1>1, <2>2
      <4> QED
        BY <1>1, <4>1
    <3> QED
      BY <1>1, <2>2, <3>1 DEF Starts
  <2> QED
    BY <2>1, <2>2
<1>5. Starts(u) \subseteq 1..(n + Len(t)) /\ Starts(s) \subseteq 1..n /\ Starts(t) \subseteq 1..Len(t)
  BY <1>1 DEF Starts
<1>6. \A i \in 1..(n + Len(t)) : i \in 1..n \/ (i - n \in 1..Len(t) /\ i = n + (i - n))
  BY <1>1
<1>7. \A i \in Starts(u) : i \in Starts(s) \/ (i - n \in Starts(t) /\ i = n + (i - n))
  BY <1>3, <1>4, <1>5, <1>6
<1>8. \A i \in Starts(s) : i \in Starts(u)
  <2>1. \A i \in 1..n : i \in 1..(n + Len(t))
    BY <1>1
  <2> QED
    BY <1>3, <1>5, <2>1
<1>9. \A i \in Starts(t) : n + i \in Starts(u)
  BY <1>4, <1>5
<1> QED
  BY <1>7, <1>8, <1>9 DEF u, n

\* The lines under a label, likewise.
LEMMA UnderJoined ==
    ASSUME NEW s, NEW t, NEW label, IsSequence(s), IsSequence(t), s # << >> => s[Len(s)] = "LF"
    PROVE  Under(s \o t, label) = Under(s, label) \cup {Len(s) + i : i \in Under(t, label)}
<1>1. Starts(s \o t) = Starts(s) \cup {Len(s) + i : i \in Starts(t)}
  BY StartsJoined
<1>2. /\ Len(s) \in Nat
      /\ \A i \in Starts(s) : (s \o t)[i] = s[i]
      /\ \A i \in Starts(t) : (s \o t)[Len(s) + i] = t[i]
  BY Joined DEF Starts
<1> QED
  BY <1>1, <1>2 DEF Under

LEMMA LinesJoined ==
    ASSUME NEW banned, NEW s, NEW t, Lines(s, banned), Lines(t, banned)
    PROVE  Lines(s \o t, banned)
<1> DEFINE u == s \o t
           n == Len(s)
<1>1. /\ IsSequence(u) /\ n \in Nat /\ Len(t) \in Nat /\ Len(u) = n + Len(t)
      /\ DOMAIN s = 1..n /\ DOMAIN t = 1..Len(t) /\ DOMAIN u = 1..(n + Len(t))
      /\ \A i \in 1..n : u[i] = s[i]
      /\ \A i \in 1..Len(t) : u[n + i] = t[i]
  BY Joined DEF Lines
<1>2. Starts(u) = Starts(s) \cup {n + i : i \in Starts(t)}
  BY StartsJoined DEF Lines
<1>3. (n = 0 <=> s = << >>) /\ (Len(t) = 0 <=> t = << >>)
  BY EmptySeq DEF Lines, IsSequence
<1> HIDE DEF u, n
<1>4. \A i \in DOMAIN u : u[i] \notin {"ESC", "LRM", "LS", "PS"}
  <2> SUFFICES ASSUME NEW i \in 1..(n + Len(t)) PROVE u[i] \notin {"ESC", "LRM", "LS", "PS"}
    BY <1>1
  <2>1. CASE i \in 1..n
    BY <1>1, <2>1 DEF Lines
  <2>2. CASE i \notin 1..n
    <3>1. i - n \in 1..Len(t) /\ i = n + (i - n)
      BY <1>1, <2>2
    <3>2. u[i] = t[i - n]
      BY <1>1, <3>1
    <3> QED
      BY <1>1, <3>1, <3>2 DEF Lines
  <2> QED
    BY <2>1, <2>2
<1>5. Len(u) # 0 => u[Len(u)] = "LF"
  <2>1. CASE Len(t) = 0
    BY <1>1, <1>3, <2>1 DEF Lines
  <2>2. CASE Len(t) # 0
    <3>1. Len(t) \in 1..Len(t) /\ t[Len(t)] = "LF"
      BY <1>1, <1>3, <2>2 DEF Lines
    <3> QED
      BY <1>1, <3>1
  <2> QED
    BY <2>1, <2>2
<1>6. \A i \in Starts(u) : u[i] \notin banned
  <2>1. Starts(s) \subseteq 1..n /\ Starts(t) \subseteq 1..Len(t)
    BY <1>1 DEF Starts
  <2> QED
    BY <1>1, <1>2, <2>1 DEF Lines
<1>7. u # << >> => Len(u) # 0
  BY <1>1, EmptySeq DEF IsSequence
<1> QED
  BY <1>1, <1>4, <1>5, <1>6, <1>7 DEF Lines, u

LEMMA NoLines ==
    ASSUME NEW banned
    PROVE  Lines(<< >>, banned)
BY ShortTexts DEF Lines, Starts

\* What _printable leaves of any text has nothing a terminal acts on; the rest is unchanged.
LEMMA Printed ==
    ASSUME NEW value, IsSequence(value)
    PROVE  /\ IsSequence(printable(value)) /\ Len(printable(value)) = Len(value)
           /\ \A i \in DOMAIN value :
                 /\ printable(value)[i] \notin {"LF", "ESC", "LRM", "LS", "PS"}
                 /\ value[i] \notin {"LF", "ESC", "LRM", "LS", "PS"} =>
                       printable(value)[i] = value[i]
<1> DEFINE p == printable(value)
<1>1. Len(value) \in Nat /\ DOMAIN value = 1..Len(value)
  BY SequenceDomain
<1>2. /\ DOMAIN categories = {"LF", "ESC", "LRM", "LS", "PS"}
      /\ \A c \in DOMAIN categories : categories[c] \in {"Cc", "Cf", "Zl", "Zp"}
      /\ \A c \in DOMAIN categories : code[c] \notin {"LF", "ESC", "LRM", "LS", "PS"}
  BY DEF categories, code
<1>3. DOMAIN p = 1..Len(value)
      /\ \A i \in 1..Len(value) :
            p[i] = IF value[i] \in DOMAIN categories THEN code[value[i]] ELSE value[i]
  BY <1>1, <1>2 DEF printable
<1>4. p \in [1..Len(value) -> {p[i] : i \in 1..Len(value)}]
  BY <1>1 DEF printable
<1>5. p \in Seq({p[i] : i \in 1..Len(value)}) /\ Len(p) = Len(value)
  BY <1>1, <1>4
<1>6. IsSequence(p)
  BY <1>5, TextOver
<1> HIDE DEF p
<1> QED
  BY <1>1, <1>2, <1>3, <1>5, <1>6 DEF p

\* A text between two characters.
LEMMA Framed ==
    ASSUME NEW a, NEW p, NEW b, IsSequence(p)
    PROVE  /\ IsSequence(<<a>> \o p \o <<b>>)
           /\ Len(p) \in Nat /\ Len(<<a>> \o p \o <<b>>) = Len(p) + 2
           /\ DOMAIN (<<a>> \o p \o <<b>>) = 1..(Len(p) + 2)
           /\ (<<a>> \o p \o <<b>>)[1] = a
           /\ \A i \in 1..Len(p) : (<<a>> \o p \o <<b>>)[i + 1] = p[i]
           /\ (<<a>> \o p \o <<b>>)[Len(p) + 2] = b
<1> DEFINE C == {p[i] : i \in DOMAIN p} \cup {a, b}
           n == Len(p)
           u == <<a>> \o p \o <<b>>
<1>1. p \in Seq(C) /\ <<a>> \in Seq(C) /\ <<b>> \in Seq(C) /\ n \in Nat
  BY DEF IsSequence
<1> HIDE DEF C
<1>2. /\ <<a>> \o p \in Seq(C) /\ Len(<<a>> \o p) = n + 1
      /\ (<<a>> \o p)[1] = a
      /\ \A i \in 1..n : (<<a>> \o p)[i + 1] = p[i]
  BY <1>1
<1>3. /\ u \in Seq(C) /\ Len(u) = n + 2
      /\ \A i \in 1..(n + 1) : u[i] = (<<a>> \o p)[i]
      /\ u[n + 2] = b
  BY <1>1, <1>2
<1> HIDE DEF u
<1>4. u[1] = a /\ \A i \in 1..n : u[i + 1] = p[i]
  <2>1. 1 \in 1..(n + 1) /\ \A i \in 1..n : i + 1 \in 1..(n + 1)
    BY <1>1
  <2> QED
    BY <1>2, <1>3, <2>1
<1>5. IsSequence(u) /\ DOMAIN u = 1..(n + 2)
  BY <1>1, <1>3, TextOver
<1> QED
  BY <1>1, <1>3, <1>4, <1>5 DEF u

\* One line has one start, its label; nothing in the value can start another.
LEMMA OneLine ==
    ASSUME NEW label, NEW value, IsSequence(value),
           label \notin {"LF", "ESC", "LRM", "LS", "PS"}
    PROVE  /\ IsSequence(line(label, value)) /\ Len(line(label, value)) = Len(value) + 2
           /\ line(label, value)[1] = label
           /\ line(label, value)[Len(value) + 2] = "LF"
           /\ \A i \in DOMAIN value : line(label, value)[i + 1] = printable(value)[i]
           /\ Starts(line(label, value)) = {1}
           /\ \A banned : label \notin banned => Lines(line(label, value), banned)
<1> DEFINE p == printable(value)
           u == line(label, value)
           n == Len(value)
<1>1. /\ IsSequence(p) /\ Len(p) = n /\ n \in Nat /\ DOMAIN value = 1..n /\ DOMAIN p = 1..n
      /\ \A i \in 1..n : p[i] \notin {"LF", "ESC", "LRM", "LS", "PS"}
  BY Printed, SequenceDomain
<1> HIDE DEF p, n
<1>2. u = <<label>> \o p \o <<"LF">>
  BY DEF line, p
<1> HIDE DEF u
<1>5. /\ IsSequence(u) /\ Len(u) = n + 2 /\ DOMAIN u = 1..(n + 2)
      /\ u[1] = label /\ u[n + 2] = "LF"
      /\ \A i \in 1..n : u[i + 1] = p[i]
  BY <1>1, <1>2, Framed
<1>6. \A i \in 2..(n + 1) : u[i] \notin {"LF", "ESC", "LRM", "LS", "PS"}
  <2>1. \A i \in 2..(n + 1) : i - 1 \in 1..n /\ i = (i - 1) + 1
    BY <1>1
  <2> QED
    BY <1>1, <1>5, <2>1
<1>7. Starts(u) = {1}
  <2>1. 1 \in Starts(u)
    BY <1>1, <1>5 DEF Starts
  <2>2. ASSUME NEW i \in Starts(u), i # 1 PROVE FALSE
    <3>1. i \in 1..(n + 2) /\ u[i - 1] \in {"LF", "LS", "PS"}
      BY <1>5, <2>2 DEF Starts
    <3>2. i - 1 = 1 \/ i - 1 \in 2..(n + 1)
      BY <1>1, <2>2, <3>1
    <3> QED
      BY <1>5, <1>6, <3>1, <3>2
  <2> QED
    BY <2>1, <2>2
<1>8. \A i \in 1..(n + 2) : u[i] \notin {"ESC", "LRM", "LS", "PS"}
  <2>1. \A i \in 1..(n + 2) : i = 1 \/ i = n + 2 \/ i \in 2..(n + 1)
    BY <1>1
  <2> QED
    BY <1>5, <1>6, <2>1
<1>9. ASSUME NEW banned, label \notin banned PROVE Lines(u, banned)
  BY <1>5, <1>7, <1>8, <1>9 DEF Lines
<1> QED
  BY <1>1, <1>5, <1>7, <1>9 DEF u, p, n

\* Any number of texts one after the other are a text.
LEMMA FlattenedText ==
    ASSUME NEW parts, IsSequence(parts), \A i \in DOMAIN parts : IsSequence(parts[i])
    PROVE  IsSequence(FlattenSeq(parts))
<1> DEFINE C == UNION {{parts[i][j] : j \in DOMAIN parts[i]} : i \in DOMAIN parts}
           T == Seq(C)
<1>1. ASSUME NEW i \in DOMAIN parts PROVE parts[i] \in T
  <2>1. parts[i] \in Seq({parts[i][j] : j \in DOMAIN parts[i]})
    BY DEF IsSequence
  <2>2. {parts[i][j] : j \in DOMAIN parts[i]} \subseteq C
    OBVIOUS
  <2> QED
    BY <2>1, <2>2, SeqMonotonic
<1> HIDE DEF C
<1>2. << >> \in T /\ \A s, t \in T : s \o t \in T
  BY EmptySeq, ConcatProperties
<1> HIDE DEF T
<1>3. FlattenSeq(parts) \in T
  BY <1>1, <1>2, Flattened
<1> QED
  BY <1>3, TextOver DEF T

\* Any number of lines one after the other are lines.
LEMMA FlattenedLines ==
    ASSUME NEW banned, NEW parts, IsSequence(parts), \A i \in DOMAIN parts : Lines(parts[i], banned)
    PROVE  Lines(FlattenSeq(parts), banned)
<1> DEFINE C == UNION {{parts[i][j] : j \in DOMAIN parts[i]} : i \in DOMAIN parts}
           T == {t \in Seq(C) : Lines(t, banned)}
<1>1. ASSUME NEW i \in DOMAIN parts PROVE parts[i] \in T
  <2>1. parts[i] \in Seq({parts[i][j] : j \in DOMAIN parts[i]})
    BY DEF IsSequence, Lines
  <2>2. {parts[i][j] : j \in DOMAIN parts[i]} \subseteq C
    OBVIOUS
  <2> QED
    BY <2>1, <2>2, SeqMonotonic
<1> HIDE DEF C
<1>2. << >> \in T /\ \A s, t \in T : s \o t \in T
  BY EmptySeq, ConcatProperties, NoLines, LinesJoined
<1>3. \A t \in T : Lines(t, banned)
  OBVIOUS
<1> HIDE DEF T
<1>4. FlattenSeq(parts) \in T
  BY <1>1, <1>2, Flattened
<1> QED
  BY <1>3, <1>4

\* SetToSeq lists elements of a finite set.
LEMMA Listed ==
    ASSUME NEW S, IsFiniteSet(S)
    PROVE  /\ IsSequence(SetToSeq(S))
           /\ \A i \in DOMAIN SetToSeq(S) : SetToSeq(S)[i] \in S
<1> DEFINE n == Cardinality(S)
           f == SetToSeq(S)
<1>1. n \in Nat /\ ExistsBijection(1..n, S)
  BY FS_CardinalityType
<1>2. \E g \in [1..n -> S] : IsInjective(g)
  BY <1>1 DEF ExistsBijection, Bijection, Injection
<1>3. f \in [1..n -> S]
  BY <1>2 DEF SetToSeq
<1> HIDE DEF f
<1>4. f \in Seq(S)
  BY <1>1, <1>3
<1> QED
  BY <1>3, <1>4, TextOver DEF f

\* Something made of each element of a sequence is a sequence.
LEMMA Mapped ==
    ASSUME NEW s, IsSequence(s), NEW f, DOMAIN f = DOMAIN s, f = [i \in DOMAIN f |-> f[i]]
    PROVE  IsSequence(f)
<1>1. Len(s) \in Nat /\ DOMAIN s = 1..Len(s)
  BY SequenceDomain
<1>2. f \in [1..Len(s) -> {f[i] : i \in 1..Len(s)}]
  BY <1>1
<1>3. f \in Seq({f[i] : i \in 1..Len(s)})
  BY <1>1, <1>2
<1> QED
  BY <1>3, TextOver

-----------------------------------------------------------------------------
(***************************************************************************)
(* What the helpers of cli.py print.                                       *)
(***************************************************************************)

LEMMA BulletsAreLines ==
    ASSUME NEW problems, IsFiniteSet(problems), NEW banned, "" \notin banned
    PROVE  Lines(bullets(problems), banned)
<1> DEFINE s == SetToSeq(problems)
           parts == [i \in DOMAIN s |-> line("", <<s[i]>>)]
<1>1. IsSequence(s)
  BY Listed
<1>2. IsSequence(parts)
  <2> HIDE DEF s
  <2> QED
    BY <1>1, Mapped
<1>3. \A i \in DOMAIN parts : Lines(parts[i], banned)
  <2>1. \A x : Lines(line("", <<x>>), banned)
    BY ShortTexts, OneLine
  <2> QED
    BY <2>1
<1>4. bullets(problems) = FlattenSeq(parts)
  BY DEF bullets
<1> HIDE DEF parts
<1> QED
  BY <1>2, <1>3, <1>4, FlattenedLines

\* The names whose characters Spelling gives.
Spelled == Names \cup KeyIds \cup ActionTypes \cup Details

LEMMA JoinedIsText ==
    ASSUME NEW ids, IsFiniteSet(ids), ids \subseteq Spelled
    PROVE  IsSequence(joined(ids))
<1> DEFINE s == SetToSeq(ids)
           parts == [i \in DOMAIN s |-> Spelling[s[i]] \o <<",">>]
<1>1. IsSequence(s) /\ \A i \in DOMAIN s : s[i] \in Spelled
  BY Listed
<1>2. IsSequence(parts)
  <2> HIDE DEF s
  <2> QED
    BY <1>1, Mapped
<1>3. \A i \in DOMAIN parts : IsSequence(parts[i])
  BY <1>1, ShortTexts, Joined, SpellingAssumption DEF Spelled
<1>4. joined(ids) = FlattenSeq(parts)
  BY DEF joined
<1> HIDE DEF parts
<1> QED
  BY <1>2, <1>3, <1>4, FlattenedText

LEMMA SignersAreText ==
    ASSUME NEW key_ids, IsFiniteSet(key_ids), key_ids \subseteq KeyIds
    PROVE  IsSequence(signers(key_ids))
<1> DEFINE s == SetToSeq(key_ids)
           mark(key_id) == IF key_id \in DidKeys THEN <<"[self-described]">> ELSE << >>
           parts == [i \in DOMAIN s |-> Spelling[s[i]] \o mark(s[i]) \o <<",">>]
<1>1. IsSequence(s) /\ \A i \in DOMAIN s : s[i] \in KeyIds
  BY Listed
<1>2. IsSequence(parts)
  <2> HIDE DEF s
  <2> QED
    BY <1>1, Mapped
<1>3. \A i \in DOMAIN parts : IsSequence(parts[i])
  <2>1. \A key_id \in KeyIds : IsSequence(Spelling[key_id] \o mark(key_id))
    BY ShortTexts, Joined, SpellingAssumption
  <2> QED
    BY <1>1, <2>1, ShortTexts, Joined
<1>4. CASE key_ids = {}
  BY <1>4, ShortTexts DEF signers
<1>5. CASE key_ids # {}
  <2>1. signers(key_ids) = FlattenSeq(parts)
    BY <1>5 DEF signers
  <2> HIDE DEF parts
  <2> QED
    BY <1>2, <1>3, <2>1, FlattenedText
<1> QED
  BY <1>4, <1>5

LEMMA PartiesAreText ==
    /\ \A who \in Agent : IsSequence(agent(who))
    /\ \A who \in Principal : IsSequence(principal(who))
<1>1. ASSUME NEW who \in Agent PROVE IsSequence(agent(who))
  <2>1. IsSequence(Spelling[who.id]) /\ IsSequence(Spelling[who.key_id])
    BY SpellingAssumption DEF Agent
  <2>2. IsSequence(Spelling[who.id] \o <<"using">>)
    BY <2>1, ShortTexts, Joined
  <2> QED
    BY <2>1, <2>2, Joined DEF agent
<1>2. ASSUME NEW who \in Principal PROVE IsSequence(principal(who))
  <2>1. IsSequence(Spelling[who.id])
    BY SpellingAssumption DEF Principal
  <2> QED
    BY <2>1, ShortTexts, Joined DEF principal
<1> QED
  BY <1>1, <1>2

LEMMA MoneyIsLines ==
    ASSUME NEW label, NEW value, NEW banned, label \notin banned,
           label \notin {"LF", "ESC", "LRM", "LS", "PS"}
    PROVE  Lines(money(label, value), banned)
BY ShortTexts, OneLine, NoLines DEF money

\* The lines of _describe, none of them under "result", and under "scope" only a mandate's own.
LEMMA DescribeIsLines ==
    ASSUME NEW payload, IsDocument(payload),
           payload.type = "mandate" => IsFiniteSet(payload.scope),
           NEW banned, banned \subseteq {"result", "scope"},
           payload.type = "mandate" => "scope" \notin banned
    PROVE  Lines(describe(payload), banned)
<1> DEFINE A == line("document", <<payload.id, payload.type>>)
           B == line(IF payload.type = "mandate" THEN "granted" ELSE "issued",
                     <<ToString(payload.issued_at)>>)
<1>1. Lines(A, banned) /\ Lines(B, banned)
  BY ShortTexts, OneLine
<1>2. Lines(A \o B, banned)
  BY <1>1, LinesJoined
<1> HIDE DEF A, B
<1>3. CASE payload.type = "mandate"
  <2>1. IsMandate(payload)
    BY <1>3 DEF IsDocument, IsReceipt, IsOutcome
  <2> DEFINE L1 == line("principal", principal(payload.principal))
             L2 == line("to agent", agent(payload.agent))
             L3 == line("scope", joined(payload.scope))
             L4 == line("expires", <<ToString(payload.expires_at)>>)
             L5 == money("ceiling", payload.max_value)
  <2>2. Lines(L1, banned) /\ Lines(L2, banned)
    BY <2>1, PartiesAreText, OneLine DEF IsMandate
  <2>3. Lines(L3, banned)
    <3>1. payload.scope \subseteq Spelled
      BY <2>1 DEF IsMandate, Spelled
    <3>2. IsSequence(joined(payload.scope))
      BY <1>3, <3>1, JoinedIsText
    <3> QED
      BY <1>3, <3>2, OneLine
  <2>4. Lines(L4, banned)
    BY ShortTexts, OneLine
  <2>5. Lines(L5, banned)
    BY MoneyIsLines
  <2>6. describe(payload) = A \o B \o (L1 \o L2 \o L3 \o L4 \o L5)
    BY <1>3 DEF describe, A, B
  <2> HIDE DEF L1, L2, L3, L4, L5
  <2>7. Lines(L1 \o L2 \o L3 \o L4 \o L5, banned)
    BY <2>2, <2>3, <2>4, <2>5, LinesJoined
  <2> QED
    BY <1>2, <2>6, <2>7, LinesJoined
<1>4. CASE payload.type = "action"
  <2>1. IsReceipt(payload)
    BY <1>4 DEF IsDocument, IsMandate, IsOutcome
  <2> DEFINE L1 == line("agent", agent(payload.agent))
             L2 == line("principal", principal(payload.principal))
             L3 == line("action", Spelling[payload.action.type] \o <<"->">>
                                  \o Spelling[payload.action.detail])
             L4 == money("value", payload.action.value)
             L5 == line("under", <<payload.mandate_id>>)
             L6 == line("decision", <<payload.decision>>)
  <2>2. Lines(L1, banned) /\ Lines(L2, banned)
    BY <2>1, PartiesAreText, OneLine DEF IsReceipt
  <2>3. Lines(L3, banned)
    <3>1. payload.action.type \in ActionTypes /\ payload.action.detail \in Details
      BY <2>1 DEF IsReceipt, Action
    <3>2. IsSequence(Spelling[payload.action.type] \o <<"->">>)
      BY <3>1, SpellingAssumption, ShortTexts, Joined
    <3>3. IsSequence(Spelling[payload.action.type] \o <<"->">> \o Spelling[payload.action.detail])
      BY <3>1, <3>2, SpellingAssumption, Joined
    <3> QED
      BY <3>3, OneLine
  <2>4. Lines(L4, banned)
    BY MoneyIsLines
  <2>5. Lines(L5, banned) /\ Lines(L6, banned)
    BY ShortTexts, OneLine
  <2>6. describe(payload) = A \o B \o (L1 \o L2 \o L3 \o L4 \o L5 \o L6)
    BY <1>4 DEF describe, A, B
  <2> HIDE DEF L1, L2, L3, L4, L5, L6
  <2>7. Lines(L1 \o L2 \o L3 \o L4 \o L5 \o L6, banned)
    BY <2>2, <2>3, <2>4, <2>5, LinesJoined
  <2> QED
    BY <1>2, <2>6, <2>7, LinesJoined
<1>5. CASE payload.type = "outcome"
  <2>1. IsOutcome(payload)
    BY <1>5 DEF IsDocument, IsReceipt, IsMandate
  <2> DEFINE L1 == line("reports on", <<payload.receipt_id>>)
             L2 == line("evidence", Spelling[payload.detail])
  <2>2. Lines(L1, banned)
    BY ShortTexts, OneLine
  <2>3. Lines(L2, banned)
    BY <2>1, SpellingAssumption, OneLine DEF IsOutcome
  <2>4. describe(payload) = A \o B \o (L1 \o L2)
    BY <1>5 DEF describe, A, B
  <2> HIDE DEF L1, L2
  <2>5. Lines(L1 \o L2, banned)
    BY <2>2, <2>3, LinesJoined
  <2> QED
    BY <1>2, <2>4, <2>5, LinesJoined
<1>6. payload.type \in {"mandate", "action", "outcome"}
  BY DEF IsDocument, IsMandate, IsReceipt, IsOutcome
<1> QED
  BY <1>3, <1>4, <1>5, <1>6

\* A report is finite: a check has finitely many entries to make.
LEMMA ReportsAreFinite ==
    /\ \A parent, child : IsFiniteSet(delegation_problems(parent, child))
    /\ \A chain : IsFiniteSet(root_problems(chain))
    /\ \A mandate, receipt : IsFiniteSet(mandate_problems(mandate, receipt))
    /\ \A mandate, receipt : IsFiniteSet(scope_violations(mandate, receipt))
    /\ \A receipt, outcome : IsFiniteSet(binding_problems(receipt, outcome))
    /\ \A run : \A i \in 1..Len(run) : IsFiniteSet(sequence_problems(run)[i])
<1>1. \A condition, entry : IsFiniteSet(When(condition, entry))
  BY FS_EmptySet, FS_Singleton DEF When
<1>2. \A S, T : IsFiniteSet(S) /\ IsFiniteSet(T) => IsFiniteSet(S \cup T)
  BY FS_Union
<1>3. \A entry : IsFiniteSet({entry}) /\ IsFiniteSet({})
  BY FS_EmptySet, FS_Singleton
<1>4. \A parent, child : IsFiniteSet(delegation_problems(parent, child))
  <2>1. \A parent, child : IsFiniteSet(ceiling_problems(parent, child))
    BY <1>1, <1>2, <1>3 DEF ceiling_problems
  <2>2. \A parent, child : IsFiniteSet(attenuation_problems(parent, child))
    BY <1>1, <1>2, <2>1 DEF attenuation_problems
  <2>3. \A parent, child, link : IsFiniteSet(link_problems(parent, child, link))
    BY <1>1, <1>2 DEF link_problems
  <2> QED
    BY <1>2, <1>3, <2>2, <2>3 DEF delegation_problems
<1>5. \A chain : IsFiniteSet(root_problems(chain))
  BY <1>1, <1>2 DEF root_problems
<1>6. \A mandate, receipt : IsFiniteSet(mandate_problems(mandate, receipt))
  BY <1>1, <1>2 DEF mandate_problems
<1>7. \A mandate, receipt : IsFiniteSet(scope_violations(mandate, receipt))
  BY <1>1, <1>2, <1>3 DEF scope_violations, permits, value_violations
<1>8. \A receipt, outcome : IsFiniteSet(binding_problems(receipt, outcome))
  BY <1>1, <1>2 DEF binding_problems
<1>9. \A earlier, later : IsFiniteSet(prev_problems(earlier, later))
  BY <1>1, <1>2, <1>3 DEF prev_problems
<1>10. \A run : \A i \in 1..Len(run) : IsFiniteSet(sequence_problems(run)[i])
  BY <1>1, <1>9 DEF sequence_problems
<1> QED
  BY <1>4, <1>5, <1>6, <1>7, <1>8, <1>10

\* Nor has an envelope more signers than signatures.
LEMMA SignersAreFinite ==
    ASSUME NEW file, IsFile(file), file \notin Unusable, NEW listed
    PROVE  /\ IsFiniteSet(verified_signers(file, listed))
           /\ verified_signers(file, listed) \subseteq KeyIds
<1> DEFINE s == file.signatures
           f == [i \in DOMAIN s |-> s[i].key_id]
<1>1. IsSequence(s) /\ \A i \in DOMAIN s : s[i].key_id \in KeyIds
  BY DEF IsFile
<1>2. IsFiniteSet(DOMAIN s)
  <2>1. Len(s) \in Nat /\ DOMAIN s = 1..Len(s)
    BY <1>1, SequenceDomain
  <2> QED
    BY <2>1, FS_Interval
<1>3. f \in Surjection(DOMAIN s, labels(file))
  BY DEF Surjection, labels
<1>4. IsFiniteSet(labels(file))
  BY <1>2, <1>3, FS_Surjection
<1>5. verified_signers(file, listed) \subseteq labels(file)
  BY DEF verified_signers
<1>6. labels(file) \subseteq KeyIds
  BY <1>1 DEF labels
<1> QED
  BY <1>4, <1>5, <1>6, FS_Subset

-----------------------------------------------------------------------------
(***************************************************************************)
(* What a reader makes of lines.                                           *)
(***************************************************************************)

LEMMA LinesArePlain ==
    ASSUME NEW banned, NEW text, Lines(text, banned)
    PROVE  Plain(text) /\ \A label \in banned : Under(text, label) = {}
BY DEF Lines, Plain, Under

\* Lines under some other label, then one under this one: that one is found, and what it says.
LEMMA LastLine ==
    ASSUME NEW text, NEW label, NEW value, Lines(text, {label}), IsSequence(value),
           label \notin {"LF", "ESC", "LRM", "LS", "PS"},
           value # << >>, value[1] \notin {"LF", "ESC", "LRM", "LS", "PS"}
    PROVE  /\ Under(text \o line(label, value), label) = {Len(text) + 1}
           /\ (text \o line(label, value))[Len(text) + 2] = value[1]
           /\ \A j \in Starts(text \o line(label, value)) : j =< Len(text) + 1
           /\ Len(text) \in Nat
<1> DEFINE l == line(label, value)
           n == Len(text)
<1>1. /\ IsSequence(text) /\ n \in Nat /\ DOMAIN text = 1..n
      /\ text # << >> => text[n] = "LF"
      /\ Under(text, label) = {}
  BY SequenceDomain, LinesArePlain DEF Lines
<1>2. /\ IsSequence(l) /\ Starts(l) = {1} /\ l[1] = label
      /\ Len(l) = Len(value) + 2
      /\ \A i \in DOMAIN value : l[i + 1] = printable(value)[i]
  BY OneLine
<1>3. Len(value) \in Nat /\ DOMAIN value = 1..Len(value) /\ 1 \in DOMAIN value
  BY EmptySeq DEF IsSequence
<1>4. l[2] = value[1]
  <2>1. l[1 + 1] = printable(value)[1] /\ printable(value)[1] = value[1]
    BY <1>2, <1>3, Printed
  <2> QED
    BY <2>1
<1> HIDE DEF l
<1>5. Starts(text \o l) = Starts(text) \cup {n + 1}
  BY <1>1, <1>2, StartsJoined
<1>6. Under(text \o l, label) = {n + 1}
  <2>1. Under(text \o l, label) = Under(text, label) \cup {n + i : i \in Under(l, label)}
    BY <1>1, <1>2, UnderJoined
  <2>2. Under(l, label) = {1}
    BY <1>2 DEF Under
  <2> QED
    BY <1>1, <2>1, <2>2
<1>7. (text \o l)[n + 2] = l[2]
  BY <1>1, <1>2, <1>3, Joined
<1>8. \A j \in Starts(text \o l) : j =< n + 1
  BY <1>1, <1>5 DEF Starts
<1> QED
  BY <1>1, <1>4, <1>6, <1>7, <1>8 DEF l

\* Lines under other labels leave what stands under this one as it was.
LEMMA AfterLines ==
    ASSUME NEW s, NEW t, NEW label, Lines(s, {}), Lines(t, {label}), label # "LF"
    PROVE  /\ Under(s \o t, label) = Under(s, label)
           /\ \A i \in Under(s, label) : (s \o t)[i + 1] = s[i + 1]
<1> DEFINE u == s \o t
<1>1. IsSequence(s) /\ IsSequence(t) /\ (s # << >> => s[Len(s)] = "LF") /\ Under(t, label) = {}
  BY LinesArePlain DEF Lines
<1>2. Under(u, label) = Under(s, label)
  <2>1. Under(u, label) = Under(s, label) \cup {Len(s) + i : i \in Under(t, label)}
    BY <1>1, UnderJoined
  <2> QED
    BY <1>1, <2>1
<1>3. ASSUME NEW i \in Under(s, label)
      PROVE  u[i + 1] = s[i + 1]
  <2>1. /\ DOMAIN s = 1..Len(s) /\ Len(s) \in Nat
        /\ \A j \in 1..Len(s) : u[j] = s[j]
    BY <1>1, Joined
  <2>2. i \in 1..Len(s) /\ s[i] = label
    BY <1>3, <2>1 DEF Under, Starts
  <2>3. s # << >>
    BY <2>1, <2>2
  <2>4. i # Len(s)
    BY <1>1, <2>2, <2>3
  <2>5. i + 1 \in 1..Len(s)
    <3>1. \A a, b \in Nat : a \in 1..b /\ a # b => a + 1 \in 1..b
      OBVIOUS
    <3>2. i \in Nat
      BY <2>1, <2>2
    <3> QED
      BY <2>1, <2>2, <2>4, <3>1, <3>2, Zenon
  <2> QED
    BY <2>1, <2>5
<1> QED
  BY <1>2, <1>3

\* Text after text after text, whichever two are put together first.
LEMMA Associates ==
    ASSUME NEW s, NEW t, NEW u, IsSequence(s), IsSequence(t), IsSequence(u)
    PROVE  s \o (t \o u) = (s \o t) \o u
<1> DEFINE A == {s[i] : i \in DOMAIN s}
           B == {t[i] : i \in DOMAIN t}
           C == {u[i] : i \in DOMAIN u}
<1>1. s \in Seq(A) /\ t \in Seq(B) /\ u \in Seq(C)
  BY DEF IsSequence
<1> HIDE DEF A, B, C
<1>2. s \in Seq(A \cup B \cup C) /\ t \in Seq(A \cup B \cup C) /\ u \in Seq(A \cup B \cup C)
  BY <1>1, SeqMonotonic
<1> QED
  BY <1>2, ConcatAssociative

LEMMA VerdictIsPlain ==
    ASSUME NEW code_given
    PROVE  VerdictOf(code_given) \notin {"LF", "ESC", "LRM", "LS", "PS"}
BY Zenon DEF VerdictOf

\* What stands first in a text put together from its first character and a rest.
LEMMA FirstOf ==
    ASSUME NEW a, NEW rest, IsSequence(rest)
    PROVE  /\ IsSequence(<<a>> \o rest) /\ <<a>> \o rest # << >> /\ (<<a>> \o rest)[1] = a
           /\ IsSequence(<<a>>) /\ <<a>> # << >> /\ <<a>>[1] = a
<1>1. /\ IsSequence(<<a>> \o rest) /\ Len(<<a>> \o rest) = 1 + Len(rest) /\ Len(rest) \in Nat
      /\ (<<a>> \o rest)[1] = a
  BY ShortTexts, Joined
<1>2. Len(<< >>) = 0
  OBVIOUS
<1>3. <<a>> \o rest # << >>
  <2>1. 1 + Len(rest) # 0
    BY <1>1
  <2> QED
    BY <1>1, <1>2, <2>1
<1> QED
  BY <1>1, <1>3, ShortTexts

\* The value of a result line starts with the verdict.
LEMMA VerdictIsFirst ==
    ASSUME NEW passed \in BOOLEAN, NEW rest, IsSequence(rest)
    PROVE  LET value == IF passed THEN <<"VERIFIED">> ELSE <<"NOT VERIFIED">> \o rest
           IN  /\ IsSequence(value) /\ value # << >>
               /\ value[1] = VerdictOf(IF passed THEN VERIFIED ELSE NOT_VERIFIED)
<1>1. VerdictOf(VERIFIED) = "VERIFIED" /\ VerdictOf(NOT_VERIFIED) = "NOT VERIFIED"
  <2>1. VERIFIED # NOT_VERIFIED
    BY DEF VERIFIED, NOT_VERIFIED
  <2> QED
    BY <2>1, Zenon DEF VerdictOf
<1>2. CASE passed
  BY <1>1, <1>2, FirstOf, Zenon
<1>3. CASE ~ passed
  BY <1>1, <1>3, FirstOf, Zenon
<1> QED
  BY <1>2, <1>3

\* A screen of lines with no verdict, then the verdict.
LEMMA VerdictConcludes ==
    ASSUME NEW text, Lines(text, {"result"}), NEW value, IsSequence(value), value # << >>,
           NEW code_given \in {VERIFIED, NOT_VERIFIED}, value[1] = VerdictOf(code_given)
    PROVE  /\ Plain(text \o line("result", value))
           /\ Concluded(text \o line("result", value), code_given)
<1> DEFINE l == line("result", value)
           n == Len(text)
<1>1. /\ Under(text \o l, "result") = {n + 1}
      /\ (text \o l)[n + 2] = value[1]
      /\ \A j \in Starts(text \o l) : j =< n + 1
      /\ n \in Nat
  BY LastLine, VerdictIsPlain
<1>2. Lines(text \o l, {})
  <2>1. Lines(text, {})
    BY DEF Lines
  <2>2. Lines(l, {})
    BY OneLine
  <2> QED
    BY <2>1, <2>2, LinesJoined
<1>3. Plain(text \o l)
  BY <1>2, LinesArePlain
<1> HIDE DEF l, n
<1>4. Concluded(text \o l, code_given)
  <2>1. n + 1 + 1 = n + 2
    BY <1>1
  <2> QED
    BY <1>1, <2>1 DEF Concluded
<1> QED
  BY <1>3, <1>4 DEF l
=============================================================================
