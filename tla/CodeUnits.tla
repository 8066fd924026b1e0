----------------------------- MODULE CodeUnits -----------------------------
(***************************************************************************)
(* The order of texts, as sequences of code points, that scopes and object *)
(* keys are put in: that of their UTF-16 code units.                       *)
(***************************************************************************)
EXTENDS Integers, SequencesExt

CONSTANT None       \* the absent value

\* A str holds no lone surrogates by the time pydantic has accepted it.
CodePoint == {c \in Nat : c < 1114112 /\ c \notin 55296..57343}

utf_16(text) ==
    FlattenSeq([i \in DOMAIN text |->
        IF text[i] < 65536 THEN <<text[i]>>
        ELSE <<55296 + (text[i] - 65536) \div 1024, 56320 + ((text[i] - 65536) % 1024)>>])

Before(s, t) ==
    \/ IsStrictPrefix(s, t)
    \/ \E n \in DOMAIN s \cap DOMAIN t :
          s[n] < t[n] /\ SubSeq(s, 1, n - 1) = SubSeq(t, 1, n - 1)

Sorted(order) == \A i, j \in DOMAIN order : i < j => Before(order[i], order[j])

\* A set of texts in the order of their code units, and as Python sorts text (for mutants).
in_utf16_order(texts) ==
    CHOOSE order \in SetToSeqs(texts) : Sorted([i \in DOMAIN order |-> utf_16(order[i])])

in_code_point_order(texts) == CHOOSE order \in SetToSeqs(texts) : Sorted(order)

\* The order JavaScript gives code points: the ones above U+FFFF before U+E000.
rank(c) == IF c < 55296 THEN c ELSE IF c >= 65536 THEN c - 10240 ELSE c + 1048576

ranks(text) == [n \in DOMAIN text |-> rank(text[n])]
=============================================================================
