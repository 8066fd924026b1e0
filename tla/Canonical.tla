----------------------------- MODULE Canonical -----------------------------
(***************************************************************************)
(* One document from the values a caller passes to a signature that has    *)
(* been checked: the canonical forms of models.py, revalidation before     *)
(* signing (canonical.py), and writing to JSON and reading back.           *)
(*                                                                         *)
(* Only the fields with a canonical form are here.  A text is a sequence   *)
(* of code points; time is counted in ticks finer than the milliseconds    *)
(* documents keep.  Unicode's tables are constants: what a character is    *)
(* taken apart into, which pairs are composed, the class of each mark.     *)
(***************************************************************************)
EXTENDS CodeUnits

CONSTANTS
    Inputs,         \* the field values a caller may pass
    Milli,          \* ticks in a millisecond; 1000 microseconds in the code
    CalendarEnd,    \* the last tick datetime can hold; the first is 0
    FloatPlaces,    \* 6, the places format(x, "f") gives a float
    MaxText,        \* 512 characters in the code
    MaxTarget,      \* 2048 in the code
    Decomposes,     \* code points that stand for several, and which
    Composes,       \* pairs of code points that have a single spelling, and which
    Combining,      \* marks that may change places, and their combining class
    Spaces,
    Controls,       \* categories Cc and Cf
    Schemes         \* code points that stand for "http://" and "https://"

Character == CodePoint \cup Schemes

\* An aware or a naive datetime.
Moment == [offset : Int \cup {None}, local : Int]

\* A Decimal that is finite (as_tuple has at least one digit), or a float.
Amount ==
    [kind : {"decimal", "float"}, sign : {0, 1},
     digits : Seq(0..9) \ {<< >>}, exponent : Int]

\* The values a caller can pass for the fields.
Values ==
    [issued_at : Moment, amount : Amount,
     scope : Seq(Seq(CodePoint)), reason : Seq(Character), target : Seq(Character)]

ASSUME CanonicalAssumption ==
    /\ {Milli, MaxText, MaxTarget} \subseteq Nat \ {0}
    /\ {CalendarEnd, FloatPlaces} \subseteq Nat
    /\ None \notin Int
    /\ None \notin {"given", "held", "copied", "signed", "read", "lost", "broken"}
    /\ \A values \in Inputs : values \in Values

VARIABLES stage, document, envelope

document_vars == <<stage, document, envelope>>

-----------------------------------------------------------------------------
(***************************************************************************)
(* Timestamps: [offset, local], the offset None when there is no zone.     *)
(***************************************************************************)
instant(moment) == moment.local - moment.offset

\* astimezone() on an instant the calendar does not hold: OverflowError, not a ValueError.
Overflows(moment) == moment.offset # None /\ instant(moment) \notin 0..CalendarEnd

\* Mutant: the fraction of the second is dropped whole (a second has two milliseconds here).
canonical_timestamp_in_seconds(moment) ==
    [offset |-> 0, local |-> instant(moment) - (instant(moment) % (2 * Milli))]

canonical_timestamp(moment) ==
    [offset |-> 0, local |-> instant(moment) - (instant(moment) % Milli)]

format_timestamp(moment) == moment.local \div Milli

(***************************************************************************)
(* Amounts: sign, digits and exponent, of a Decimal or (written out in     *)
(* full) of a float.                                                       *)
(***************************************************************************)
IsZero(digits) == \A i \in DOMAIN digits : digits[i] = 0

IsAmount(amount) == amount.kind = "decimal" /\ (amount.sign = 0 \/ IsZero(amount.digits))

zeros(n) == [i \in 1..Max({n, 0}) |-> 0]

\* Mutant: one zero is stripped, not all of them.
strippable_once(amount) == IF amount.exponent < 0 /\ Last(amount.digits) = 0 THEN 1 ELSE 0

\* How many zeros the loop strips: trailing ones, and only from the fraction.
strippable(amount) ==
    LET digits == amount.digits
    IN  Max({k \in 0..Len(digits) : (k = 0 \/ k =< -amount.exponent)
                                    /\ IsZero(SubSeq(digits, Len(digits) - k + 1, Len(digits)))})

\* Mutant: normalize(), which rounds to the precision of the context (two digits here).
canonical_amount_in_context(amount) ==
    LET kept == Min({2, Len(amount.digits)})
    IN  [amount EXCEPT !.digits = SubSeq(@, 1, kept),
                       !.exponent = @ + Len(amount.digits) - kept]

canonical_amount(amount) ==
    IF IsZero(amount.digits) THEN [amount EXCEPT !.sign = 0, !.digits = <<0>>, !.exponent = 0]
    ELSE [amount EXCEPT !.digits = SubSeq(@, 1, Len(@) - strippable(amount)),
                        !.exponent = @ + strippable(amount)]

\* A float to the fixed number of places, rounded towards zero here.
in_places(amount) ==
    LET dropped == Max({0, -FloatPlaces - amount.exponent})
        digits == amount.digits \o zeros(amount.exponent + FloatPlaces)
    IN  [amount EXCEPT !.digits = SubSeq(digits, 1, Len(digits) - dropped),
                       !.exponent = -FloatPlaces]

plain(amount) ==
    LET digits == amount.digits
        point == Len(digits) + amount.exponent
    IN  [minus |-> amount.sign,
         whole |-> IF point =< 0 THEN <<0>> ELSE SubSeq(digits \o zeros(amount.exponent), 1, point),
         fraction |-> IF amount.exponent >= 0 THEN << >>
                      ELSE zeros(-point) \o SubSeq(digits, Max({point, 0}) + 1, Len(digits))]

\* format(amount, "f"): the digits before and after the point, in plain notation.
format_amount(amount) == plain(IF amount.kind = "float" THEN in_places(amount) ELSE amount)

\* Decimal(text): leading zeros do not count.
read_amount(text) ==
    LET digits == text.whole \o text.fraction
        leading == Max({k \in 0..(Len(digits) - 1) : IsZero(SubSeq(digits, 1, k))})
    IN  [kind |-> "decimal", sign |-> text.minus,
         digits |-> SubSeq(digits, leading + 1, Len(digits)), exponent |-> -Len(text.fraction)]

(***************************************************************************)
(* Text.                                                                   *)
(***************************************************************************)
combining(c) == IF c \in DOMAIN Combining THEN Combining[c] ELSE 0

spelled_out(text) ==
    FlattenSeq([i \in DOMAIN text |->
                   IF text[i] \in DOMAIN Decomposes THEN Decomposes[text[i]] ELSE <<text[i]>>])

\* A character is taken apart once and for all, and a pair is composed into one that is taken
\* apart into what the pair is and that is no mark.
ASSUME UnicodeAssumption ==
    /\ Combining \in [DOMAIN Combining -> Nat \ {0}]
    /\ \A c \in DOMAIN Decomposes :
          Decomposes[c] \in Seq(CodePoint \ DOMAIN Decomposes) \ {<< >>}
    /\ \A pair \in DOMAIN Composes :
          /\ Composes[pair] \in (CodePoint \cap DOMAIN Decomposes) \ DOMAIN Combining
          /\ Decomposes[Composes[pair]] = spelled_out(pair)

\* Canonical ordering: a mark goes before the marks of a higher class that it follows.
placed(done, c) ==
    LET stays == SelectLastInSeq(done, LAMBDA b : combining(c) = 0 \/ combining(b) =< combining(c))
    IN  InsertAt(done, stays + 1, c)

decomposed(text) == FoldLeft(placed, << >>, spelled_out(text))

\* Canonical composition: a character joins the last letter, unless one between them blocks it.
added(done, c) ==
    LET letter == SelectLastInSeq(done, LAMBDA b : combining(b) = 0)
    IN  IF /\ letter # 0 /\ <<done[letter], c>> \in DOMAIN Composes
           /\ \A i \in (letter + 1)..Len(done) : combining(done[i]) < combining(c)
        THEN ReplaceAt(done, letter, Composes[<<done[letter], c>>])
        ELSE Append(done, c)

\* unicodedata.normalize("NFC", text).  Some characters decompose and do not compose again.
NFC(text) == FoldLeft(added, << >>, decomposed(text))

canonical_text(text) == NFC(text)

\* The length is checked on what is passed, the rest on its canonical form.
IsIdentifier(text) ==
    /\ Len(text) \in 1..MaxText
    /\ {canonical_text(text)[1], Last(canonical_text(text))} \cap Spaces = {}

IsFreeText(text) == Len(text) =< MaxText

\* A scheme is one character here, so a url with a host is one with something after it.
IsTarget(text) ==
    LET canonical == canonical_text(text)
    IN  /\ Len(text) =< MaxTarget
        /\ ToSet(canonical) \cap Controls = {}
        /\ Len(canonical) > 1 /\ canonical[1] \in Schemes

(***************************************************************************)
(* Scope: a set, kept in the order of its entries' UTF-16 code units.      *)
(***************************************************************************)
\* Mutant: sorted by code point, as Python sorts text.
canonical_scope_by_code_point(scope) == in_code_point_order(ToSet(scope))

canonical_scope(scope) == in_utf16_order(ToSet(scope))

-----------------------------------------------------------------------------
(***************************************************************************)
(* Validation, which every document goes through: what it escapes with,    *)
(* what it refuses, and the value it makes.                                *)
(***************************************************************************)
IsDocument(values) ==
    /\ values.issued_at.offset # None
    /\ IsAmount(values.amount)
    /\ values.scope # << >> /\ \A i \in DOMAIN values.scope : IsIdentifier(values.scope[i])
    /\ IsFreeText(values.reason)
    /\ IsTarget(values.target)

Accepts(values) == ~ Overflows(values.issued_at) /\ IsDocument(values)

model_validate(values) ==
    [issued_at |-> canonical_timestamp(values.issued_at),
     amount |-> canonical_amount(values.amount),
     scope |-> canonical_scope([i \in DOMAIN values.scope |-> canonical_text(values.scope[i])]),
     reason |-> canonical_text(values.reason),
     target |-> canonical_text(values.target)]

\* model_dump(mode="json"), which prints the fields of a time as they are, and reading it again.
model_dump(values) ==
    [values EXCEPT !.issued_at = format_timestamp(@), !.amount = format_amount(@)]

from_json(form) ==
    [form EXCEPT !.issued_at = [offset |-> 0, local |-> @ * Milli], !.amount = read_amount(@)]

\* model_dump() in Python values: only amounts become text.
redumped(values) == [values EXCEPT !.amount = read_amount(format_amount(@))]

\* Mutant: the document is taken for canonical as it is.
canonical_json_value_as_held(values) == model_dump(values)

\* A document in memory need not be canonical, so it is validated again before it is signed.
canonical_json_value(values) == model_dump(model_validate(redumped(values)))

\* Nobody makes a document.
NoDocument == stage = None /\ document = None /\ envelope = None

DocumentInit ==
    /\ stage = "given"
    /\ document \in Inputs
    /\ envelope = None

\* Where validating these values leads, when it does not lead on.
Escapes(values) == Overflows(values.issued_at) /\ stage' = "escaped" /\ UNCHANGED <<document, envelope>>

RefusedAs(values, outcome) ==
    /\ ~ Overflows(values.issued_at)
    /\ ~ IsDocument(values)
    /\ stage' = outcome
    /\ UNCHANGED <<document, envelope>>

Construct ==
    /\ stage = "given"
    /\ \/ Escapes(document)
       \/ RefusedAs(document, "refused")
       \/ /\ Accepts(document)
          /\ document' = model_validate(document)
          /\ stage' = "held"
          /\ UNCHANGED envelope

\* model_copy(update={field: value}) skips the validators.
Copy ==
    /\ stage = "held"
    /\ \E field \in DOMAIN document, other \in Inputs :
          document' = [document EXCEPT ![field] = other[field]]
    /\ stage' = "copied"
    /\ UNCHANGED envelope

\* The bytes of the canonical form are signed; the envelope keeps the document as it is held.
Sign ==
    /\ stage \in {"held", "copied"}
    /\ \/ Escapes(document)
       \/ RefusedAs(redumped(document), "refused")
       \/ /\ Accepts(redumped(document))
          /\ envelope' = [payload |-> document, covered |-> canonical_json_value(document)]
          /\ stage' = "signed"
          /\ UNCHANGED document

\* to_json() writes what is held, and somebody reads it.
ReadBack ==
    /\ stage = "signed"
    /\ LET values == from_json(model_dump(envelope.payload))
       IN  \/ RefusedAs(values, "lost")
           \/ /\ Accepts(values)
              /\ document' = model_validate(values)
              /\ stage' = "read"
              /\ UNCHANGED envelope

\* verified_signers computes the bytes again and checks the signature against them.
Check ==
    /\ stage = "read"
    /\ \/ RefusedAs(redumped(document), "lost")
       \/ /\ Accepts(redumped(document))
          /\ stage' = IF canonical_json_value(document) = envelope.covered THEN "verified" ELSE "broken"
          /\ UNCHANGED <<document, envelope>>

DocumentNext == Construct \/ Copy \/ Sign \/ ReadBack \/ Check

-----------------------------------------------------------------------------
\* The digits of an amount that count, each with its place and the sign.
places(amount) ==
    {<<amount.sign, Len(amount.digits) - i + amount.exponent, amount.digits[i]>> :
        i \in {n \in DOMAIN amount.digits : amount.digits[n] # 0}}

\* What a document says, however it is spelled: an instant to the millisecond, an exact
\* amount, and texts up to canonical equivalence.
meaning(values) ==
    [issued_at |-> instant(values.issued_at) \div Milli,
     amount |-> places(values.amount),
     scope |-> {decomposed(values.scope[i]) : i \in DOMAIN values.scope},
     reason |-> decomposed(values.reason),
     target |-> decomposed(values.target)]

Readings == {<<canonical_json_value(values), meaning(values)>> :
                 values \in {given \in Inputs : Accepts(given)}}

\* FORMAT.md:3, "two documents describing the same thing MUST produce the same bytes", and
\* two that differ must not: over everything else that could have been passed.  A float
\* copied into a document is the exception (it is rounded to six places).
OneMeaningOneForm ==
    (stage = "signed" /\ document.amount.kind = "decimal") =>
        \A reading \in Readings : (reading[1] = envelope.covered) <=> (reading[2] = meaning(document))

\* A signed scope is in the order an implementation in another language would give it,
\* each entry once (FORMAT.md:92-96, models.py:125-130).
ScopeInUtf16Order ==
    (stage = "signed") =>
        \A i, j \in DOMAIN envelope.covered.scope :
            i < j => Before(ranks(envelope.covered.scope[i]), ranks(envelope.covered.scope[j]))

grows(text, limit) == Len(canonical_text(text)) > limit

\* In UTC, and no text that normalising lengthens past its limit.
Sturdy(values) ==
    /\ values.issued_at.offset = 0
    /\ \A i \in DOMAIN values.scope : ~ grows(values.scope[i], MaxText)
    /\ ~ grows(values.reason, MaxText) /\ ~ grows(values.target, MaxTarget)

\* FORMAT.md:160-161, "feeding a canonical document back through canonicalization returns it
\* unchanged": whatever was passed, a document that was made is accepted and left alone when
\* it is validated again (models.py:102-130), for every sturdy document.
CanonicalFormIsAFixedPoint ==
    (stage = "held" /\ Sturdy(document)) => Accepts(document) /\ model_validate(document) = document

\* What is signed verifies after it was written and read, also when validators were skipped
\* (canonical.py:39-46), for every sturdy document.
SturdySignaturesSurvive == (stage \in {"lost", "broken"}) => ~ Sturdy(envelope.payload)

Grants == INSTANCE Scope WITH
    Names <- {}, KeyIds <- {}, DocumentIds <- {}, ActionTypes <- {}, Currencies <- {}, Details <- {}

\* What permits() says of a time under a grant that expires when this document was issued.
Asked(ticks) ==
    Grants!permits([scope |-> {"pay"}, expires_at |-> instant(document.issued_at), max_value |-> None],
                   [type |-> "pay", value |-> None], ticks) = {}

\* permits() takes a time as fine as the caller's clock, the record is kept in whole
\* milliseconds (models.py:47): who is told yes is inside when it is recorded, and who is
\* told no but recorded inside asked within one millisecond of the expiry (scope.py:70).
OnlyTheLastMillisecondIsLost ==
    (stage = "held") =>
        \A other \in {values \in Inputs : Accepts(values)} :
            LET now == instant(other.issued_at)
                recorded == instant(canonical_timestamp(other.issued_at))
            IN  /\ Asked(now) => Asked(recorded)
                /\ Asked(recorded) /\ ~ Asked(now) => now - instant(document.issued_at) < Milli

=============================================================================
