------------------------------ MODULE KeyText ------------------------------
(***************************************************************************)
(* How keys and signatures are written: base58btc in a did:key (keys.py),  *)
(* base64url in a key directory (keys.py) and in an envelope (signing.py). *)
(*                                                                         *)
(* Bytes and characters are small numbers, and -1 is any character outside *)
(* the alphabet.  What matters of the sizes is kept: three bytes fill four *)
(* base64 characters, a signature is one byte over that, a key two.        *)
(***************************************************************************)
EXTENDS CodeUnits

CONSTANTS
    Pair,               \* the values of two bits: 4 in the code
    Base58,             \* the number of characters a did:key is written in
    Tag,                \* ED25519_MULTICODEC
    KeySize,            \* ED25519_PUBLIC_KEY_SIZE
    SignatureSize       \* ED25519_SIGNATURE_SIZE

ByteBase == Pair * Pair * Pair * Pair
Base64 == Pair * Pair * Pair

Bytes == Seq(0..(ByteBase - 1))

ASSUME KeyTextAssumption ==
    /\ {Pair, Base58} \subseteq Nat \ {0, 1}
    /\ Tag \in Bytes
    /\ {KeySize, SignatureSize} \subseteq Nat /\ KeySize % 3 = 2 /\ SignatureSize % 3 = 1
    /\ None \notin Seq(Int)

number(digits, base) ==
    LET upto[n \in 0..Len(digits)] == IF n = 0 THEN 0 ELSE upto[n - 1] * base + digits[n]
    IN  upto[Len(digits)]

\* The loop of divmod: no leading zeros, and nothing at all for zero.
shortest(total, base) ==
    LET digits[n \in Nat] == IF n = 0 THEN << >> ELSE Append(digits[n \div base], n % base)
    IN  digits[total]

leading_zero_digits(digits) ==
    Max({n \in 0..Len(digits) : \A i \in 1..n : digits[i] = 0})

zero_digits(n) == [i \in 1..n |-> 0]

InAlphabet(characters, base) == \A i \in DOMAIN characters : characters[i] \in 0..(base - 1)

-----------------------------------------------------------------------------
base58_encode(raw) == zero_digits(leading_zero_digits(raw)) \o shortest(number(raw, ByteBase), Base58)

\* Mutant: a leading zero adds nothing to the number, and is not carried across.
base58_decode_as_number(text) ==
    IF ~ InAlphabet(text, Base58) THEN None ELSE shortest(number(text, Base58), ByteBase)

base58_decode(text) ==
    IF ~ InAlphabet(text, Base58) THEN None
    ELSE zero_digits(leading_zero_digits(text)) \o shortest(number(text, Base58), ByteBase)

\* The part of a did:key after its prefix.
public_key_to_did(key) == base58_encode(Tag \o key)

did_to_public_key(text) ==
    LET decoded == base58_decode(text)
        raw == SubSeq(decoded, Len(Tag) + 1, Len(decoded))
    IN  IF decoded = None \/ ~ IsPrefix(Tag, decoded) \/ Len(raw) # KeySize THEN None ELSE raw

-----------------------------------------------------------------------------
\* The pair of bits of a symbol that has so many behind it.
pair_of(symbol, behind) ==
    <<symbol, symbol \div Pair, (symbol \div Pair) \div Pair,
      ((symbol \div Pair) \div Pair) \div Pair>>[behind + 1] % Pair

\* Symbols as pairs of bits, `each` of them a symbol, and pairs of bits as n symbols, the last
\* one filled with zeros.
taken_apart(symbols, each) ==
    [k \in 1..(each * Len(symbols)) |-> pair_of(symbols[(k - 1) \div each + 1], each - 1 - ((k - 1) % each))]

put_together(pairs, each, n) ==
    LET pair(k) == IF k \in DOMAIN pairs THEN pairs[k] ELSE 0
    IN  [i \in 1..n |-> number([j \in 1..each |-> pair(each * (i - 1) + j)], Pair)]

\* Mutant: filled with zero bits on the left, as a number would be.
urlsafe_b64encode_as_number(raw) ==
    LET n == (4 * Len(raw) + 2) \div 3
    IN  put_together(zero_digits(3 * n - 4 * Len(raw)) \o taken_apart(raw, 4), 3, n)

\* Unpadded: the last character is filled with zero bits.
urlsafe_b64encode(raw) == put_together(taken_apart(raw, 4), 3, (4 * Len(raw) + 2) \div 3)

\* With the padding put back.  Whole bytes are kept and the bits after them dropped unread.
b64decode(text) ==
    IF ~ InAlphabet(text, Base64) \/ Len(text) % 4 = 1 THEN None
    ELSE put_together(taken_apart(text, 3), 4, (3 * Len(text)) \div 4)

\* The `x` of a key in a directory: any spelling of a key.
read_x(text) ==
    LET raw == b64decode(text) IN IF raw = None \/ Len(raw) # KeySize THEN None ELSE raw

write_x(key) == urlsafe_b64encode(key)

\* Mutant: the length is enough.
read_signature_of_any_spelling(text) ==
    LET raw == b64decode(text) IN IF raw = None \/ Len(raw) # SignatureSize THEN None ELSE raw

\* The value of a signature: the one spelling that encoding it gives.
read_signature(text) ==
    LET raw == b64decode(text)
    IN  IF raw = None \/ Len(raw) # SignatureSize \/ urlsafe_b64encode(raw) # text THEN None
        ELSE raw

-----------------------------------------------------------------------------
(***************************************************************************)
(* A key or a signature is written down, copied by hand with at most one   *)
(* slip, and read.                                                         *)
(***************************************************************************)
VARIABLES
    notation,           \* "did", or "x" in a key directory, or the "value" of a signature
    octets,             \* what is written down
    spelling,           \* what it is written as
    copied,             \* the text that is read
    answer              \* the bytes that gives, or none

text_vars == <<notation, octets, spelling, copied, answer>>

Raws(size) == [1..size -> 0..(ByteBase - 1)]

encode(form, bytes) ==
    CASE form = "did" -> public_key_to_did(bytes)
      [] form = "x" -> write_x(bytes)
      [] form = "value" -> urlsafe_b64encode(bytes)

decode(form, characters) ==
    CASE form = "did" -> did_to_public_key(characters)
      [] form = "x" -> read_x(characters)
      [] form = "value" -> read_signature(characters)

\* Nobody writes anything.
NoText == notation = None /\ octets = None /\ spelling = None /\ copied = None /\ answer = None

TextInit ==
    /\ notation \in {"did", "x", "value"}
    /\ octets \in Raws(IF notation = "value" THEN SignatureSize ELSE KeySize)
    /\ spelling = None /\ copied = None /\ answer = None

Write ==
    /\ notation # None /\ spelling = None
    /\ spelling' = encode(notation, octets)
    /\ copied' = spelling'
    /\ UNCHANGED <<notation, octets, answer>>

Slip ==
    /\ spelling # None /\ copied = spelling /\ answer = None
    /\ \/ \E i \in DOMAIN spelling : copied' = RemoveAt(spelling, i)
       \/ \E i \in DOMAIN spelling, c \in -1..(Max({Base58, Base64}) - 1) :
             copied' = ReplaceAt(spelling, i, c)
       \/ \E i \in 1..(Len(spelling) + 1), c \in -1..(Max({Base58, Base64}) - 1) :
             copied' = InsertAt(spelling, i, c)
    /\ UNCHANGED <<notation, octets, spelling, answer>>

Read ==
    /\ spelling # None /\ answer = None
    /\ answer' = [bytes |-> decode(notation, copied)]
    /\ UNCHANGED <<notation, octets, spelling, copied>>

TextNext == Write \/ Slip \/ Read

\* What was copied as it was written is what was written, leading zero bytes and a last
\* character that is only partly used included (keys.py:223-248, signing.py:42-47).
FaithfulCopiesReadBack == (answer # None /\ copied = spelling) => answer.bytes = octets

\* No other text stands for the same key or signature: a slip is refused or names something
\* else (keys.py:237-248, signing.py:50-58).  In a directory `x` has several spellings.
OneSpelling == (answer # None /\ notation # "x" /\ answer.bytes = octets) => copied = spelling
=============================================================================
