-------------------------------- MODULE Json --------------------------------
(***************************************************************************)
(* Writing a JSON value as its canonical bytes (canonical.py): object keys *)
(* in UTF-16 order, lists as they are, a limit on nesting, and nothing but *)
(* objects, lists and strings.                                             *)
(*                                                                         *)
(* A value is <<"str", text>>, <<"list", values>>, <<"dict", entries>>     *)
(* with entries <<name, value>> in the order the dict holds them, or       *)
(* <<"number", n>>.  The bytes are a sequence of tokens, marks and quoted  *)
(* texts; how a text is escaped is the JSON library's.  What recurses into *)
(* a value in the code is a function of the depth that is left here.       *)
(***************************************************************************)
EXTENDS CodeUnits

CONSTANTS
    MAX_DEPTH,      \* 64 in the code
    JsonValues,     \* the values there are, and everything in them
    Deepest         \* how deep RefusedExactlyWhenTooDeep looks into them

named(entries) == {entries[i][1] : i \in DOMAIN entries}

ASSUME JsonAssumption ==
    /\ MAX_DEPTH \in Nat /\ Deepest \in Nat /\ MAX_DEPTH =< Deepest
    /\ \A json \in JsonValues :
          CASE json[1] = "str" -> json[2] \in Seq(CodePoint)
            [] json[1] = "list" -> json[2] \in Seq(JsonValues)
            [] json[1] = "dict" ->
                  /\ json[2] \in Seq(Seq(CodePoint) \X JsonValues)
                  /\ \A i, j \in DOMAIN json[2] : json[2][i][1] = json[2][j][1] => i = j
            [] OTHER -> json[1] = "number"

VARIABLES value, bytes

json_vars == <<value, bytes>>

\* What is nested in a value: the items of a list, the values of an object.
nested(json) ==
    CASE json[1] = "list" -> json[2]
      [] json[1] = "dict" -> [i \in DOMAIN json[2] |-> json[2][i][2]]
      [] OTHER -> << >>

\* Mutant: a list at the limit is let through.
refuses_below(json, depth) == json[1] # "str" /\ depth < 0

\* Only a text may be at the limit.
refuses_at(json, depth) == json[1] # "str" /\ depth = 0

\* Whether a value is refused so many levels above the limit.
refusing[depth \in Nat] ==
    [json \in JsonValues |->
        \/ refuses_at(json, depth)
        \/ json[1] = "number"
        \/ depth > 0 /\ \E i \in DOMAIN nested(json) : refusing[depth - 1][nested(json)[i]]]

refuses(json) == refusing[MAX_DEPTH][json]

\* Mutant: the keys in code point order, as sort_keys=True has them.
in_key_order_by_code_point(entries) == in_code_point_order(named(entries))

\* Mutant: the keys as the dict holds them.
in_key_order_as_held(entries) == [i \in DOMAIN entries |-> entries[i][1]]

in_key_order(entries) == in_utf16_order(named(entries))

value_of(entries, name) == entries[CHOOSE i \in DOMAIN entries : entries[i][1] = name][2]

mark(character) == <<"mark", character>>
quoted(text) == <<"text", text>>
comma == mark(",")
colon == mark(":")
begin_array == mark("[")
end_array == mark("]")
begin_object == mark("{")
end_object == mark("}")
brackets == {begin_array, end_array, begin_object, end_object}
refused == << >>

separated(parts) ==
    FlattenSeq([i \in DOMAIN parts |-> IF i = 1 THEN parts[i] ELSE <<comma>> \o parts[i]])

\* json.dumps without padding, of the value with its keys in order.  At the limit there are
\* only texts.
written[depth \in Nat] ==
    [json \in JsonValues |->
        CASE depth > 0 /\ json[1] = "list" ->
                <<begin_array>>
                \o separated([i \in DOMAIN json[2] |-> written[depth - 1][json[2][i]]])
                \o <<end_array>>
          [] depth > 0 /\ json[1] = "dict" ->
                LET names == in_key_order(json[2])
                IN  <<begin_object>>
                    \o separated([i \in DOMAIN names |->
                           <<quoted(names[i]), colon>>
                           \o written[depth - 1][value_of(json[2], names[i])]])
                    \o <<end_object>>
          [] OTHER -> <<quoted(json[2])>>]

dumps(json) == written[MAX_DEPTH][json]

canonical_json_bytes(json) == IF refuses(json) THEN refused ELSE dumps(json)

\* Nothing is written.
NoJson == value = None /\ bytes = None

JsonInit == value \in JsonValues /\ bytes = None

Serialize ==
    /\ value # None /\ bytes = None
    /\ bytes' = canonical_json_bytes(value)
    /\ UNCHANGED value

-----------------------------------------------------------------------------
\* What is in a value so many levels down.
level[depth \in Nat] ==
    [json \in JsonValues |->
        IF depth = 0 THEN {json}
        ELSE UNION {level[depth - 1][nested(json)[i]] : i \in DOMAIN nested(json)}]

\* Equal up to the order of keys, never of items.
alike[depth \in Nat] ==
    [pair \in JsonValues \X JsonValues |->
        LET one == pair[1][2]
            two == pair[2][2]
        IN  /\ pair[1][1] = pair[2][1]
            /\ CASE depth > 0 /\ pair[1][1] = "list" ->
                      /\ Len(one) = Len(two)
                      /\ \A i \in DOMAIN one : alike[depth - 1][<<one[i], two[i]>>]
                 [] depth > 0 /\ pair[1][1] = "dict" ->
                      /\ named(one) = named(two)
                      /\ \A name \in named(one) :
                            alike[depth - 1][<<value_of(one, name), value_of(two, name)>>]
                 [] OTHER -> one = two]

same(json, other) == alike[MAX_DEPTH][<<json, other>>]

\* A value is refused when something in it is no text, list or object, or when it is nested
\* deeper than the limit, and only then (canonical.py:85-104): strings may be one deeper.  The
\* strings are texts; half of a surrogate pair alone, which is none, has no UTF-16 or UTF-8 form
\* and raises UnicodeEncodeError (canonical.py:82, canonical.py:99).
RefusedExactlyWhenTooDeep ==
    (bytes # None) =>
        ((bytes = refused) <=>
            \E depth \in 0..Deepest : \E inner \in level[depth][value] :
                inner[1] = "number" \/ (inner[1] # "str" /\ depth >= MAX_DEPTH))

Written == {<<json, canonical_json_bytes(json)>> : json \in JsonValues}

\* The bytes say what the value is: two values share them only when they are the same up to
\* the order of keys, and then always (canonical.py:51-82).
BytesMeanTheValue ==
    (bytes \notin {None, refused}) =>
        \A other \in Written : (other[2] = bytes) <=> (other[2] # refused /\ same(value, other[1]))

\* Keys come in the order of rank, which does not go by code units (canonical.py:96-98).
KeysInUtf16Order ==
    (bytes \notin {None, refused}) =>
        \A i, j \in DOMAIN bytes :
            (/\ i < j /\ bytes[i] = colon /\ bytes[j] = colon
             /\ \A n \in (i + 1)..(j - 1) : bytes[n] \notin brackets)
            => Before(ranks(bytes[i - 1][2]), ranks(bytes[j - 1][2]))
=============================================================================
