--------------------------- MODULE MCConversions ---------------------------
(***************************************************************************)
(* A document to vary in one field at a time, and a small part of Unicode: *)
(* a letter and a mark with a single spelling, a letter that only          *)
(* decomposes (U+0958), one that is composed in two steps (U+1E69), marks  *)
(* that change places, and a letter that is composed across a mark         *)
(* (U+1E9B U+0323, of tests/strategies.py:36), a space that becomes        *)
(* another (U+2000), a letter below the surrogates in UTF-16 and above     *)
(* them in code points.  Two milliseconds make a second; a scheme with its *)
(* "://" is one code point.                                                *)
(***************************************************************************)
EXTENDS Conversions

acute == 769
e_acute == 233
ka == 2325
nukta == 2364
qa == 2392
en_quad == 8192
en_space == 8194
dot_below == 803
dot_above == 775
s_dot_below == 7779
s_dot_above == 7777
long_s == 383
long_s_dot_above == 7835
s_both_dots == 7785
fullwidth_a == 65345
deseret == 66560
https == -1

MCDecomposes ==
    [c \in {e_acute, qa, en_quad, s_dot_below, s_dot_above, s_both_dots, long_s_dot_above} |->
        CASE c = e_acute -> <<101, acute>> [] c = qa -> <<ka, nukta>> [] c = en_quad -> <<en_space>>
          [] c = s_dot_below -> <<115, dot_below>> [] c = s_dot_above -> <<115, dot_above>>
          [] c = s_both_dots -> <<115, dot_below, dot_above>>
          [] c = long_s_dot_above -> <<long_s, dot_above>>]
MCComposes ==
    <<101, acute>> :> e_acute @@ <<115, dot_below>> :> s_dot_below @@ <<115, dot_above>> :> s_dot_above
        @@ <<s_dot_below, dot_above>> :> s_both_dots @@ <<long_s, dot_above>> :> long_s_dot_above
MCCombining == nukta :> 7 @@ dot_below :> 220 @@ dot_above :> 230 @@ acute :> 230
MCSpaces == {32, en_quad, en_space}

MCSchemes == {https}

At(offset, local) == [offset |-> offset, local |-> local]
Exactly(sign, digits, exponent) ==
    [kind |-> "decimal", sign |-> sign, digits |-> digits, exponent |-> exponent]
Float(digits, exponent) == [kind |-> "float", sign |-> 0, digits |-> digits, exponent |-> exponent]

Base == [issued_at |-> At(0, 5), amount |-> Exactly(0, <<1, 5>>, -1), scope |-> <<<<97>>>>,
         reason |-> <<101, acute>>, target |-> <<https, 101, acute>>]

Moments == {At(0, 4), At(0, 7), At(0, 8), At(0, 11), At(4, 9), At(4, 1), At(-4, 1), At(-4, 10),
            At(None, 5)}

Amounts == {Exactly(0, <<1, 5, 0>>, -2), Exactly(0, <<1, 5, 0, 0>>, -2), Exactly(0, <<1, 5, 1>>, -2),
            Exactly(0, <<5, 0>>, 0), Exactly(0, <<5>>, 1), Exactly(0, <<1>>, -3), Exactly(0, <<0>>, 2),
            Exactly(1, <<0, 0>>, -2), Exactly(1, <<1>>, 0),
            Float(<<1, 5>>, -1), Float(<<1, 5, 0, 1>>, -3)}

Identifiers == {<<97>>, <<e_acute>>, <<101, acute>>, <<fullwidth_a>>, <<deseret>>, <<qa, 97>>,
                <<ka, nukta>>, <<97, en_quad>>}

ScopesGiven == {<< >>} \cup {<<s>> : s \in Identifiers} \cup {<<s, t>> : s, t \in Identifiers}

Reasons == {<< >>, <<e_acute>>, <<s_both_dots>>, <<s_dot_below, dot_above>>, <<qa, 97>>,
            <<s_dot_above, dot_below>>, <<long_s_dot_above, dot_below>>, <<long_s, dot_below>>,
            <<dot_above, dot_below>>, <<dot_below, dot_above>>,
            <<qa>>, <<ka, nukta>>, <<97, 97, 97>>}

Targets == {<<https, e_acute>>, <<https, 97, 98>>, <<https, qa, 97>>, <<https>>, <<97, 98>>,
            <<https, 9>>, << >>}

MCInputs ==
    {Base} \cup {[Base EXCEPT !.issued_at = t] : t \in Moments}
           \cup {[Base EXCEPT !.amount = a] : a \in Amounts}
           \cup {[Base EXCEPT !.scope = s] : s \in ScopesGiven}
           \cup {[Base EXCEPT !.reason = r] : r \in Reasons}
           \cup {[Base EXCEPT !.target = u] : u \in Targets}

-----------------------------------------------------------------------------
(***************************************************************************)
(* JSON values of every shape, up to one level more than the limit, with   *)
(* keys that two orders disagree about.                                    *)
(***************************************************************************)
Texts == {<<"str", << >>>>, <<"str", <<97>>>>}
Leaves == Texts \cup {<<"number", 1>>}
ObjectKeys == {<<65345>>, <<66560>>, <<66560, 97>>}

Lists(values) == {<<"list", << >>>>} \cup {<<"list", <<v>>>> : v \in values}
Pairs(values, others) == {<<"list", <<v, w>>>> : v \in values, w \in others}
Dicts(values) == {<<"dict", << >>>>} \cup {<<"dict", <<<<k, v>>>>>> : k \in ObjectKeys, v \in values}
Both(values, others) ==
    {<<"dict", <<<<p[1], v>>, <<p[2], w>>>>>> :
        p \in {q \in ObjectKeys \X ObjectKeys : q[1] # q[2]}, v \in values, w \in others}

Flat == Leaves \cup Lists(Leaves) \cup Pairs(Texts, Texts) \cup Dicts(Leaves) \cup Both({<<"str", <<97>>>>}, Texts)
Deeper == Flat \cup Lists(Flat) \cup Dicts(Flat) \cup Pairs(Flat, Texts)
MCJsonValues == Deeper \cup Lists(Lists(Flat)) \cup Lists(Dicts(Leaves)) \cup Both({<<"list", <<v>>>> : v \in Texts}, Dicts(Texts))

-----------------------------------------------------------------------------
\* Every key is two half-size bytes, and a did:key five characters.
OneByteTag == <<2>>
=============================================================================
