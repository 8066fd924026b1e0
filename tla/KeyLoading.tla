----------------------------- MODULE KeyLoading -----------------------------
(***************************************************************************)
(* Publishing and loading a key directory: read_key_directory and          *)
(* public_keys_from_jwks, which reads entry by entry, KeyDirectory over    *)
(* what they return, and jwks_from_public_keys (keys.py).                  *)
(*                                                                         *)
(* A file is what it holds: a sequence of entries, or one of Unreadable    *)
(* (it cannot be opened, or is not a JSON object with an array of keys)    *)
(* and TooDeep (JSON nested beyond what Python's parser can follow).       *)
(* An entry is NoObject or what is said of a key, each part None when it   *)
(* is absent or unusable; `x` is what KeyText reads in its text.           *)
(***************************************************************************)
EXTENDS Signing, SequencesExt

CONSTANTS Unreadable, TooDeep, NoObject, Files

Jwk == [kid : KeyIds \cup {None}, type : {"OKP Ed25519", None}, x : Keys \cup {None}]

\* A file that can be parsed is a sequence of entries, and the other marks are no such thing.
ASSUME LoadingAssumption ==
    /\ None \notin {Unreadable, TooDeep, NoObject, "OKP Ed25519"}
    /\ NoObject \notin Jwk
    /\ {Unreadable, TooDeep} \cap Seq(Jwk \cup {NoObject}) = {}
    /\ Files \subseteq {Unreadable, TooDeep} \cup Seq(Jwk \cup {NoObject})

VARIABLES file, stage, position, public_keys, published

vars == <<file, stage, position, public_keys, published>>

Init ==
    /\ file \in Files
    /\ stage = "closed"
    /\ position = 0
    /\ public_keys = << >>
    /\ published = None

Open ==
    /\ stage = "closed"
    /\ stage' = CASE file = Unreadable -> "refused" [] file = TooDeep -> "escaped" [] OTHER -> "reading"
    /\ UNCHANGED <<file, position, public_keys, published>>

read_jwk_ok(jwk) == jwk # NoObject /\ None \notin {jwk.kid, jwk.type, jwk.x}

\* Mutant: the last entry of a key id counts.
TakesEntryRepeated(jwk) == read_jwk_ok(jwk)

TakesEntry(jwk) == read_jwk_ok(jwk) /\ jwk.kid \notin DOMAIN public_keys

ReadJwk ==
    /\ stage = "reading" /\ position < Len(file)
    /\ position' = position + 1
    /\ LET jwk == file[position + 1]
       IN  \/ /\ ~ TakesEntry(jwk)
              /\ stage' = "refused"
              /\ UNCHANGED public_keys
           \/ /\ TakesEntry(jwk)
              /\ public_keys' = [key_id \in DOMAIN public_keys \cup {jwk.kid} |->
                                    IF key_id = jwk.kid THEN jwk.x ELSE public_keys[key_id]]
              /\ UNCHANGED stage
    /\ UNCHANGED <<file, published>>

KeyDirectory ==
    /\ stage = "reading" /\ position = Len(file)
    /\ stage' = IF directory_usable(public_keys) THEN "loaded" ELSE "refused"
    /\ UNCHANGED <<file, position, public_keys, published>>

\* Mutant: a directory is written without the keys whose ids carry them.
jwks_of_opaque_ids(directory) ==
    SetToSeq({[kid |-> key_id, type |-> "OKP Ed25519", x |-> directory[key_id]] :
                  key_id \in DOMAIN directory \ DidKeys})

jwks_from_public_keys(directory) ==
    SetToSeq({[kid |-> key_id, type |-> "OKP Ed25519", x |-> directory[key_id]] :
                  key_id \in DOMAIN directory})

\* Whoever loaded a directory publishes it, and it is loaded again.
Publish ==
    /\ stage = "loaded" /\ published = None
    /\ published' = public_keys
    /\ file' = jwks_from_public_keys(public_keys)
    /\ stage' = "closed" /\ position' = 0 /\ public_keys' = << >>

Next == Open \/ ReadJwk \/ KeyDirectory \/ Publish

Spec == Init /\ [][Next]_vars

-----------------------------------------------------------------------------
\* What is right with a file, said of it as a whole.
Loadable(given) ==
    /\ given \notin {Unreadable, TooDeep}
    /\ \A i \in DOMAIN given : given[i] \in Jwk /\ None \notin {given[i].kid, given[i].type, given[i].x}
    /\ \A i, j \in DOMAIN given : given[i].kid = given[j].kid => i = j
    /\ \A i \in DOMAIN given : given[i].kid \in DidKeys => given[i].x = CarriedKey[given[i].kid]

\* A directory is loaded whole or not at all: no entry is skipped, overwritten or reread, and
\* nothing is refused without a defect (keys.py:44-54, FORMAT.md:209-212).
LoadedWhole ==
    /\ stage = "loaded" =>
          /\ Loadable(file)
          /\ DOMAIN public_keys = {file[i].kid : i \in DOMAIN file}
          /\ \A i \in DOMAIN file : public_keys[file[i].kid] = file[i].x
    /\ stage = "refused" => ~ Loadable(file)

\* One id never means two keys: what a loaded directory lists is what verification looks up,
\* although did:key ids are resolved without the listing (keys.py:190-211).
ListedIsResolved ==
    (stage = "loaded") =>
        \A key_id \in DOMAIN public_keys : public_key(public_keys, key_id) = public_keys[key_id]

\* What was loaded and published loads again, as the same keys (keys.py:94-106).
PublishedLoadsAgain ==
    (published # None) => (stage # "refused" /\ (stage = "loaded" => public_keys = published))
=============================================================================
