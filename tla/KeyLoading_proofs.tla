------------------------- MODULE KeyLoading_proofs --------------------------
(***************************************************************************)
(* Proofs about publishing and loading a key directory, for files of any   *)
(* length over any keys and key ids.                                       *)
(***************************************************************************)
EXTENDS KeyLoading, FiniteSetTheorems, TLAPS

Parsed == Seq(Jwk \cup {NoObject})

\* The file's entries under their ids, and nothing else: what its first n entries come to.
Lists(directory, n) ==
    /\ DOMAIN directory = {file[i].kid : i \in 1..n}
    /\ \A i \in 1..n : directory[file[i].kid] = file[i].x

ReadUpTo(n) ==
    /\ \A i \in 1..n : read_jwk_ok(file[i])
    /\ \A i, j \in 1..n : file[i].kid = file[j].kid => i = j
    /\ Lists(public_keys, n)

\* A table of keys under key ids, finitely many.
IsTable(directory) ==
    /\ directory = [key_id \in DOMAIN directory |-> directory[key_id]]
    /\ IsFiniteSet(DOMAIN directory)
    /\ \A key_id \in DOMAIN directory : key_id \in KeyIds /\ directory[key_id] \in Keys

\* What was published here has no defect, and says what was loaded.
PublishedOK ==
    published # None =>
        /\ file \in Parsed /\ Loadable(file)
        /\ IsTable(published) /\ Lists(published, Len(file))

\* The inductive invariant.  While a file is read the table is what its entries so far come
\* to, a refusal has its reason in the file, and a file that was published here has none.
IInv ==
    /\ stage \in {"closed", "reading", "loaded", "refused", "escaped"}
    /\ file \in {Unreadable, TooDeep} \cup Parsed
    /\ position \in Nat
    /\ IsTable(public_keys)
    /\ stage = "closed" => position = 0 /\ public_keys = << >>
    /\ stage \in {"reading", "loaded"} =>
          file \in Parsed /\ position =< Len(file) /\ ReadUpTo(position)
    /\ stage = "loaded" => position = Len(file) /\ directory_usable(public_keys)
    /\ stage = "refused" => ~ Loadable(file)
    /\ PublishedOK

-----------------------------------------------------------------------------
\* An entry of a parsed file that read_jwk takes is one of the entries a file should have.
LEMMA EntryTaken ==
    ASSUME NEW jwk \in Jwk \cup {NoObject}
    PROVE  /\ read_jwk_ok(jwk) <=> jwk \in Jwk /\ None \notin {jwk.kid, jwk.type, jwk.x}
           /\ read_jwk_ok(jwk) => jwk.kid \in KeyIds /\ jwk.x \in Keys
BY LoadingAssumption DEF read_jwk_ok, Jwk

LEMMA EmptyTable == IsTable(<< >>)
<1>1. DOMAIN << >> = {} /\ << >> = [key_id \in {} |-> << >>[key_id]]
  OBVIOUS
<1> QED
  BY <1>1, FS_EmptySet DEF IsTable

LEMMA FileUnchanged ==
    ASSUME UNCHANGED <<file, published>>
    PROVE  /\ Loadable(file)' <=> Loadable(file)
           /\ PublishedOK' <=> PublishedOK
           /\ (file \in Parsed)' <=> file \in Parsed
BY DEF Loadable, PublishedOK, Parsed, Lists, IsTable

LEMMA InitOK == Init => IInv
<1> SUFFICES ASSUME Init PROVE IInv
  OBVIOUS
<1>1. file \in {Unreadable, TooDeep} \cup Parsed
  BY LoadingAssumption DEF Init, Parsed
<1> QED
  BY <1>1, EmptyTable DEF Init, IInv, PublishedOK

LEMMA OpenStep ==
    ASSUME IInv, Open
    PROVE  IInv'
<1>1. /\ stage = "closed" /\ position = 0 /\ public_keys = << >>
      /\ UNCHANGED <<file, position, public_keys, published>>
  BY DEF IInv, Open
<1>2. CASE file \in Parsed
  <2>1. file # Unreadable /\ file # TooDeep
    BY <1>2, LoadingAssumption DEF Parsed
  <2>2. stage' = "reading"
    BY <2>1 DEF Open
  <2>3. ReadUpTo(0)'
    <3>1. DOMAIN << >> = {} /\ \A i \in 1..0 : FALSE
      OBVIOUS
    <3> QED
      BY <1>1, <3>1 DEF ReadUpTo, Lists
  <2>4. position' = 0 /\ Len(file') \in Nat
    BY <1>1, <1>2 DEF Parsed
  <2>5. ReadUpTo(position)'
    BY <2>3, <2>4
  <2> QED
    BY <1>1, <1>2, <2>2, <2>4, <2>5, EmptyTable, FileUnchanged DEF IInv
<1>3. CASE file \in {Unreadable, TooDeep}
  <2>1. stage' \in {"refused", "escaped"}
    BY <1>3 DEF Open
  <2>2. ~ Loadable(file)
    BY <1>3 DEF Loadable
  <2> QED
    BY <1>1, <1>3, <2>1, <2>2, EmptyTable, FileUnchanged DEF IInv
<1> QED
  BY <1>2, <1>3 DEF IInv

\* One entry more is in the table, under an id that was not there.
LEMMA TableGrows ==
    ASSUME NEW directory, IsTable(directory), NEW k \in KeyIds, NEW x \in Keys
    PROVE  IsTable([key_id \in DOMAIN directory \cup {k} |->
                      IF key_id = k THEN x ELSE directory[key_id]])
<1> DEFINE new == [key_id \in DOMAIN directory \cup {k} |->
                      IF key_id = k THEN x ELSE directory[key_id]]
<1>1. DOMAIN new = DOMAIN directory \cup {k}
  OBVIOUS
<1>2. IsFiniteSet(DOMAIN new)
  BY <1>1, FS_AddElement DEF IsTable
<1> QED
  BY <1>2 DEF IsTable

LEMMA ReadJwkStep ==
    ASSUME IInv, ReadJwk
    PROVE  IInv'
<1> DEFINE n == position
           jwk == file[n + 1]
<1>1. /\ stage = "reading" /\ n \in Nat /\ Len(file) \in Nat /\ n < Len(file) /\ n' = n + 1
      /\ file \in Parsed /\ DOMAIN file = 1..Len(file) /\ ReadUpTo(n) /\ IsTable(public_keys)
      /\ UNCHANGED <<file, published>>
  BY DEF IInv, ReadJwk, Parsed
<1>2. n + 1 \in DOMAIN file /\ jwk \in Jwk \cup {NoObject} /\ \A i \in 1..n : i \in DOMAIN file
  BY <1>1 DEF Parsed
<1>3. CASE ~ TakesEntry(jwk)
  <2>1. stage' = "refused" /\ public_keys' = public_keys
    BY <1>3 DEF ReadJwk
  <2>2. ~ Loadable(file)
    <3>1. CASE ~ read_jwk_ok(jwk)
      BY <1>2, <3>1, EntryTaken DEF Loadable
    <3>2. CASE jwk.kid \in DOMAIN public_keys
      <4>1. PICK i \in 1..n : file[i].kid = jwk.kid
        BY <1>1, <3>2 DEF ReadUpTo, Lists
      <4>2. i \in DOMAIN file /\ i # n + 1
        BY <1>1, <1>2
      <4> QED
        BY <1>2, <4>1, <4>2 DEF Loadable
    <3> QED
      BY <1>3, <3>1, <3>2 DEF TakesEntry
  <2> QED
    BY <1>1, <2>1, <2>2, FileUnchanged DEF IInv
<1>4. CASE TakesEntry(jwk)
  <2>1. /\ public_keys' = [key_id \in DOMAIN public_keys \cup {jwk.kid} |->
                              IF key_id = jwk.kid THEN jwk.x ELSE public_keys[key_id]]
        /\ stage' = "reading"
    BY <1>1, <1>4 DEF ReadJwk
  <2>2. /\ read_jwk_ok(jwk) /\ jwk.kid \in KeyIds /\ jwk.x \in Keys
        /\ jwk.kid \notin DOMAIN public_keys
    BY <1>2, <1>4, EntryTaken DEF TakesEntry
  <2>3. IsTable(public_keys')
    <3>1. IsTable([key_id \in DOMAIN public_keys \cup {jwk.kid} |->
                      IF key_id = jwk.kid THEN jwk.x ELSE public_keys[key_id]])
      BY <1>1, <2>2, TableGrows
    <3> QED
      BY <2>1, <3>1
  <2>4. \A i \in 1..(n + 1) : i \in 1..n \/ i = n + 1
    BY <1>1
  <2>5. n + 1 \in 1..(n + 1) /\ \A i \in 1..n : i \in 1..(n + 1)
    BY <1>1
  <2>6. \A i \in 1..n : file[i].kid # jwk.kid
    BY <1>1, <2>2 DEF ReadUpTo, Lists
  <2>7. \A i, j \in 1..(n + 1) : file[i].kid = file[j].kid => i = j
    BY <1>1, <2>4, <2>6 DEF ReadUpTo
  <2>8. \A i \in 1..(n + 1) : read_jwk_ok(file[i])
    BY <1>1, <2>2, <2>4 DEF ReadUpTo
  <2>9. DOMAIN public_keys' = {file[i].kid : i \in 1..(n + 1)}
    <3>1. DOMAIN public_keys = {file[i].kid : i \in 1..n}
      BY <1>1 DEF ReadUpTo, Lists
    <3>2. DOMAIN public_keys' = DOMAIN public_keys \cup {jwk.kid}
      BY <2>1
    <3> QED
      BY <2>4, <2>5, <3>1, <3>2
  <2>10. \A i \in 1..(n + 1) : public_keys'[file[i].kid] = file[i].x
    <3>1. \A i \in 1..n : file[i].kid \in DOMAIN public_keys /\ public_keys[file[i].kid] = file[i].x
      BY <1>1 DEF ReadUpTo, Lists
    <3> QED
      BY <2>1, <2>4, <2>6, <3>1
  <2>11. ReadUpTo(position)'
    BY <1>1, <2>7, <2>8, <2>9, <2>10 DEF ReadUpTo, Lists, read_jwk_ok
  <2>12. position' \in Nat /\ position' =< Len(file)
    BY <1>1
  <2> QED
    BY <1>1, <2>1, <2>3, <2>11, <2>12, FileUnchanged DEF IInv
<1> QED
  BY <1>3, <1>4

\* What the file comes to when everything in it was taken.
LEMMA WholeFile ==
    ASSUME IInv, stage \in {"reading", "loaded"}, position = Len(file)
    PROVE  /\ DOMAIN file = 1..Len(file)
           /\ \A i \in DOMAIN file : /\ file[i] \in Jwk
                                     /\ None \notin {file[i].kid, file[i].type, file[i].x}
                                     /\ public_keys[file[i].kid] = file[i].x
           /\ \A i, j \in DOMAIN file : file[i].kid = file[j].kid => i = j
           /\ DOMAIN public_keys = {file[i].kid : i \in DOMAIN file}
<1>1. file \in Parsed /\ ReadUpTo(Len(file)) /\ DOMAIN file = 1..Len(file)
  BY DEF IInv, Parsed
<1>2. \A i \in DOMAIN file : file[i] \in Jwk \cup {NoObject}
  BY <1>1 DEF Parsed
<1> QED
  BY <1>1, <1>2, EntryTaken DEF ReadUpTo, Lists

LEMMA KeyDirectoryStep ==
    ASSUME IInv, KeyDirectory
    PROVE  IInv'
<1>1. /\ stage = "reading" /\ position = Len(file)
      /\ stage' = IF directory_usable(public_keys) THEN "loaded" ELSE "refused"
      /\ UNCHANGED <<file, position, public_keys, published>>
  BY DEF KeyDirectory
<1>2. file \in Parsed /\ position =< Len(file) /\ ReadUpTo(position)
  BY <1>1 DEF IInv
<1>3. ReadUpTo(position)' /\ IsTable(public_keys')
  BY <1>1, <1>2 DEF ReadUpTo, Lists, read_jwk_ok, IInv
<1>4. ASSUME ~ directory_usable(public_keys)
      PROVE  ~ Loadable(file)
  <2>1. PICK k \in DOMAIN public_keys \cap DidKeys :
           CarriedKey[k] = None \/ public_keys[k] # CarriedKey[k]
    BY <1>4 DEF directory_usable
  <2>2. PICK i \in DOMAIN file : file[i].kid = k
    BY <1>1, <2>1, WholeFile
  <2>3. file[i].x # None /\ public_keys[k] = file[i].x
    BY <1>1, <2>2, WholeFile
  <2> QED
    BY <2>1, <2>2, <2>3 DEF Loadable
<1> QED
  BY <1>1, <1>2, <1>3, <1>4, FileUnchanged DEF IInv

\* SetToSeq lists every element of a finite set once.
LEMMA SetToSeqLists ==
    ASSUME NEW S, IsFiniteSet(S)
    PROVE  /\ SetToSeq(S) \in Seq(S) /\ IsInjective(SetToSeq(S))
           /\ S = {SetToSeq(S)[i] : i \in DOMAIN SetToSeq(S)}
<1> DEFINE n == Cardinality(S)
           f == SetToSeq(S)
<1>1. n \in Nat /\ ExistsBijection(1..n, S)
  BY FS_CardinalityType
<1>2. \E g \in [1..n -> S] : IsInjective(g)
  BY <1>1 DEF ExistsBijection, Bijection, Injection
<1>3. f \in [1..n -> S] /\ IsInjective(f)
  BY <1>2 DEF SetToSeq
<1> HIDE DEF f
<1>4. f \in Seq(S) /\ DOMAIN f = 1..n
  BY <1>1, <1>3
<1>5. Cardinality(1..n) = n
  BY <1>1, FS_Interval
<1>6. f \in Surjection(1..n, S)
  BY <1>3, <1>5, FS_Injection DEF Injection
<1>7. S = {f[i] : i \in DOMAIN f}
  BY <1>3, <1>4, <1>6 DEF Surjection
<1> QED
  BY <1>3, <1>4, <1>7 DEF f

\* What is published of a usable table is a file without a defect that comes to that table.
LEMMA PublishedIsLoadable ==
    ASSUME NEW directory, IsTable(directory), directory_usable(directory),
           NEW given, given = jwks_from_public_keys(directory)
    PROVE  /\ given \in Parsed /\ Loadable(given)
           /\ \A k \in DOMAIN directory : \E i \in 1..Len(given) : given[i].kid = k
           /\ \A i \in 1..Len(given) : /\ given[i].kid \in DOMAIN directory
                                      /\ directory[given[i].kid] = given[i].x
<1> DEFINE D == DOMAIN directory
           S == {[kid |-> k, type |-> "OKP Ed25519", x |-> directory[k]] : k \in D}
           entries == [k \in D |-> [kid |-> k, type |-> "OKP Ed25519", x |-> directory[k]]]
<1>1. IsFiniteSet(S)
  <2>1. entries \in Surjection(D, S)
    BY DEF Surjection
  <2> QED
    BY <2>1, FS_Surjection DEF IsTable
<1>2. given = SetToSeq(S)
  BY DEF jwks_from_public_keys
<1>3. \A k \in D : k \in KeyIds /\ directory[k] \in Keys
  BY DEF IsTable
<1>4. \A e \in S : /\ e \in Jwk /\ e.type = "OKP Ed25519"
                   /\ e.kid \in D /\ e.x = directory[e.kid] /\ e = entries[e.kid]
  <2> TAKE e \in S
  <2>1. PICK k \in D : e = [kid |-> k, type |-> "OKP Ed25519", x |-> directory[k]]
    OBVIOUS
  <2>2. e.kid = k /\ e.type = "OKP Ed25519" /\ e.x = directory[k] /\ e = entries[k]
    BY <2>1
  <2>3. e \in Jwk
    BY <1>3, <2>1 DEF Jwk
  <2> QED
    BY <2>2, <2>3
<1>5. \A k \in D : \E e \in S : e.kid = k
  <2> TAKE k \in D
  <2>1. entries[k] \in S /\ entries[k].kid = k
    OBVIOUS
  <2> QED
    BY <2>1
<1>6. \A e, f \in S : e.kid = f.kid => e = f
  BY <1>4
<1> HIDE DEF S
<1>7. /\ given \in Seq(S) /\ DOMAIN given = 1..Len(given) /\ IsInjective(given)
      /\ S = {given[i] : i \in DOMAIN given}
  BY <1>1, <1>2, SetToSeqLists
<1> HIDE DEF entries
<1>8. given \in Parsed
  <2>1. S \subseteq Jwk \cup {NoObject}
    BY <1>4
  <2> QED
    BY <1>7, <2>1 DEF Parsed
<1>9. \A i \in DOMAIN given : /\ given[i] \in S /\ given[i] \in Jwk
                             /\ given[i].type = "OKP Ed25519"
                             /\ given[i].kid \in D
                             /\ given[i].x = directory[given[i].kid]
  BY <1>4, <1>7
<1>10. \A k \in D : \E i \in DOMAIN given : given[i].kid = k
  BY <1>5, <1>7
<1>11. Loadable(given)
  <2>1. given \notin {Unreadable, TooDeep}
    BY <1>8, LoadingAssumption DEF Parsed
  <2>2. ASSUME NEW i \in DOMAIN given
        PROVE  /\ given[i] \in Jwk /\ None \notin {given[i].kid, given[i].type, given[i].x}
               /\ given[i].kid \in DidKeys => given[i].x = CarriedKey[given[i].kid]
    <3>1. given[i].type = "OKP Ed25519" /\ given[i].kid \in KeyIds /\ given[i].x \in Keys
      BY <1>3, <1>9
    <3>2. given[i].kid \in DidKeys => given[i].x = CarriedKey[given[i].kid]
      BY <1>9 DEF directory_usable
    <3> QED
      BY <1>9, <3>1, <3>2, LoadingAssumption, DidAssumption
  <2>3. ASSUME NEW i \in DOMAIN given, NEW j \in DOMAIN given, given[i].kid = given[j].kid
        PROVE  i = j
    <3>1. given[i] \in S /\ given[j] \in S
      BY <1>9
    <3>2. given[i] = given[j]
      BY <1>6, <2>3, <3>1
    <3> QED
      BY <1>7, <3>2 DEF IsInjective
  <2> QED
    BY <2>1, <2>2, <2>3 DEF Loadable
<1> QED
  BY <1>7, <1>8, <1>9, <1>10, <1>11

LEMMA PublishStep ==
    ASSUME IInv, Publish
    PROVE  IInv'
<1>1. /\ stage' = "closed" /\ position' = 0 /\ public_keys' = << >>
      /\ published' = public_keys /\ file' = jwks_from_public_keys(public_keys)
      /\ IsTable(public_keys) /\ directory_usable(public_keys)
  BY DEF IInv, Publish
<1> DEFINE given == jwks_from_public_keys(public_keys)
<1> HIDE DEF given
<1>2. /\ given \in Parsed /\ Loadable(given)
      /\ \A k \in DOMAIN public_keys : \E i \in 1..Len(given) : given[i].kid = k
      /\ \A i \in 1..Len(given) : /\ given[i].kid \in DOMAIN public_keys
                                 /\ public_keys[given[i].kid] = given[i].x
  BY <1>1, PublishedIsLoadable DEF given
<1>3. file' = given
  BY <1>1 DEF given
<1>4. PublishedOK'
  <2>1. DOMAIN public_keys = {given[i].kid : i \in 1..Len(given)}
    BY <1>2
  <2>2. Lists(published, Len(file))'
    BY <1>1, <1>2, <1>3, <2>1 DEF Lists
  <2>3. (file \in Parsed)' /\ Loadable(file)' /\ IsTable(published)'
    <3>1. Parsed' = Parsed
      BY DEF Parsed
    <3>2. Loadable(file)'
      BY <1>2, <1>3 DEF Loadable
    <3>3. IsTable(published)'
      BY <1>1 DEF IsTable
    <3> QED
      BY <1>2, <1>3, <3>1, <3>2, <3>3
  <2> QED
    BY <2>2, <2>3 DEF PublishedOK
<1> QED
  BY <1>1, <1>2, <1>3, <1>4, EmptyTable DEF IInv

LEMMA Inductive == Spec => []IInv
<1>1. IInv /\ [Next]_vars => IInv'
  <2> SUFFICES ASSUME IInv, [Next]_vars PROVE IInv'
    OBVIOUS
  <2>1. CASE UNCHANGED vars
    <3>1. UNCHANGED <<file, stage, position, public_keys, published>>
      BY <2>1 DEF vars
    <3>2. ReadUpTo(position)' <=> ReadUpTo(position)
      BY <3>1 DEF ReadUpTo, Lists, read_jwk_ok
    <3> QED
      BY <3>1, <3>2, FileUnchanged DEF IInv
  <2> QED
    BY <2>1, OpenStep, ReadJwkStep, KeyDirectoryStep, PublishStep DEF Next
<1> QED
  BY <1>1, InitOK, PTL DEF Spec

-----------------------------------------------------------------------------
(***************************************************************************)
(* The results.                                                            *)
(***************************************************************************)

\* A directory file is loaded whole, every entry under its id, or refused for a defect it has,
\* however many entries it lists and in whatever order.
THEOREM LoadsWhole == Spec => []LoadedWhole
<1>1. IInv => LoadedWhole
  <2>1. ASSUME IInv, stage = "loaded"
        PROVE  /\ Loadable(file)
               /\ DOMAIN public_keys = {file[i].kid : i \in DOMAIN file}
               /\ \A i \in DOMAIN file : public_keys[file[i].kid] = file[i].x
    <3>1. position = Len(file) /\ file \in Parsed /\ directory_usable(public_keys)
      BY <2>1 DEF IInv
    <3>2. file \notin {Unreadable, TooDeep}
      BY <3>1, LoadingAssumption DEF Parsed
    <3>3. \A i \in DOMAIN file : file[i].kid \in DidKeys => file[i].x = CarriedKey[file[i].kid]
      BY <2>1, <3>1, WholeFile DEF directory_usable
    <3> QED
      BY <2>1, <3>1, <3>2, <3>3, WholeFile DEF Loadable
  <2>2. ASSUME IInv, stage = "refused"
        PROVE  ~ Loadable(file)
    BY <2>2 DEF IInv
  <2> QED
    BY <2>1, <2>2 DEF LoadedWhole
<1> QED
  BY <1>1, Inductive, PTL

\* In a directory that was loaded, the key an id is listed with is the key it resolves to.
THEOREM NoIdMeansTwoKeys == Spec => []ListedIsResolved
<1>1. IInv => ListedIsResolved
  BY DEF IInv, ListedIsResolved, directory_usable, public_key
<1> QED
  BY <1>1, Inductive, PTL

\* Publishing a loaded directory and loading it again is the identity on its keys.
THEOREM RoundTrip == Spec => []PublishedLoadsAgain
<1>1. IInv => PublishedLoadsAgain
  <2> SUFFICES ASSUME IInv, published # None
               PROVE  stage # "refused" /\ (stage = "loaded" => public_keys = published)
    BY DEF PublishedLoadsAgain
  <2>1. stage # "refused"
    BY DEF IInv, PublishedOK
  <2>2. ASSUME stage = "loaded"
        PROVE  public_keys = published
    <3>1. IsTable(public_keys) /\ IsTable(published) /\ Lists(published, Len(file))
          /\ Lists(public_keys, Len(file))
      BY <2>2 DEF IInv, PublishedOK, ReadUpTo
    <3>2. DOMAIN public_keys = DOMAIN published
      BY <3>1 DEF Lists
    <3>3. \A k \in DOMAIN published : public_keys[k] = published[k]
      BY <3>1 DEF Lists
    <3> QED
      BY <3>1, <3>2, <3>3 DEF IsTable
  <2> QED
    BY <2>1, <2>2
<1> QED
  BY <1>1, Inductive, PTL
=============================================================================
