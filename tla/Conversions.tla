---------------------------- MODULE Conversions ----------------------------
(***************************************************************************)
(* The conversions of the library, each with whoever needs it: a document  *)
(* made, signed and read (Canonical), a JSON value written as bytes        *)
(* (Json), a key or a signature written as text (KeyText).  They share     *)
(* no state, so one is under way at a time.                                *)
(***************************************************************************)
EXTENDS Canonical, Json, KeyText

vars == <<document_vars, json_vars, text_vars>>

Init ==
    \/ DocumentInit /\ NoJson /\ NoText
    \/ NoDocument /\ JsonInit /\ NoText
    \/ NoDocument /\ NoJson /\ TextInit

Next ==
    \/ DocumentNext /\ UNCHANGED <<json_vars, text_vars>>
    \/ Serialize /\ UNCHANGED <<document_vars, text_vars>>
    \/ TextNext /\ UNCHANGED <<document_vars, json_vars>>

Spec == Init /\ [][Next]_vars
=============================================================================
