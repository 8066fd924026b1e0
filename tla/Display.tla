------------------------------ MODULE Display ------------------------------
(***************************************************************************)
(* How cli.py puts a report on the terminal: _printable, _line, _signers   *)
(* and _describe.                                                          *)
(*                                                                         *)
(* A screen is a sequence of characters.  Wording is one character here    *)
(* (a label, "VERIFIED", "granted by"), and so is every word of a field    *)
(* except for what _printable tells apart: control and format characters   *)
(* and the two separators a terminal may break a line at.  Spelling gives  *)
(* the text of the fields whose issuer chooses it; ids, currencies and     *)
(* enumerations have patterns and are shown as themselves.                 *)
(***************************************************************************)
EXTENDS CommandLine, SequencesExt

CONSTANT Spelling   \* the characters of a name, a key id, an action type, a detail

ASSUME SpellingAssumption ==
    \A name \in Names \cup KeyIds \cup ActionTypes \cup Details : IsSequence(Spelling[name])

\* unicodedata.category of the characters that are not printed as they are, and their code.
categories == [LF |-> "Cc", ESC |-> "Cc", LRM |-> "Cf", LS |-> "Zl", PS |-> "Zp"]

code == [LF |-> "\\u000a", ESC |-> "\\u001b", LRM |-> "\\u200e", LS |-> "\\u2028",
         PS |-> "\\u2029"]

\* Mutant: control and format characters only, as the documents' urls refuse them.
printable_but_separators(value) ==
    [i \in DOMAIN value |->
        IF value[i] \in DOMAIN categories /\ categories[value[i]] \in {"Cc", "Cf"}
        THEN code[value[i]] ELSE value[i]]

\* _printable
printable(value) ==
    [i \in DOMAIN value |->
        IF value[i] \in DOMAIN categories /\ categories[value[i]] \in {"Cc", "Cf", "Zl", "Zp"}
        THEN code[value[i]] ELSE value[i]]

\* _line, and several lines that share an empty label.
line(label, value) == <<label>> \o printable(value) \o <<"LF">>

bullets(problems) == FlattenSeq([i \in DOMAIN SetToSeq(problems) |->
                                    line("", <<SetToSeq(problems)[i]>>)])

joined(ids) == FlattenSeq([i \in DOMAIN SetToSeq(ids) |->
                              Spelling[SetToSeq(ids)[i]] \o <<",">>])

\* _signers: a did:key is marked as vouching for itself.
signers(key_ids) ==
    IF key_ids = {} THEN <<"-">>
    ELSE FlattenSeq([i \in DOMAIN SetToSeq(key_ids) |->
            LET key_id == SetToSeq(key_ids)[i]
            IN  Spelling[key_id]
                \o (IF key_id \in DidKeys THEN <<"[self-described]">> ELSE << >>) \o <<",">>])

money(label, value) ==
    IF value = None THEN << >> ELSE line(label, <<ToString(value.amount), value.currency>>)

agent(who) == Spelling[who.id] \o <<"using">> \o Spelling[who.key_id]

principal(who) == Spelling[who.id] \o <<who.type>>

\* _describe; the opaque detail of an outcome stands for the evidence it cites.
describe(payload) ==
    line("document", <<payload.id, payload.type>>)
    \o line(IF payload.type = "mandate" THEN "granted" ELSE "issued",
            <<ToString(payload.issued_at)>>)
    \o CASE payload.type = "mandate" ->
              line("principal", principal(payload.principal))
              \o line("to agent", agent(payload.agent))
              \o line("scope", joined(payload.scope))
              \o line("expires", <<ToString(payload.expires_at)>>)
              \o money("ceiling", payload.max_value)
         [] payload.type = "action" ->
              line("agent", agent(payload.agent))
              \o line("principal", principal(payload.principal))
              \o line("action", Spelling[payload.action.type] \o <<"->">>
                                \o Spelling[payload.action.detail])
              \o money("value", payload.action.value)
              \o line("under", <<payload.mandate_id>>)
              \o line("decision", <<payload.decision>>)
         [] payload.type = "outcome" ->
              line("reports on", <<payload.receipt_id>>)
              \o line("evidence", Spelling[payload.detail])

-----------------------------------------------------------------------------
(***************************************************************************)
(* What a reader makes of a screen.                                        *)
(***************************************************************************)

\* Where a terminal starts a line.
Starts(screen) == {i \in DOMAIN screen : i = 1 \/ screen[i - 1] \in {"LF", "LS", "PS"}}

\* The lines under one label.
Under(screen, label) == {i \in Starts(screen) : screen[i] = label}

\* Nothing on the screen moves the cursor, hides text or turns it round.
Plain(screen) == \A i \in DOMAIN screen : screen[i] \notin {"ESC", "LRM"}

VerdictOf(exit) == IF exit = VERIFIED THEN "VERIFIED" ELSE "NOT VERIFIED"

\* One verdict, at the very end, and it is the one the exit code gives; none before the end.
Concluded(screen, exit) ==
    LET verdicts == Under(screen, "result")
    IN  IF exit \in {VERIFIED, NOT_VERIFIED}
        THEN \E i \in verdicts :
                /\ verdicts = {i}
                /\ screen[i + 1] = VerdictOf(exit)
                /\ \A j \in Starts(screen) : j =< i
        ELSE verdicts = {}
=============================================================================
