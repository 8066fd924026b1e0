---------------------------- MODULE CommandLine ----------------------------
(***************************************************************************)
(* What the two subcommands of src/src/agent_mandates/cli.py share: exit   *)
(* codes, the key directory option and reading an envelope.  A file is     *)
(* what it holds: an envelope or a directory, Unreadable when it cannot be *)
(* opened or parsed at all, or Escaping when reading it raises what none   *)
(* of its reader, _public_keys, _read_envelope or main catches: a time     *)
(* that cannot be converted to UTC (OverflowError, models.py:43), a        *)
(* directory nested too deeply for the JSON parser (RecursionError,        *)
(* keys.py:38).  A command reads each file once.                           *)
(***************************************************************************)
EXTENDS Authority

CONSTANTS Unreadable, Escaping

VERIFIED == 0
NOT_VERIFIED == 1
BAD_INPUT == 2

\* Not an exit code of main, which returns none: the interpreter prints a traceback.
ESCAPED == -1

ASSUME FileAssumption ==
    /\ None \notin {Unreadable, Escaping, VERIFIED, NOT_VERIFIED, BAD_INPUT, ESCAPED}
    /\ Unreadable # Escaping

\* Nothing can be had from these.
Unusable == {Unreadable, Escaping}

\* An InputError from whoever reads the file, which main turns into BAD_INPUT, or what it lets
\* through.
error_of(file) == IF file = Escaping THEN ESCAPED ELSE BAD_INPUT

\* What a file may hold: a payload that parses, under labels and values of any provenance.
IsFile(file) ==
    \/ file \in Unusable
    \/ /\ IsDocument(file.payload) /\ file.payload # None
       /\ IsSequence(file.signatures)
       /\ \A i \in DOMAIN file.signatures : file.signatures[i].key_id \in KeyIds

\* No directory, a file that is not one, or key ids with their keys.
IsDirectory(file) ==
    \/ file = None \/ file \in Unusable
    \/ DOMAIN file \subseteq KeyIds /\ \A key_id \in DOMAIN file : file[key_id] \in Keys

\* _public_keys: without a directory only did:key signers resolve.
listed_keys(file) == IF file = None THEN << >> ELSE file

public_keys_ok(file) == file \notin Unusable /\ directory_usable(listed_keys(file))

\* _read_envelope, and the readers that also ask what the envelope holds.
read_envelope_ok(file) == file \notin Unusable /\ valid_envelope(file)

read_ok(file, type) == read_envelope_ok(file) /\ file.payload.type = type
=============================================================================
