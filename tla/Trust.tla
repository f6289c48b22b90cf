---------------------------------- MODULE Trust ----------------------------------
(***************************************************************************)
(* Whose checkpoints an invocation believes: the key and origin it settles *)
(* on (cmd/axt-verify/trust.go, builtin_keys.go), and what it then accepts *)
(* of the log and of the caller's own files (checkpoint/checkpoint.go      *)
(* Verify and ParseTrusted, events.go readBaselines).                      *)
(*                                                                         *)
(* Every organization's log is signed by the same key, and a signature     *)
(* line carries whatever its author wrote.                                 *)
(***************************************************************************)
EXTENDS Integers, Sequences

CONSTANTS
  Org,          \* organizations, canonical UUIDs
  Prefix,       \* log names; Production is the one built in
  Production,
  Key,          \* public keys; Builtin is the one in the release
  Builtin

ASSUME ProductionAssumption == Production \in Prefix /\ Builtin \in Key

\* An origin line, <prefix>/<org>.  "well" is false if a prefix is empty or has a space
\* in it, which originRE refuses.
Origin == [prefix : Prefix, org : Org, well : BOOLEAN]
OriginOf(org) == [prefix |-> Production, org |-> org, well |-> TRUE]

(***************************************************************************)
(* A verifier key string: none, something else, or <name>+<hash>+<key>.    *)
(* "whole" is false if the hash is not that of the name and the key.       *)
(***************************************************************************)
KeyString == [form : {"none", "other"}, name : {OriginOf(CHOOSE o \in Org : TRUE)},
              key : {Builtin}, whole : {TRUE}]
               \cup [form : {"key"}, name : Origin, key : Key, whole : BOOLEAN]

\* Production is built in: any organization has a key.
BuiltinVerifierKey(org) ==
  [form |-> "key", name |-> OriginOf(org), key |-> Builtin, whole |-> TRUE]

LogKeyFrom(flag, env) == IF flag.form # "none" THEN flag ELSE env

Untrusted == [ok |-> FALSE, origin |-> OriginOf(CHOOSE o \in Org : TRUE), key |-> Builtin]

\* checkpoint.New.
New(origin, vkey) ==
  IF origin.well /\ vkey.whole /\ vkey.name = origin
  THEN [ok |-> TRUE, origin |-> origin, key |-> vkey.key]
  ELSE Untrusted

\* resolve: a checkpoint verifier, or a usage error.
Resolve(org, logKey) ==
  IF logKey.form = "none" THEN New(OriginOf(org), BuiltinVerifierKey(org))
  ELSE IF logKey.form = "other" \/ logKey.name.org # org THEN Untrusted
  ELSE New(logKey.name, logKey)
----------------------------------------------------------------------------------
(***************************************************************************)
(* A signed note.  "form" tells a note from text without a signature block *)
(* and from one whose body does not parse; a signature line names a key    *)
(* and its hash, which stands for the key, and is valid if that key made   *)
(* it.                                                                     *)
(***************************************************************************)
Line == [name : Origin, key : Key, valid : BOOLEAN]
Note == [form : {"note", "text", "no checkpoint"}, origin : Origin, sigs : Seq(Line)]

Known(v, line) == line.name = v.origin /\ line.key = v.key

\* note.Open for one known key: the first of its lines decides.
Open(v, note) ==
  LET known == {i \in 1..Len(note.sigs) : Known(v, note.sigs[i])}
      first == CHOOSE i \in known : \A j \in known : i <= j
  IN IF note.form = "text" THEN "malformed"
     ELSE IF known = {} \/ ~note.sigs[first].valid THEN "signature"
     ELSE "opened"

\* Slip: a checkpoint the key signed is a checkpoint of this log.
ParseBodyOfAny(note, origin) == IF note.form # "note" THEN "malformed" ELSE "believed"

ParseBody(note, origin) ==
  IF note.form # "note" THEN "malformed"
  ELSE IF note.origin # origin THEN "origin"
  ELSE "believed"

Verify(v, note) ==
  IF Open(v, note) = "opened" THEN ParseBody(note, v.origin) ELSE Open(v, note)

ParseTrusted(note, origin) ==
  IF note.form = "text" THEN "malformed" ELSE ParseBody(note, origin)

(***************************************************************************)
(* What becomes of a note: it is believed, or the pass ends with a         *)
(* finding, a usage error or without a verdict.  It comes from the log,    *)
(* from the state file, or from --from or --from-trusted.                  *)
(***************************************************************************)
Source == {"log", "state", "--from", "--from-trusted"}
IsOwnRecord(from) == from \in {"state", "--from-trusted"}

Fate(v, from, note) ==
  LET verdict == IF IsOwnRecord(from) THEN ParseTrusted(note, v.origin)
                 ELSE Verify(v, note)
  IN IF verdict = "believed" THEN "believed"
     ELSE IF from = "state" THEN "incomplete"
     ELSE IF verdict = "malformed" /\ from # "log" THEN "usage"
     ELSE "finding"

\* One invocation and one note.
Checked(inv) ==
  LET v == Resolve(inv.org, LogKeyFrom(inv.flag, inv.env))
  IN IF v.ok THEN Fate(v, inv.from, inv.note) ELSE "usage"
----------------------------------------------------------------------------------
\* The key and the origin the operator asked for.
ChosenKey(inv) ==
  IF inv.flag.form # "none" THEN inv.flag.key
  ELSE IF inv.env.form # "none" THEN inv.env.key
  ELSE Builtin
ChosenOrigin(inv) ==
  IF inv.flag.form # "none" THEN inv.flag.name
  ELSE IF inv.env.form # "none" THEN inv.env.name
  ELSE OriginOf(inv.org)
==================================================================================
