------------------------------- MODULE LeafObject --------------------------------
(***************************************************************************)
(* What Parse and TypeOf read off a served event (leaf/leaf.go), and what  *)
(* another reader of the same bytes may: one that keeps the first or the   *)
(* last of a repeated member, that matches names exactly or by folding     *)
(* case, that repairs a string that is no Unicode or keeps it.             *)
(*                                                                         *)
(* The fields that are treated alike have one representative: "id" stands  *)
(* for the strings of the event, "other" for every name outside the set.   *)
(***************************************************************************)
EXTENDS Integers, Sequences, SequencesExt

CONSTANTS OurTypes  \* the types this tool verifies, as sequences of runes

Nil == <<"nil">>    \* an absent or null value; a string reads as <<"is", runes>>

(***************************************************************************)
(* Runes and the text of a string literal.  A unit of text is a character, *)
(* or four of them that spell a code unit in hex, Hex(r), or a byte that   *)
(* is no UTF-8.                                                            *)
(***************************************************************************)
Backslash == 92
LetterU == 117
Replacement == 65533
NoRune == -1
Hex(r) == 2^20 + r
IsHex(unit) == unit >= 2^20
High(r) == 55296 <= r /\ r <= 56319
Low(r) == 56320 <= r /\ r <= 57343

\* A token of a literal: a character as it is, a two-character escape, or \uXXXX.
Token == [how : {"plain", "pair", "quad"}, rune : Int]
Spelled(t) ==
  CASE t.how = "plain" -> <<t.rune>>
    [] t.how = "pair"  -> <<Backslash, t.rune>>
    [] t.how = "quad"  -> <<Backslash, LetterU, Hex(t.rune)>>
\* The tokens there are: a backslash is never plain, and "u" makes it a quad.
LiteralToken ==
  {t \in Token : /\ t.how = "plain" => t.rune # Backslash
                 /\ t.how = "pair" => t.rune \in Nat \ {LetterU}
                 /\ t.how = "quad" => t.rune \in Nat}
Literal(tokens) == FlattenSeq([i \in 1..Len(tokens) |-> Spelled(tokens[i])])

\* hexEscape at i: the code unit, or NoRune.
HexEscape(raw, i) ==
  IF i + 2 <= Len(raw) /\ raw[i] = Backslash /\ raw[i + 1] = LetterU /\ IsHex(raw[i + 2])
  THEN raw[i + 2] - 2^20 ELSE NoRune

\* wellFormed: no string the decoder would repair.
WellFormed(raw) ==
  LET from[i \in 1..(Len(raw) + 4)] ==
        LET hi == HexEscape(raw, i)
            lo == HexEscape(raw, i + 3)
        IN IF i > Len(raw) THEN TRUE
           ELSE IF raw[i] # Backslash THEN from[i + 1]
           ELSE IF hi = NoRune THEN from[i + 2]
           ELSE IF ~High(hi) /\ ~Low(hi) THEN from[i + 3]
           ELSE High(hi) /\ Low(lo) /\ from[i + 6]
  IN NoRune \notin Range(raw) /\ from[1]

\* Any decoder's string: code units by the tokens, a surrogate without its other half
\* and a byte that is no UTF-8 replaced by one that repairs, and kept by one that
\* does not.
Decoded(tokens, repairs) ==
  LET Paired(i) == \/ High(tokens[i].rune) /\ i < Len(tokens)
                        /\ tokens[i + 1].how = "quad" /\ Low(tokens[i + 1].rune)
                   \/ Low(tokens[i].rune) /\ i > 1
                        /\ tokens[i - 1].how = "quad" /\ High(tokens[i - 1].rune)
      Lone(i) == \/ tokens[i].rune = NoRune
                 \/ /\ tokens[i].how = "quad" /\ ~Paired(i)
                    /\ High(tokens[i].rune) \/ Low(tokens[i].rune)
  IN [i \in 1..Len(tokens) |-> IF Lone(i) /\ repairs THEN Replacement ELSE tokens[i].rune]
----------------------------------------------------------------------------------
(***************************************************************************)
(* Type names.                                                             *)
(***************************************************************************)
\* unicode.SimpleFold on the runes in use: s, S and long s; k, K and Kelvin; a, A.
SimpleFold(r) ==
  CASE r = 83 -> 115 [] r = 115 -> 383 [] r = 383 -> 83
    [] r = 75 -> 107 [] r = 107 -> 8490 [] r = 8490 -> 75
    [] r = 65 -> 97 [] r = 97 -> 65
    [] OTHER -> r
IsLetter(r) == SimpleFold(r) # r
Least(S) == CHOOSE m \in S : \A n \in S : m <= n

\* foldRune: the smallest rune of the orbit, none of which is longer than three.
FoldRune(r) == Least({r, SimpleFold(r), SimpleFold(SimpleFold(r))})

NormalizeType(typ) ==
  LET letters == SelectSeq(typ, IsLetter)
  IN [i \in 1..Len(letters) |-> FoldRune(letters[i])]

ClaimsOurType(typ) ==
  \E t \in OurTypes : \/ IsPrefix(NormalizeType(t), NormalizeType(typ))
                      \/ IsPrefix(NormalizeType(typ), NormalizeType(t))
----------------------------------------------------------------------------------
(***************************************************************************)
(* Objects.  A name is the projected name it folds to, or "other", and     *)
(* whether it is that name exactly.  "end" is what ends the object: its    *)
(* brace, nothing (it breaks off), or its brace and more content.          *)
(***************************************************************************)
Name(base, exact) == [base |-> base, exact |-> exact]
Entry(name, value) == [name |-> name, value |-> value]

JSON(form, text, members, end) ==
  [form |-> form, text |-> text, members |-> members, end |-> end]
Object(members, end) == JSON("object", <<>>, members, end)
String(tokens) == JSON("string", tokens, <<>>, "brace")
Null == JSON("null", <<>>, <<>>, "brace")
\* A number: digits that fit, or any other (a sign, a fraction, an exponent, too long).
Digits(n) == JSON("digits", <<n>>, <<>>, "brace")
OtherNumber == JSON("number", <<>>, <<>>, "brace")

\* Values whose members have the given values.
JSONOver(values) ==
  [form : {"string"}, text : Seq(LiteralToken), members : {<<>>}, end : {"brace"}]
    \cup [form : {"digits", "number", "null"}, text : Seq(Nat), members : {<<>>}, end : {"brace"}]
    \cup [form : {"object"}, text : {<<>>}, end : {"brace", "nothing", "more"},
          members : Seq([name : [base : STRING, exact : BOOLEAN], value : values])]
\* A row: an object in an object is the deepest that is looked into.
ServedRow == JSONOver(JSONOver(JSONOver({})))

TopKeys == {"id", "type", "actor", "resource_details", "user_profile_id",
            "transparency_log_leaf_index"}
ActorKeys == {"email_address", "type"}
ResourceKeys == {"id", "parent", "type"}

\* Slip: a name that differs in case is just another name.
DecodeObjectExactly(v, projected) ==
  /\ v.form = "object" /\ v.end = "brace"
  /\ \A i, j \in 1..Len(v.members) : i # j => v.members[i].name # v.members[j].name

\* Whether decodeObject reads the object; what it reads is then its members by name.
DecodeObject(v, projected) ==
  /\ v.form = "object" /\ v.end = "brace"
  /\ \A i, j \in 1..Len(v.members) : i # j => v.members[i].name # v.members[j].name
  /\ \A i \in 1..Len(v.members) :
       v.members[i].name.base \in projected => v.members[i].name.exact

\* The value of a key that is present and not null, or Null.
Present(v, key) ==
  LET i == SelectInSeq(v.members, LAMBDA e : e.name = Name(key, TRUE))
  IN IF i = 0 THEN Null ELSE v.members[i].value

\* optString: whether it succeeds, and what it returns if it does.
IsOptString(v, key) ==
  LET s == Present(v, key) IN s = Null \/ (s.form = "string" /\ WellFormed(Literal(s.text)))
OptString(v, key) ==
  LET s == Present(v, key) IN IF s = Null THEN Nil ELSE <<"is", Decoded(s.text, TRUE)>>

TypeOf(v) ==
  IF DecodeObject(v, TopKeys) /\ IsOptString(v, "type") THEN OptString(v, "type") ELSE Nil

\* Whether a row is passed over as another product's.
IsPassedOver(v) == TypeOf(v) # Nil /\ ~ClaimsOurType(TypeOf(v)[2])

\* Whether Parse accepts the event.
Parses(v) ==
  LET actor == Present(v, "actor")
      resource == Present(v, "resource_details")
      index == Present(v, "transparency_log_leaf_index")
  IN /\ DecodeObject(v, TopKeys)
     /\ IsOptString(v, "type") /\ OptString(v, "type") \in {<<"is", t>> : t \in OurTypes}
     /\ IsOptString(v, "id") /\ IsOptString(v, "user_profile_id")
     /\ actor # Null => DecodeObject(actor, ActorKeys) /\ IsOptString(actor, "type")
     /\ resource # Null =>
          /\ DecodeObject(resource, ResourceKeys)
          /\ IsOptString(resource, "id") /\ IsOptString(resource, "type")
     /\ index # Null => index.form = "digits"

\* What it makes of an event it accepts.
Parse(v) ==
  LET actor == Present(v, "actor")
      resource == Present(v, "resource_details")
      index == Present(v, "transparency_log_leaf_index")
  IN [id |-> OptString(v, "id"), type |-> OptString(v, "type"),
      actor |-> IF actor = Null THEN Nil ELSE <<"is", OptString(actor, "type")>>,
      resource |-> IF resource = Null THEN Nil
                   ELSE <<"is", OptString(resource, "id"), OptString(resource, "type")>>,
      profile |-> OptString(v, "user_profile_id"),
      index |-> IF index = Null THEN Nil ELSE <<"is", index.text>>]
----------------------------------------------------------------------------------
(***************************************************************************)
(* Other readers.                                                          *)
(***************************************************************************)
Reader == [keeps : {"first", "last"}, folds : BOOLEAN, repairs : BOOLEAN]

\* The value such a reader finds under a name, Null if there is none.
Found(reader, v, key) ==
  LET at == {i \in 1..Len(v.members) :
               /\ v.members[i].name.base = key
               /\ v.members[i].name.exact \/ reader.folds}
      i == IF reader.keeps = "first" THEN Least(at)
           ELSE CHOOSE n \in at : \A k \in at : k <= n
  IN IF v.form # "object" \/ at = {} THEN Null ELSE v.members[i].value

FoundString(reader, v, key) ==
  LET s == Found(reader, v, key)
  IN IF s = Null THEN Nil
     ELSE IF s.form = "string" THEN <<"is", Decoded(s.text, reader.repairs)>>
     ELSE <<"odd">>

\* The event as it reads it.
Reads(reader, v) ==
  LET actor == Found(reader, v, "actor")
      resource == Found(reader, v, "resource_details")
      index == Found(reader, v, "transparency_log_leaf_index")
  IN [id |-> FoundString(reader, v, "id"), type |-> FoundString(reader, v, "type"),
      actor |-> IF actor = Null THEN Nil ELSE <<"is", FoundString(reader, actor, "type")>>,
      resource |-> IF resource = Null THEN Nil
                   ELSE <<"is", FoundString(reader, resource, "id"),
                          FoundString(reader, resource, "type")>>,
      profile |-> FoundString(reader, v, "user_profile_id"),
      index |-> IF index = Null THEN Nil
                ELSE IF index.form = "digits" THEN <<"is", index.text>> ELSE <<"odd">>]

\* Whether two runes are the same letter, whatever the case.
SameLetter(a, b) == b \in {a, SimpleFold(a), SimpleFold(SimpleFold(a))}

\* A type a person would take for ours: letter for letter it begins as one of ours,
\* or is the beginning of one.
IsNearOurs(typ) ==
  \E t \in OurTypes :
    LET a == SelectSeq(typ, IsLetter)
        b == SelectSeq(t, IsLetter)
    IN \A i \in 1..Len(a) : i <= Len(b) => SameLetter(a[i], b[i])
==================================================================================
