-------------------------------- MODULE MCInputs ---------------------------------
(* The inputs tried: short, but with every pair of things that could interfere.  *)
EXTENDS Inputs

MCCommandLine == UNION {[1..n -> Argument] : n \in 0..4}

----------------------------------------------------------------------------------
EventDoc(tag, follows, spread) ==
  Doc("object", <<Member("type", Value("other", <<>>))>>, <<>>, tag, follows, spread)
EventRaw(tag) == <<EventDoc(tag, FALSE, FALSE)>>

Values == {Value("array", <<EventRaw(1), EventRaw(2)>>), Value("null", <<>>),
           Value("other", <<>>), Value("broken", <<>>)}
Members == {Member(n, v) : n \in {"data"}, v \in Values}
             \cup {Member(n, Value(f, <<>>)) : n \in {"has_more", "type"}, f \in {"other", "broken"}}

\* Objects break off at their last member if anywhere.
MemberLists == {s \in UNION {[1..n -> Members] : n \in 0..3} :
                  \A i \in 1..(Len(s) - 1) : s[i].value.form # "broken"}

FirstDocs ==
  {Doc("object", ms, <<>>, 3, FALSE, spread) : ms \in MemberLists, spread \in BOOLEAN}
    \cup {Doc("array", <<>>, <<EventRaw(1)>>, 3, FALSE, FALSE),
          Doc("other", <<>>, <<>>, 3, FALSE, FALSE), Doc("garbage", <<>>, <<>>, 3, FALSE, FALSE)}
LaterDocs ==
  {EventDoc(4, follows, spread) : follows, spread \in BOOLEAN}
    \cup {Doc("object", <<Member("data", Value("array", <<EventRaw(2)>>))>>, <<>>, 4, FALSE, FALSE),
          Doc("other", <<>>, <<>>, 4, FALSE, FALSE), Doc("garbage", <<>>, <<>>, 4, FALSE, FALSE)}

\* Nothing can be told apart after a document that breaks off.
MCFile == {<<>>} \cup {<<d>> : d \in FirstDocs}
            \cup {<<d, e>> : d \in {x \in FirstDocs : Whole(x)}, e \in LaterDocs}
            \cup {<<EventDoc(3, FALSE, FALSE), e, EventDoc(5, follows, FALSE)>> :
                    e \in {x \in LaterDocs : Whole(x)}, follows \in BOOLEAN}
----------------------------------------------------------------------------------
Plain(r) == [how |-> "plain", rune |-> r]
Ours == <<Plain(115), Plain(95), Plain(97)>>   \* "s_a", one of our types
MCOurTypes == {<<115, 95, 97>>, <<107, 97>>}

Tokens == {Plain(97), Plain(LetterU), Plain(Hex(55296)), Plain(NoRune),
           [how |-> "pair", rune |-> Backslash], [how |-> "pair", rune |-> 110],
           [how |-> "quad", rune |-> 55296], [how |-> "quad", rune |-> 56320],
           [how |-> "quad", rune |-> 97]}
Row1(name, value) == Entry(Name(name, TRUE), value)
StringRows ==
  {Object(<<Row1("type", String(Ours)), Row1("id", String(t))>>, "brace") :
     t \in UNION {[1..n -> Tokens] : n \in 0..4}}

TypeRows ==
  {Object(<<Row1("type", String([i \in DOMAIN t |-> Plain(t[i])]))>>, "brace") :
     t \in UNION {[1..n -> {83, 115, 383, 97, 8490, 95}] : n \in 0..4}}

\* Objects of up to n members, among them repeats and names in the wrong case.
Objects(names, values, n, ends) ==
  {Object(ms, end) : end \in ends,
     ms \in UNION {[1..k -> {Entry(Name(b, x), v) : b \in names, x \in BOOLEAN, v \in values}] :
                     k \in 0..n}}

Nested == Objects({"type", "email_address"}, {String(Ours), Null}, 2, {"brace"})
Resources == Objects({"id", "type", "parent"}, {String(Ours)}, 2, {"brace"})
NestedRows ==
  {Object(<<Row1("type", String(Ours)), Row1("actor", a)>>, "brace") : a \in Nested}
    \cup {Object(<<Row1("resource_details", a), Row1("type", String(Ours))>>, "brace") : a \in Resources}

Theirs == <<Plain(97), Plain(115)>>
PlainRows ==
  Objects({"type", "id", "other"}, {String(Ours), String(Theirs), Null}, 2, {"brace", "nothing", "more"})
    \cup Objects({"type", "id"}, {String(Ours), String(Theirs)}, 3, {"brace"})
    \cup {Object(<<Row1("type", String(Ours)), e, f>>, "brace") :
            e, f \in {Entry(Name(b, x), v) :
                        b \in {"transparency_log_leaf_index", "user_profile_id", "actor"},
                        x \in BOOLEAN, v \in {Digits(5), OtherNumber, String(Theirs), Null}}}
    \cup {Null, Digits(5), String(Ours)}

MCRow == StringRows \cup TypeRows \cup NestedRows \cup PlainRows

MCServed == Shown!Text(3)
----------------------------------------------------------------------------------
MCOrg == {"us", "them"}
MCPrefix == {"axt", "test"}
MCKey == {"builtin", "announced"}

Names2 == {OriginOf("us"), OriginOf("them"), [OriginOf("us") EXCEPT !.prefix = "test"],
           [OriginOf("us") EXCEPT !.prefix = "test", !.well = FALSE]}
Keys == {k \in KeyString : k.form = "key" => k.name \in Names2}
None == CHOOSE k \in KeyString : k.form = "none"
SigLines == {l \in Line : l.name \in Names2 /\ (l.name.well \/ l.valid)}
Notes ==
  [form : {"note"}, origin : Names2, sigs : UNION {[1..n -> SigLines] : n \in 0..2}]
    \cup [form : {"text", "no checkpoint"}, origin : {OriginOf("us")},
          sigs : UNION {[1..n -> SigLines] : n \in 0..1}]
Froms == {"log", "state", "--from", "--from-trusted"}

\* Every pair of keys over a few notes, and every note under a few keys.
MCInvocation ==
  [org : {"us"}, flag : Keys, env : Keys, from : {"log"},
   note : {n \in Notes : n.form = "note" /\ Len(n.sigs) = 1 /\ n.sigs[1].valid}]
    \cup [org : MCOrg, env : {None}, from : Froms, note : Notes,
          flag : {None} \cup [form : {"key"}, name : Names2, key : {"announced"}, whole : {TRUE}]]
==================================================================================
