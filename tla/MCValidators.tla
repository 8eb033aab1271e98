---------------------------- MODULE MCValidators ----------------------------
(* Instances of Validators for TLC.                                        *)
EXTENDS Validators

MCNum == [w \in {"0", "1", "2", "-1", "1.5", "1.25"} |->
            CASE w = "0" -> 0 [] w = "1" -> 100 [] w = "2" -> 200
              [] w = "-1" -> -100 [] w = "1.5" -> 150 [] OTHER -> 125]

MCRunes == [w \in {"", "x", "xy", "A", "B", "f", "m", "v", "q", "(", "true"}
                  \cup DOMAIN MCNum \cup {"NaN"} |->
              CASE w = "" -> 0 [] w \in {"xy", "-1"} -> 2 [] w \in {"1.5", "NaN"} -> 3
                [] w \in {"1.25", "true"} -> 4 [] OTHER -> 1]

T(w) == Token(w)
Spaced(w) == [w |-> w, sp |-> TRUE]

\* Parameters: m and v in both orders, one of them, lists of values, commas
\* in the message, a value without name, an unknown or a repeated name.
M(w) == <<T("m"), T(w)>>
V(w) == <<T("v"), T(w)>>

MCArgs ==
    {<<M("x"), V(w)>> : w \in {"0", "1", "2", "-1", "1.5", "x", "A", "B", "(",
                               "true", "f", "NaN"}}
    \cup {<<M("x"), V("1"), <<x>>>> : x \in {T("2"), Spaced("2"), T("x"), T("0"), T("NaN")}}
    \cup {<<M("x"), V("x"), <<T("1")>>>>, <<M("x"), V(""), <<T("1")>>>>,
          <<M("x"), V("1"), <<T("1")>>, <<T("2")>>>>}

MCOddArgs ==
    {<<M("x")>>, <<M("x"), V("")>>, <<V("1")>>, <<<<T("")>>>>, <<M(""), V("1")>>,
     <<V("1"), M("x")>>, <<V("1"), M("x"), <<T("2")>>>>,
     <<M("x"), <<Spaced("v"), T("1")>>>>, <<M("x"), <<Spaced("v"), T("1")>>, <<T("2")>>>>,
     <<V("1"), <<T("2")>>, M("x")>>, <<V("1"), <<T("2")>>>>,
     <<M("x"), <<T("v"), T("1"), T("2")>>>>, <<M("x"), <<T("v"), Spaced("1")>>>>,
     <<M("x"), <<T("q"), T("1")>>>>, <<V("1"), V("2")>>,
     <<<<T("message"), T("x")>>, <<T("value"), T("1")>>>>}

\* Values of a field by its kind; the float that is 0 here is NaN.
Nums(kind) ==
    CASE kind \in {"int", "int16"}   -> {-100, 0, 100}
      [] kind \in {"uint", "uint16"} -> {0, 100, 200}
      [] kind = "float"              -> {-100, 0, 100, 125, 150}
      [] kind \in {"bool", "other"}  -> {0, 100}
      [] OTHER                       -> {0}
Texts(kind) ==
    IF kind = "string" THEN {NoText, Text("x"), Text("1"), <<T("1"), T("2")>>}
                       ELSE {NoText}

FieldsOf(name, kinds, tags) ==
    UNION {{[name |-> name, kind |-> kind, exported |-> TRUE, num |-> n,
             nan |-> kind = "float" /\ n = 0, text |-> t, tag |-> tag] :
                n \in Nums(kind), t \in Texts(kind), tag \in tags} :
           kind \in kinds}

Tags(keys, args) == {<<[key |-> k, args |-> a]>> : k \in keys, a \in args}
Hidden(fs) == {[f EXCEPT !.exported = FALSE] : f \in fs}
Names == {Registered[k] : k \in DOMAIN Registered}

\* Every rule on every kind and value of one field; every form of parameters;
\* every pair of values under the rules on two fields; and tags of two rules
\* on two fields.
One == {<<f>> : f \in FieldsOf("A", Kinds, Tags(Names, MCArgs))}
Odd == {<<f>> : f \in FieldsOf("A", {"string", "uint"},
                               Tags({"max_length", "between", "gtf", "method",
                                     "email", "nobody"}, MCOddArgs))}
PairTags == Tags({"ef", "nef", "gtf", "lef", "gef"},
                 {<<M("x"), V("B")>>})
Pairs ==
    {<<f, g>> : f \in FieldsOf("A", Kinds, PairTags),
                g \in FieldsOf("B", {"int", "uint", "string", "int16", "float"}, {<<>>})}
    \cup {<<f, g>> : f \in Hidden(FieldsOf("A", {"int"}, PairTags)),
                     g \in FieldsOf("B", {"int"}, {<<>>})}
    \cup {<<f, g>> : f \in FieldsOf("A", {"int"}, PairTags),
                     g \in Hidden(FieldsOf("B", {"int"}, {<<>>}))}

Simple == {[key |-> "ge", args |-> <<M("x"), V("1")>>],
           [key |-> "my_rule", args |-> <<M("x")>>],
           [key |-> NoMatch, args |-> <<>>],
           [key |-> "le", args |-> <<M("x"), V("1")>>]}
LongTags == {<<a, b>> : a \in Simple, b \in Simple}
Long ==
    {<<f, g>> : f \in FieldsOf("A", {"int"}, LongTags \cup {<<>>}),
                g \in FieldsOf("B", {"uint"}, LongTags)}

MCStructs == One \cup Odd \cup Pairs \cup Long

MCBadPatterns == {Text("(")}

MCMatches == {<<Text(p), Text("x")>> :
                p \in {"email", "uuid", "phone", "url", "x", "1"}}
=============================================================================
