----------------------------- MODULE MCBinding -----------------------------
(* Instances of Binding for TLC.                                           *)
EXTENDS Binding

\* The field A has the key "a" in its tag, B has "b".
MCField(kind, key, def, tag, file) ==
    [name |-> IF key = "b" THEN "B" ELSE "A", key |-> key, kind |-> kind,
     exported |-> TRUE, def |-> def, bind |-> tag, file |-> file]

\* One field under a key: every kind without and with a good or a bad default,
\* a default longer than an array, bind tags, file tags, and a field left out.
FieldsFor(key) ==
    {MCField(kind, key, def, NoTag, FALSE) :
        kind \in {"string", "number", "array", "slice", "time", "other"},
        def \in {<<>>, <<"1">>, <<"x">>}}
    \cup {MCField("array", key, <<"1", "1", "2">>, NoTag, FALSE)}
    \cup {MCField(kind, key, def, "t", FALSE) :
            kind \in {"time", "number"}, def \in {<<>>, <<"1">>}}
    \cup {MCField(kind, key, <<>>, NoTag, file) :
            kind \in {"file", "files"}, file \in BOOLEAN}

\* The same fields, not exported.
Unexported(F) == {[f EXCEPT !.exported = FALSE] : f \in F}

\* Structs of one or two fields; one that is not exported comes alone or before
\* a number.
MCStructs ==
    {<<f>> : f \in FieldsFor("a")}
    \cup {<<f, g>> : f \in FieldsFor("a"), g \in FieldsFor("b")}
    \cup {<<f>> : f \in Unexported(FieldsFor("a"))}
    \cup {<<f, MCField("number", "b", <<>>, NoTag, FALSE)>> :
            f \in Unexported(FieldsFor("a"))}
    \cup {<<MCField("number", Pass, <<>>, NoTag, FALSE), g>> :
            g \in FieldsFor("b")}

\* Values of one key: one, two, or more than an array holds, good and bad.
MCValues == {<<"">>, <<"1">>, <<"x">>, <<"1", "2">>, <<"2", "x">>,
             <<"1", "2", "1">>}

MCForms == UNION {[D -> MCValues] : D \in SUBSET {"a", "b"}}

MCUploads == {<<>>, [n \in {"A", "B"} |-> 2]}
=============================================================================
