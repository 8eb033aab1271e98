------------------------------- MODULE MCData -------------------------------
(* Instances of Data for TLC.                                              *)
EXTENDS Data

\* Two structs, one with a rule that holds and one with a rule that does not.
MCRule == [key |-> "ge", args |-> <<<<Token("m"), Token("x")>>,
                                    <<Token("v"), Token("1")>>>>]
MCStructs ==
    {<<[name |-> "A", kind |-> "int", exported |-> TRUE, num |-> n,
        nan |-> FALSE, text |-> NoText, tag |-> <<MCRule>>]>> : n \in {0, 100}}

MCNum    == [w \in {"1"} |-> 100]
MCRunes  == [w \in {"", "1", "x"} |-> IF w = "" THEN 0 ELSE 1]

\* A header that names the type of the body, one that names none, and one
\* whose parameters name a second type.
MCRequests ==
    {q \in Request :
        /\ \/ q.contains = {q.media}
           \/ q.media = "other" /\ q.contains = {}
           \/ q.media = "multipart" /\ q.contains = {"json", "multipart"}
        /\ q.more => q.media \in {"json", "xml", "multipart"}}

MCLiterals ==
    [v \in {"-129", "-128", "-1", "0", "1", "127", "128", "255", "256", "32768"} |->
        CASE v = "-129" -> -129 [] v = "-128" -> -128 [] v = "-1" -> -1
          [] v = "0" -> 0 [] v = "1" -> 1 [] v = "127" -> 127 [] v = "128" -> 128
          [] v = "255" -> 255 [] v = "256" -> 256 [] OTHER -> 32768]
MCStrings  == DOMAIN MCLiterals \cup {"", "x", "true", "false"}
MCDefaults == {<<>>, <<1>>, <<-5>>}

MCParam(k, v) == [Key |-> k, Val |-> v]
MCParams == {MCParam(k, v) : k \in {"a", "b"}, v \in {"1", "x"}}
MCParamLists == UNION {[1..n -> MCParams] : n \in 0..3}
=============================================================================
