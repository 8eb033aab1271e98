----------------------------- MODULE Validators -----------------------------
(***************************************************************************)
(* validators.Validate: the rules in the "validate" tags of a struct, run  *)
(* field after field until one refuses.  One step is one turn of the inner *)
(* loop.                                                                   *)
(*                                                                         *)
(* Strings are cut where the code cuts them: a token is a piece without    *)
(* ",", "=" or ";", maybe after a space; a text is the tokens between its  *)
(* commas.  Numbers are kept in hundredths, so that there are fractions of *)
(* no, one and two digits; a float may also be no number (NaN).            *)
(***************************************************************************)
EXTENDS Integers, SequencesExt

CONSTANTS Structs,      \* structs with their values: sequences of Fields
          Num,          \* the tokens that are numerals, and their hundredths
          NaNs,         \* the tokens ParseFloat reads as NaN
          Runes,        \* number of runes of every token
          Matches,      \* <<p, t>>: pattern or time layout p accepts text t
          BadPatterns,  \* texts regexp.MustCompile panics on
          Methods,      \* names of the methods of the structs
          Custom        \* names the application registers rules under

Scale == 100

Token(w) == [w |-> w, sp |-> FALSE]
Text(w)  == <<Token(w)>>
NoText   == Text("")

\* Go kinds the rules tell apart: "int" is one of Int, Int8, Int32, Int64,
\* "uint" of Uint, Uint8, Uint32, Uint64, "float" of Float32, Float64, the same
\* one in all fields of a struct.
Kinds == {"string", "int", "int16", "uint", "uint16", "float", "bool", "other"}

\* A tag is a sequence of rules, name and parameters; NoMatch is a piece
\* between semicolons that is not of the form name(...).
NoMatch == "no match"

Tokens == [w : STRING, sp : BOOLEAN]

\* strings.Split returns at least one piece.
Split(S) == Seq(S) \ {<<>>}

\* num is the value of a number or a bool that is not nan.
Fields ==
    {f \in [name : STRING \ {""}, kind : Kinds, exported : BOOLEAN, num : Int,
            nan : BOOLEAN, text : Split(Tokens),
            tag : Seq([key : STRING, args : Seq(Split(Tokens))])] :
        f.nan => f.kind = "float"}

\* The fields of a struct have different names; blank ones and embedded
\* structs are left out.
DistinctNames(s) == \A j, k \in DOMAIN s : s[j].name = s[k].name => j = k

ASSUME ValidatorsAssumption ==
    /\ \A s \in Structs : s \in Seq(Fields) /\ DistinctNames(s)
    /\ \A s \in Structs : \A k \in DOMAIN s : \A j \in DOMAIN s[k].text :
            s[k].text[j].w \in DOMAIN Runes
    /\ \A w \in DOMAIN Num : Num[w] \in Int
    /\ \A w \in DOMAIN Runes : Runes[w] \in Nat
    /\ "" \notin DOMAIN Num \cup NaNs /\ NaNs \cap DOMAIN Num = {}
    /\ \A m \in Methods : m # ""
    /\ NoMatch \notin Custom

VARIABLES
    library,   \* validatorLibrary: names of rules and the functions they run
    st,        \* the struct being validated
    i,         \* the field, from 1
    r,         \* the piece of its tag, from 1
    phase,     \* "idle", "check", "done"
    result     \* what Validate returned

vars == <<library, st, i, r, phase, result>>

-----------------------------------------------------------------------------
(* Texts: strconv and utf8, external.                                      *)

IsNum(t)  == Len(t) = 1 /\ ~t[1].sp /\ t[1].w \in DOMAIN Num
NumOf(t)  == Num[t[1].w]
IsInt(t)  == IsNum(t) /\ NumOf(t) % Scale = 0
IsUint(t) == IsInt(t) /\ NumOf(t) >= 0
IsNaN(t)  == Len(t) = 1 /\ ~t[1].sp /\ t[1].w \in NaNs

\* strconv.ParseInt, ParseUint or ParseFloat, by the kind of the field.
Reads(kind, t) ==
    CASE kind = "int"                -> IsInt(t)
      [] kind \in {"uint", "uint16"} -> IsUint(t)
      [] kind = "float"              -> IsNum(t) \/ IsNaN(t)
      [] OTHER                       -> IsNum(t)

IsTrue(t)  == t \in {Text("1"), Text("t"), Text("true")}
IsFalse(t) == t \in {Text("0"), Text("f"), Text("false")}

\* utf8.RuneCountInString
RuneCount(t) ==
    FoldLeft(LAMBDA n, x : n + Runes[x.w] + (IF x.sp THEN 1 ELSE 0),
             Len(t) - 1, t)

\* Digits after the point in strconv.FormatFloat(x, 'f', -1, ..).
Decimals(n) == IF n % Scale = 0 THEN 0 ELSE IF n % 10 = 0 THEN 1 ELSE 2

\* strings.ReplaceAll(item, " ", "")
NoSpaces(x) == <<Token(x.w)>>

-----------------------------------------------------------------------------
(* Rules.  A rule answers "nil", "message" (the message of the tag),       *)
(* "value" (its value), "panic" or the name of another error.              *)

NeedMessage(p, answer) == IF p.message = NoText THEN "needMessage" ELSE answer

NeedBoth(p, answer) ==
    NeedMessage(p, IF p.value = NoText THEN "needValue" ELSE answer)

Accept(ok)  == IF ok THEN "nil" ELSE "message"
StringOnly(f, answer) == IF f.kind = "string" THEN answer ELSE "kind"

\* The functions isGt, isLt, ... return a bool and an error.
Error(name)  == [err |-> name, ok |-> FALSE]
Answer(ok)   == [err |-> "none", ok |-> ok]
Accepts(a)   == IF a.err # "none" THEN a.err ELSE Accept(a.ok)
Excludes(a)  == IF a.err # "none" THEN a.err ELSE Accept(~a.ok)

LengthRule(f, p, ok) ==
    NeedMessage(p, IF f.kind # "string" THEN "nil"
                   ELSE IF ~IsInt(p.value) THEN "parse" ELSE Accept(ok))

\* Required is a copy of MaxLength.
Required(f, p)  == LengthRule(f, p, RuneCount(f.text) * Scale < NumOf(p.value))
MaxLength(f, p) == LengthRule(f, p, RuneCount(f.text) * Scale < NumOf(p.value))
MinLength(f, p) == LengthRule(f, p, RuneCount(f.text) * Scale > NumOf(p.value))

\* Int16 is missing in every one of the lists of kinds, Uint16 in isLt's.
Ordered == {"int", "uint", "uint16", "float"}

\* No comparison holds of a NaN, not even that it equals itself.
Comparable(f, v) == ~f.nan /\ ~IsNaN(v)

Compare(kinds, f, v, ok) ==
    IF f.kind \notin kinds THEN Error("unsupported")
    ELSE IF ~Reads(f.kind, v) THEN Error("parse")
    ELSE Answer(Comparable(f, v) /\ ok)

isGt(f, v) == Compare(Ordered, f, v, f.num > NumOf(v))
isLt(f, v) == Compare(Ordered \ {"uint16"}, f, v, f.num < NumOf(v))

\* Mutant: > instead of >=.
isGeStrict(f, v) == Compare(Ordered, f, v, f.num > NumOf(v))

isGe(f, v) == Compare(Ordered, f, v, f.num >= NumOf(v))

isLe(f, v) == Compare(Ordered, f, v, f.num <= NumOf(v))

GreaterThan(f, p) == NeedBoth(p, Accepts(isGt(f, p.value)))
LowerThan(f, p)   == NeedBoth(p, Accepts(isLt(f, p.value)))
LowerEqual(f, p)  == NeedBoth(p, Accepts(isLe(f, p.value)))

\* GreaterEqual gives the value of the tag for its message.
GreaterEqual(f, p) ==
    LET a == Accepts(isGe(f, p.value))
    IN  NeedBoth(p, IF a = "message" THEN "value" ELSE a)

isEqual(f, v) ==
    IF f.kind = "string" THEN Answer(f.text = v)
    ELSE IF f.kind # "bool" THEN Compare(Ordered, f, v, f.num = NumOf(v))
    ELSE IF IsTrue(v) THEN Answer(f.num = Scale)
    ELSE IF IsFalse(v) THEN Answer(f.num = 0) ELSE Error("parse")

Equal(f, p)    == NeedBoth(p, Accepts(isEqual(f, p.value)))
NotEqual(f, p) == NeedBoth(p, Excludes(isEqual(f, p.value)))

\* Other kinds are refused without an error.
isBetween(f, lo, hi) ==
    IF f.kind \notin Ordered THEN Answer(FALSE)
    ELSE IF ~(Reads(f.kind, lo) /\ Reads(f.kind, hi)) THEN Error("parse")
    ELSE Answer(/\ Comparable(f, lo) /\ Comparable(f, hi)
                /\ NumOf(lo) <= f.num /\ f.num <= NumOf(hi))

Range2(f, v) ==
    IF Len(v) # 2 THEN Error("syntax")
                  ELSE isBetween(f, NoSpaces(v[1]), NoSpaces(v[2]))

Between(f, p)    == NeedBoth(p, Accepts(Range2(f, p.value)))
NotBetween(f, p) == NeedBoth(p, Excludes(Range2(f, p.value)))

\* Numbers are compared item by item: the first that is equal, or does not
\* parse, ends the loop.  After it the unsigned case falls out of the switch.
isContains(f, v) ==
    LET stops == {j \in DOMAIN v :
                    LET item == NoSpaces(v[j])
                    IN  \/ ~Reads(f.kind, item)
                        \/ Comparable(f, item) /\ f.num = NumOf(item)}
        first == NoSpaces(v[Min(stops)])
    IN  IF f.kind = "string" THEN Answer(\E j \in DOMAIN v : f.text = <<v[j]>>)
        ELSE IF f.kind \notin Ordered THEN Error("unsupported")
        ELSE IF stops # {}
          THEN IF Reads(f.kind, first) THEN Answer(TRUE) ELSE Error("parse")
        ELSE IF f.kind \in {"uint", "uint16"} THEN Error("unsupported")
        ELSE Answer(FALSE)

ContainsItem(f, p) == NeedBoth(p, Accepts(isContains(f, p.value)))
NotContains(f, p)  == NeedBoth(p, Excludes(isContains(f, p.value)))

\* The regular expressions of common.go and the ones of tags, external.
Match(pattern, f) == StringOnly(f, Accept(<<pattern, f.text>> \in Matches))

Email(f, p) == NeedMessage(p, Match(Text("email"), f))
UUID(f, p)  == NeedMessage(p, Match(Text("uuid"), f))
Phone(f, p) == NeedMessage(p, Match(Text("phone"), f))
Url(f, p)   == NeedMessage(p, Match(Text("url"), f))

Regexp(f, p) ==
    NeedBoth(p, IF p.value \in BadPatterns THEN "panic" ELSE Match(p.value, f))

DateFormat(f, p) == NeedBoth(p, Match(p.value, f))

\* A method that exists is reported missing; Interface() of the zero Value
\* that stands for a missing one panics.
Method(p) ==
    IF p.value = NoText THEN "needValue"
    ELSE IF \E m \in Methods : p.value = Text(m) THEN "noMethod" ELSE "panic"

Round(f, p) ==
    NeedBoth(p, IF ~IsInt(p.value) THEN "parse"
                ELSE IF f.kind # "float" THEN "kind"
                ELSE Accept(\/ f.nan \/ Decimals(f.num) = 0
                            \/ Decimals(f.num) * Scale <= NumOf(p.value)))

-----------------------------------------------------------------------------
(* Rules that compare two fields.                                          *)

\* valueOf.FieldByName
Named(s, t) == {j \in DOMAIN s : t = Text(s[j].name)}
FieldByName(s, t) == s[CHOOSE j \in Named(s, t) : TRUE]

\* reflect.DeepEqual of the Interface() of both fields, which panics for
\* fields that are not exported.
DeepEqual(f, g) ==
    /\ f.kind = g.kind /\ f.num = g.num /\ f.text = g.text
    /\ ~f.nan /\ ~g.nan

\* Mutant: a name no field has is not refused.
FieldsTestUnchecked(s, k, p, ok) ==
    IF Named(s, p.value) = {} THEN "panic"
    ELSE IF ~(s[k].exported /\ FieldByName(s, p.value).exported) THEN "panic"
    ELSE Accept(ok)

FieldsTest(s, k, p, ok) ==
    IF Named(s, p.value) = {} THEN "noField"
    ELSE IF ~(s[k].exported /\ FieldByName(s, p.value).exported) THEN "panic"
    ELSE Accept(ok)

EqualField(s, k, p) ==
    NeedBoth(p, FieldsTest(s, k, p, DeepEqual(s[k], FieldByName(s, p.value))))

NotEqualField(s, k, p) ==
    NeedBoth(p, FieldsTest(s, k, p, ~DeepEqual(s[k], FieldByName(s, p.value))))

CompareField(s, k, p, ok) ==
    IF Named(s, p.value) = {} THEN "noField"
    ELSE IF s[k].kind # FieldByName(s, p.value).kind THEN "kind"
    ELSE IF s[k].kind \notin Ordered THEN "unsupported"
    ELSE Accept(~s[k].nan /\ ~FieldByName(s, p.value).nan /\ ok)

\* Without a value the message is said to be missing.
GreatThanField(s, k, p) ==
    LET a == CompareField(s, k, p, s[k].num > FieldByName(s, p.value).num)
    IN  NeedMessage(p, IF p.value = NoText THEN "needMessage" ELSE a)

GreatEqualField(s, k, p) ==
    NeedBoth(p, CompareField(s, k, p, s[k].num >= FieldByName(s, p.value).num))

LowerThanField(s, k, p) ==
    NeedBoth(p, CompareField(s, k, p, s[k].num < FieldByName(s, p.value).num))

\* Mutant: < instead of <=.
LowerEqualFieldStrict(s, k, p) == LowerThanField(s, k, p)

LowerEqualField(s, k, p) ==
    NeedBoth(p, CompareField(s, k, p, s[k].num <= FieldByName(s, p.value).num))

-----------------------------------------------------------------------------
(* The library init fills, and its functions.                              *)

Registered ==
    [required |-> "required", max_length |-> "max_length",
     min_length |-> "min_length", gt |-> "gt", lt |-> "lt", ge |-> "ge",
     le |-> "le", equal |-> "eq", eq |-> "eq", equal_field |-> "ef",
     ef |-> "ef", method |-> "method", regexp |-> "regexp", email |-> "email",
     uuid |-> "uuid", phone |-> "phone", between |-> "between",
     not_between |-> "not_between", not_equal |-> "ne", ne |-> "ne",
     not_equal_field |-> "nef", nef |-> "nef", url |-> "url",
     contains |-> "contains", not_contains |-> "not_contains",
     date_format |-> "date_format", great_than_field |-> "gtf", gtf |-> "gtf",
     lower_than_field |-> "ltf", ltf |-> "ltf", great_equal_field |-> "gef",
     gef |-> "gef", lower_equal_field |-> "lef", lef |-> "lef",
     round |-> "round"]

\* What the function called fn answers for field k of s.
Rule(fn, s, k, p) ==
    LET f == s[k]
    IN  CASE fn = "required"     -> Required(f, p)
          [] fn = "max_length"   -> MaxLength(f, p)
          [] fn = "min_length"   -> MinLength(f, p)
          [] fn = "gt"           -> GreaterThan(f, p)
          [] fn = "lt"           -> LowerThan(f, p)
          [] fn = "ge"           -> GreaterEqual(f, p)
          [] fn = "le"           -> LowerEqual(f, p)
          [] fn = "eq"           -> Equal(f, p)
          [] fn = "ne"           -> NotEqual(f, p)
          [] fn = "between"      -> Between(f, p)
          [] fn = "not_between"  -> NotBetween(f, p)
          [] fn = "contains"     -> ContainsItem(f, p)
          [] fn = "not_contains" -> NotContains(f, p)
          [] fn = "email"        -> Email(f, p)
          [] fn = "uuid"         -> UUID(f, p)
          [] fn = "phone"        -> Phone(f, p)
          [] fn = "url"          -> Url(f, p)
          [] fn = "regexp"       -> Regexp(f, p)
          [] fn = "date_format"  -> DateFormat(f, p)
          [] fn = "method"       -> Method(p)
          [] fn = "round"        -> Round(f, p)
          [] fn = "ef"           -> EqualField(s, k, p)
          [] fn = "nef"          -> NotEqualField(s, k, p)
          [] fn = "gtf"          -> GreatThanField(s, k, p)
          [] fn = "gef"          -> GreatEqualField(s, k, p)
          [] fn = "ltf"          -> LowerThanField(s, k, p)
          [] fn = "lef"          -> LowerEqualField(s, k, p)

-----------------------------------------------------------------------------
(* The parameters of a rule: args holds the pieces between the commas,     *)
(* each cut at its "=".                                                    *)

\* Two pieces joined by a comma again, and cut at every "=" of both.
Join(a, b) == Front(a) \o <<Last(a) \o Head(b)>> \o Tail(b)

\* Mutant: everything after the second comma is cut off.
ListCut(args) ==
    LET cut == [j \in DOMAIN args |-> [n \in DOMAIN args[j] |-> <<args[j][n]>>]]
    IN  SubSeq(cut, 1, 2)

\* strings.Split(text, ","); of more than two pieces all but the first are
\* one.
List(args) ==
    LET cut == [j \in DOMAIN args |-> [n \in DOMAIN args[j] |-> <<args[j][n]>>]]
    IN  IF Len(cut) > 2 THEN <<Head(cut), FoldLeft(Join, cut[2], Tail(Tail(cut)))>>
                        ELSE cut

\* strings.TrimPrefix(val, " ")
Trim(item) == [item EXCEPT ![1][1].sp = FALSE]

\* One turn of the loop over the list: p.out names the error returned.
SetParam(p, val) ==
    LET item == Trim(val)
    IN  IF p.out # "ok" THEN p
        ELSE IF Len(item) # 2 THEN [p EXCEPT !.out = "syntax"]
        ELSE IF item[1] \in {Text("m"), Text("message")}
          THEN [p EXCEPT !.message = item[2]]
        ELSE IF item[1] \in {Text("v"), Text("value")}
          THEN [p EXCEPT !.value = item[2]]
        ELSE [p EXCEPT !.out = "unexpected"]

Param(args) ==
    FoldLeft(SetParam, [out |-> "ok", message |-> NoText, value |-> NoText],
             List(args))

-----------------------------------------------------------------------------
(* Validate.                                                               *)

Ok      == [out |-> "nil", err |-> "none", field |-> "", rule |-> ""]
Piece   == st[i].tag[r]
AtPiece == phase = "check" /\ i <= Len(st) /\ r <= Len(st[i].tag)

\* Piece is of the form name(...) and its name is registered.
Known == Piece.key \in DOMAIN library

\* RegisterValidator refuses a name that is taken.
RegisterValidator(key) ==
    /\ phase = "idle"
    /\ key \notin DOMAIN library
    /\ library' = [k \in DOMAIN library \cup {key} |->
                    IF k = key THEN "custom" ELSE library[k]]
    /\ UNCHANGED <<st, i, r, phase, result>>

Validate(s) ==
    /\ phase = "idle"
    /\ st' = s
    /\ i' = 1 /\ r' = 1
    /\ phase' = "check"
    /\ UNCHANGED <<library, result>>

\* The next field; a field without the tag has no pieces.
NextField ==
    /\ phase = "check" /\ i <= Len(st) /\ r > Len(st[i].tag)
    /\ i' = i + 1 /\ r' = 1
    /\ UNCHANGED <<library, st, phase, result>>

\* Mutant: the rest of the tag is passed over as well.
SkipPieceBreak ==
    /\ AtPiece /\ Piece.key = NoMatch
    /\ r' = Len(st[i].tag) + 1
    /\ UNCHANGED <<library, st, i, phase, result>>

SkipPiece ==
    /\ AtPiece /\ Piece.key = NoMatch
    /\ r' = r + 1
    /\ UNCHANGED <<library, st, i, phase, result>>

Stop(res) ==
    /\ phase' = "done"
    /\ result' = res
    /\ UNCHANGED <<library, st, i, r>>

UnknownRule ==
    /\ AtPiece /\ Piece.key # NoMatch /\ ~Known
    /\ Stop([Ok EXCEPT !.out = "error", !.err = "unknown"])

BadParam ==
    /\ AtPiece /\ Known /\ Param(Piece.args).out # "ok"
    /\ Stop([Ok EXCEPT !.out = "error", !.err = Param(Piece.args).out])

\* What the rule of the piece may answer; a rule of the application anything.
Verdicts(s, k, n) ==
    LET piece == s[k].tag[n]
    IN  IF library[piece.key] = "custom" THEN {"nil", "message"}
        ELSE {Rule(library[piece.key], s, k, Param(piece.args))}

Runs == AtPiece /\ Known /\ Param(Piece.args).out = "ok"

RuleAccepts ==
    /\ Runs /\ "nil" \in Verdicts(st, i, r)
    /\ r' = r + 1
    /\ UNCHANGED <<library, st, i, phase, result>>

RuleRefuses ==
    /\ Runs
    /\ \E v \in Verdicts(st, i, r) \ {"nil", "panic"} :
        Stop([out |-> "validation", err |-> v, field |-> st[i].name,
              rule |-> Piece.key])

RulePanics ==
    /\ Runs /\ "panic" \in Verdicts(st, i, r)
    /\ Stop([Ok EXCEPT !.out = "panic"])

EndLoop ==
    /\ phase = "check" /\ i > Len(st)
    /\ Stop(Ok)

\* The caller has used the result.
Return ==
    /\ phase = "done"
    /\ st' = <<>> /\ i' = 1 /\ r' = 1
    /\ phase' = "idle" /\ result' = Ok
    /\ UNCHANGED library

Init ==
    /\ library = Registered
    /\ st = <<>> /\ i = 1 /\ r = 1
    /\ phase = "idle" /\ result = Ok

Check ==
    \/ NextField \/ SkipPiece \/ UnknownRule \/ BadParam
    \/ RuleAccepts \/ RuleRefuses \/ RulePanics \/ EndLoop

Next ==
    \/ \E key \in Custom : RegisterValidator(key)
    \/ phase = "idle" /\ \E s \in Structs : Validate(s)
    \/ Check
    \/ Return

Spec == Init /\ [][Next]_vars

-----------------------------------------------------------------------------
(* Properties.                                                             *)

\* Piece n of field k comes before the current one in the order of the loops.
Before(k, n) == k < i \/ (k = i /\ n < r)

\* A piece no run of Validate gets past.
Blocks(k, n) ==
    LET piece == st[k].tag[n]
    IN  /\ piece.key # NoMatch
        /\ \/ piece.key \notin DOMAIN library
           \/ Param(piece.args).out # "ok"
           \/ "nil" \notin Verdicts(st, k, n)

\* Validate reports the first piece that fails: nothing before the place where
\* it stands fails, nil means that no piece of any tag does, and an error is
\* about the piece that fails, named in a validation error by field and rule.
FirstRefusal ==
    /\ phase # "idle" =>
        \A k \in DOMAIN st : \A n \in DOMAIN st[k].tag :
            Before(k, n) => ~Blocks(k, n)
    /\ phase = "done" =>
        CASE result.out = "nil"        -> i > Len(st)
          [] result.out = "validation" -> /\ result.field = st[i].name
                                          /\ result.rule = Piece.key
                                          /\ Param(Piece.args).out = "ok"
          [] OTHER                     -> Blocks(i, r)

\* What the rule fn answers at the current piece, with v as its value.
With(v)   == [message |-> Param(Piece.args).message, value |-> v]
At(fn, v) == Rule(fn, st, i, With(v))
Given     == Param(Piece.args).value

\* The piece is well formed and has a message and a value.
Complete ==
    Runs /\ Param(Piece.args).message # NoText /\ Given # NoText

\* The comparisons agree with each other on every kind they read a value for:
\* ge is gt or equal, le and lt are the opposites of gt and ge (lt does not
\* know uint16) unless a NaN is compared, which all of them refuse; between is
\* ge and le, and contains finds an equal item, or an empty one, which eq takes
\* for no value, in an empty string.  Of the lengths, required is max_length,
\* and a string of exactly the length given passes neither max_length nor
\* min_length, any other one of them.
ComparisonsAgree ==
    Complete =>
        /\ st[i].kind \in Ordered /\ Reads(st[i].kind, Given) =>
            /\ At("ge", Given) = "nil"
                 <=> At("gt", Given) = "nil" \/ At("eq", Given) = "nil"
            /\ IF Comparable(st[i], Given)
                 THEN /\ At("le", Given) = "nil" <=> At("gt", Given) = "message"
                      /\ At("lt", Given) = "nil"
                           <=> At("ge", Given) = "value" /\ st[i].kind # "uint16"
                 ELSE /\ {At(fn, Given) : fn \in {"gt", "lt", "le", "eq"}} = {"message"}
                      /\ At("ge", Given) = "value"
        /\ Len(Given) = 2 =>
            (At("between", Given) = "nil"
               <=> /\ At("ge", NoSpaces(Given[1])) = "nil"
                   /\ At("le", NoSpaces(Given[2])) = "nil")
        /\ At("contains", Given) = "nil" =>
            \E j \in DOMAIN Given :
                \/ "nil" \in {At("eq", <<Given[j]>>), At("eq", NoSpaces(Given[j]))}
                \/ st[i].text = NoText /\ <<Given[j]>> = NoText
        /\ At("required", Given) = At("max_length", Given)
        /\ st[i].kind = "string" /\ IsInt(Given) =>
            ({At("min_length", Given), At("max_length", Given)} = {"message"}
               <=> RuneCount(st[i].text) * Scale = NumOf(Given))

\* Rules that say the opposite, one the negation of the other or the other
\* half of an order.
Halves    == {<<"gt", "le">>, <<"gtf", "lef">>, <<"gef", "ltf">>}
Opposites == Halves \cup {<<"eq", "ne">>, <<"between", "not_between">>,
                          <<"contains", "not_contains">>, <<"ef", "nef">>}

\* The rule has a NaN on one of its sides.
Unordered(fn) ==
    IF fn = "gt" THEN ~Comparable(st[i], Given)
                 ELSE \E j \in Named(st, Given) : st[i].nan \/ st[j].nan

\* A rule and its opposite: exactly one of them accepts, or both fail with the
\* same error; both halves of an order refuse a NaN with the same answer; and
\* gtf, gef seen from the other field are ltf, lef.
OppositesExclude ==
    Complete =>
        /\ \A o \in Opposites :
            IF o \in Halves /\ Unordered(o[1])
              THEN At(o[1], Given) = At(o[2], Given) /\ At(o[1], Given) # "nil"
              ELSE \/ {At(o[1], Given), At(o[2], Given)} = {"nil", "message"}
                   \/ /\ At(o[1], Given) = At(o[2], Given)
                      /\ At(o[1], Given) \notin {"nil", "message"}
        /\ \A j \in Named(st, Given) : \A o \in {<<"gtf", "ltf">>, <<"gef", "lef">>} :
            At(o[1], Given) = Rule(o[2], st, j, With(Text(st[i].name)))

\* What the author of a tag wrote for a parameter: the part after the "=" of
\* its last mention, up to the next parameter.
Written(args, names) ==
    LET at   == {j \in DOMAIN args : Len(args[j]) = 2 /\ args[j][1].w \in names}
        from == Max(at)
        next == {j \in DOMAIN args : j > from /\ Len(args[j]) > 1}
        to   == IF next = {} THEN Len(args) ELSE Min(next) - 1
    IN  IF at = {} THEN NoText
        ELSE <<args[from][2]>> \o [j \in 1..(to - from) |-> args[from + j][1]]

\* A list of parameters that is not refused is read as it was written, commas
\* in the values included.
ParamsAsWritten ==
    Runs =>
        /\ Param(Piece.args).message = Written(Piece.args, {"m", "message"})
        /\ Given = Written(Piece.args, {"v", "value"})

\* The only panics of Validate on a struct without embedded ones: a method that
\* does not exist, a pattern that does not compile, and comparing fields for
\* equality when one is not exported.
PanicsOnly ==
    result.out = "panic" =>
        \/ /\ library[Piece.key] = "method"
           /\ \A m \in Methods : Given # Text(m)
        \/ library[Piece.key] = "regexp" /\ Given \in BadPatterns
        \/ /\ library[Piece.key] \in {"ef", "nef"}
           /\ ~st[i].exported \/ \E j \in Named(st, Given) : ~st[j].exported
=============================================================================
