------------------------------- MODULE Values -------------------------------
(***************************************************************************)
(* Single values of a request: the conversions of Value (core/valuse.go)   *)
(* with their optional default, path parameters and lists of values.       *)
(*                                                                         *)
(* A conversion is a reading: the number it returns and its error.  The    *)
(* Must variants return the number of the same reading.                    *)
(***************************************************************************)
EXTENDS Integers, SequencesExt

CONSTANTS Strings,   \* strings found in requests, the empty one included
          Literals,  \* those that are decimal integers, and their values
          Widths,    \* sizes of integer types, in bits
          Defaults,  \* the def arguments: sequences of at most one number
          ParamLists, \* Params: sequences of [Key, Val]
          Keys       \* names handlers ask for

ASSUME ValuesAssumption ==
    /\ "" \in Strings \ DOMAIN Literals
    /\ DOMAIN Literals \subseteq Strings
    /\ \A v \in DOMAIN Literals : Literals[v] \in Int
    /\ \A b \in Widths : /\ b \in Nat \ {0}
                         /\ 2^(b - 1) \in Nat \ {0} /\ 2^b = 2 * 2^(b - 1)
    /\ Defaults \subseteq Seq(Int)
    /\ ParamLists \subseteq Seq([Key : STRING, Val : Strings])

VARIABLE reading   \* the last conversion: its arguments and what it returned

-----------------------------------------------------------------------------
(* strconv, external: a number out of range is replaced by the nearest one *)
(* of the type, anything else by 0.                                        *)

Least(signed, bits)    == IF signed THEN -(2^(bits - 1)) ELSE 0
Greatest(signed, bits) == IF signed THEN 2^(bits - 1) - 1 ELSE 2^bits - 1

Syntax(v, signed) ==
    v \in DOMAIN Literals /\ (signed \/ Literals[v] >= 0)

\* strconv.ParseInt and strconv.ParseUint with a bit size.
Parse(v, signed, bits) ==
    LET lo == Least(signed, bits)
        hi == Greatest(signed, bits)
    IN  IF ~Syntax(v, signed) THEN [n |-> 0, err |-> "syntax"]
        ELSE IF Literals[v] < lo THEN [n |-> lo, err |-> "range"]
        ELSE IF Literals[v] > hi THEN [n |-> hi, err |-> "range"]
        ELSE [n |-> Literals[v], err |-> "none"]

\* The conversion int8(i), uint16(i), ...: the low bits.
Cast(n, signed, bits) ==
    IF signed THEN ((n + 2^(bits - 1)) % 2^bits) - 2^(bits - 1) ELSE n % 2^bits

-----------------------------------------------------------------------------
(* valuse.go.                                                              *)

\* if err != nil || v.IsEmpty() { if len(def) > 0 { return def[0], err } }
OrDefault(v, def, x, n) ==
    IF (x.err # "none" \/ v = "") /\ def # <<>>
      THEN [n |-> def[1], err |-> x.err]
      ELSE [n |-> n, err |-> x.err]

\* Mutant: every type is parsed with the size of the widest.
SignedValueWide(v, def, bits) ==
    LET x == Parse(v, TRUE, Max(Widths))
    IN  OrDefault(v, def, x, Cast(x.n, TRUE, bits))

\* Int, Int8, Int16, Int32, Int64 and their Must variants.
SignedValue(v, def, bits) ==
    LET x == Parse(v, TRUE, bits)
    IN  OrDefault(v, def, x, Cast(x.n, TRUE, bits))

\* Uint, Uint8, Uint16, Uint32, Uint64 and their Must variants.
UnsignedValue(v, def, bits) ==
    LET x == Parse(v, FALSE, bits)
    IN  OrDefault(v, def, x, Cast(x.n, FALSE, bits))

\* Float32 and Float64 of texts within their range.
FloatValue(v, def) ==
    LET x == IF Syntax(v, TRUE) THEN [n |-> Literals[v], err |-> "none"]
                                ELSE [n |-> 0, err |-> "syntax"]
    IN  OrDefault(v, def, x, x.n)

\* Bool: true is 1.  The empty string is false without an error, and so never
\* the default.
BoolValue(v, def) ==
    CASE v = ""               -> [n |-> 0, err |-> "none"]
      [] v \in {"1", "true"}  -> [n |-> 1, err |-> "none"]
      [] v \in {"0", "false"} -> [n |-> 0, err |-> "none"]
      [] OTHER -> [n |-> IF def # <<>> THEN def[1] ELSE 0, err |-> "syntax"]

Accessors ==
    {[kind |-> k, bits |-> b] : k \in {"signed", "unsigned"}, b \in Widths}
    \cup {[kind |-> k, bits |-> 0] : k \in {"float", "bool"}}

Convert(acc, v, def) ==
    CASE acc.kind = "signed"   -> SignedValue(v, def, acc.bits)
      [] acc.kind = "unsigned" -> UnsignedValue(v, def, acc.bits)
      [] acc.kind = "float"    -> FloatValue(v, def)
      [] acc.kind = "bool"     -> BoolValue(v, def)

NoReading == [acc |-> [kind |-> "none"]]

\* A default is a value of the type the conversion returns.
Fits(acc, n) ==
    CASE acc.kind = "bool"     -> n \in {0, 1}
      [] acc.kind = "float"    -> TRUE
      [] OTHER -> /\ n >= Least(acc.kind = "signed", acc.bits)
                  /\ n <= Greatest(acc.kind = "signed", acc.bits)

\* A handler converts a value it got from a query, a form or a path.
ReadValue(acc, v, def) ==
    /\ \A j \in DOMAIN def : Fits(acc, def[j])
    /\ reading' = [acc |-> acc, v |-> v, def |-> def,
                   ret |-> Convert(acc, v, def)]

-----------------------------------------------------------------------------
(* params.go, and NewValues.                                               *)

\* Params.byName and Params.Get: the first parameter of the name.
byName(p, name) ==
    LET at == {j \in DOMAIN p : p[j].Key = name}
    IN  IF at = {} THEN "" ELSE p[Min(at)].Val

\* Params.ToURLValues, which BindURI binds from: all of them, in order.
ToURLValues(p, name) ==
    FoldLeft(LAMBDA values, x : IF x.Key = name THEN Append(values, x.Val)
                                                ELSE values, <<>>, p)

\* NewValues makes a slice of the length of the list and appends to it.
NewValues(values) == [j \in DOMAIN values |-> ""] \o values

\* A handler reads a path parameter, alone and as a list.
ReadParam(p, key) ==
    reading' = [acc |-> [kind |-> "param"], params |-> p, key |-> key,
                ret |-> byName(p, key), list |-> NewValues(ToURLValues(p, key))]

-----------------------------------------------------------------------------
(* Properties.                                                             *)

Converted == reading.acc.kind \notin {"none", "param"}
Ret       == reading.ret

\* No conversion wraps around: a number without an error is the number of the
\* text, and one out of range gives, without a default, the nearest
\* number of the type (which the Must variants return without a word).
NoWrapAround ==
    Converted /\ reading.acc.kind \in {"signed", "unsigned"} =>
        /\ Fits(reading.acc, Ret.n)
        /\ Ret.err = "none" => Ret.n = Literals[reading.v]
        /\ Ret.err = "range" /\ reading.def = <<>> =>
            /\ Literals[reading.v] > 0 => ~Fits(reading.acc, Ret.n + 1)
            /\ Literals[reading.v] < 0 => ~Fits(reading.acc, Ret.n - 1)

\* A default stands in for every text that is not a value of the type and for
\* no other, and never hides the error; an empty text counts as one, except
\* for Bool, where it is false and no error.
DefaultForBadOnly ==
    Converted =>
        /\ reading.def # <<>> /\ Ret.err # "none" => Ret.n = reading.def[1]
        /\ Ret.err = "none" /\ reading.v \in DOMAIN Literals =>
            (Ret.n = Literals[reading.v] \/ reading.acc.kind = "bool")
        /\ reading.v = "" => (Ret.err = "none" <=> reading.acc.kind = "bool")

\* The ways to read a parameter agree: Params.Get is the first value BindURI
\* binds, and a list made of all of them ends in them, in order, and begins
\* with as many empty ones.
ReadersAgree ==
    reading.acc.kind = "param" =>
        LET n == Len(reading.list) \div 2
        IN  IF \E j \in DOMAIN reading.params : reading.params[j].Key = reading.key
              THEN /\ n > 0
                   /\ Ret = reading.list[n + 1]
                   /\ \A j \in 1..n : reading.list[j] = ""
              ELSE Ret = "" /\ n = 0

\* What a handler reads of a request is what was sent, or says that it is not.
ReadingsSound == NoWrapAround /\ DefaultForBadOnly /\ ReadersAgree
=============================================================================
