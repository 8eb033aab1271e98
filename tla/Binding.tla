------------------------------ MODULE Binding ------------------------------
(***************************************************************************)
(* Binding a request to a struct (core/bind): BindForm, which also serves  *)
(* query strings, headers and path parameters, and BindMultipartForm.      *)
(* One step binds one field, as the loops of the code do.                  *)
(*                                                                         *)
(* A field is what reflection tells of it: its kind, whether it is         *)
(* exported, the form key and the default its tag gives (the field's name  *)
(* and no default without one), a "bind" tag naming a custom method,       *)
(* whether it has a "file" tag.  Texts stand for strings; those in Bad are *)
(* not numbers, times or JSON, or are out of range for the type.           *)
(***************************************************************************)
EXTENDS Integers, Sequences, FiniteSetsExt

CONSTANTS Structs,   \* struct types handlers bind to: sequences of Fields
          Forms,     \* decoded forms: functions from keys to their values
          Uploads,   \* uploaded files: functions from field names to counts
          Texts,     \* form values, the empty one included
          Bad,       \* those no number, time or JSON parser accepts
          Methods,   \* names AddBindMethod may be called with
          ArrayLen   \* length of the Go arrays among the fields

Pass  == "-"
NoTag == "none"

\* BindForm under QueryBinder, FormBinder, HeaderBinder and URIBinder (which
\* differ in the values and in the tag), and BindMultipartForm.
Binders == {"form", "multipart"}

Kinds == {"string", "number", "time", "array", "slice", "file", "files",
          "other"}

Fields ==
    [name : STRING, key : STRING, kind : Kinds, exported : BOOLEAN,
     def : Seq(Texts), bind : STRING, file : BOOLEAN]

\* What the caller passes as v: a pointer to a struct, any other pointer (the
\* nil one included), or no pointer.
Targets == {"struct", "pointer", "value"}

ASSUME BindingAssumption ==
    /\ ArrayLen \in Nat
    /\ "" \in Texts /\ Bad \subseteq Texts \ {""}
    /\ \A s \in Structs : s \in Seq(Fields)
    /\ \A f \in Forms : \A k \in DOMAIN f : f[k] \in Seq(Texts) \ {<<>>}

VARIABLES
    methods,   \* URLValueBinder.BindMethods
    kindOf,    \* "form" or "multipart": the binder called
    target,    \* what v is
    st,        \* the struct type
    form,      \* url.Values, or multipart.Form.Value
    files,     \* multipart.Form.File
    i,         \* the loop variable, from 1
    val,       \* the struct: each field a sequence of elements
    phase,     \* "idle", "call", "bind" (the loop), "done"
    result     \* "ok" (nil), "error" or "panic"

input == <<kindOf, target, st, form, files>>
vars  == <<methods, input, i, val, phase, result>>

-----------------------------------------------------------------------------
(* bind_value.go.                                                          *)

\* The kind bindSingle sees for a field or for an element of it.
Elem(kind) == CASE kind \in {"array", "slice"} -> "number"
                [] kind \in {"file", "files"}  -> "pointer"
                [] OTHER                       -> kind

ZeroElem(kind) == CASE Elem(kind) = "number" -> "0"
                    [] Elem(kind) = "string" -> ""
                    [] OTHER                 -> "nil"

Zero(kind) == CASE kind = "array"              -> [j \in 1..ArrayLen |-> "0"]
                [] kind \in {"slice", "files"} -> <<>>
                [] OTHER                       -> <<ZeroElem(kind)>>

\* bindSingle: strings take any text; numbers read "" as 0; structs, maps and
\* pointers go through JSON, which refuses ""; other kinds are unknown.
Parses(kind, text) ==
    CASE Elem(kind) = "string" -> TRUE
      [] Elem(kind) = "number" -> text \notin Bad
      [] Elem(kind) = "other"  -> FALSE
      [] OTHER                 -> text \notin Bad \cup {""}

Parsed(kind, text) ==
    IF Elem(kind) = "number" /\ text = "" THEN "0" ELSE text

\* bindSingle: how setting field f, or an element of it, to text ends.  The
\* setters of reflect and Interface() refuse a field that is not exported; the
\* JSON kinds ask for the interface first, the others parse first.
bindSingle(f, text) ==
    CASE Elem(f.kind) = "other"          -> "error"
      [] /\ Elem(f.kind) \in {"time", "pointer"}
         /\ ~f.exported                  -> "panic"
      [] OTHER -> IF ~Parses(f.kind, text) THEN "error"
                  ELSE IF f.exported THEN "ok" ELSE "panic"

\* Mutant: only the first element is set.
bindArrayFirst(f, a, vs) ==
    [val |-> [j \in 1..Len(a) |->
                IF j = 1 /\ vs # <<>> /\ Parses(f.kind, vs[1])
                  THEN Parsed(f.kind, vs[1]) ELSE a[j]],
     out |-> "ok"]

\* bindArray sets the elements one after the other and ends at the first that
\* cannot be set; field.Index(i) beyond the end panics.
bindArray(f, a, vs) ==
    LET ends(j) == IF j > Len(a) THEN "panic" ELSE bindSingle(f, vs[j])
        stops   == {j \in 1..Len(vs) : ends(j) # "ok"}
        last    == IF stops = {} THEN Len(vs) ELSE Min(stops) - 1
    IN  [val |-> [j \in 1..Len(a) |->
                    IF j <= last THEN Parsed(f.kind, vs[j]) ELSE a[j]],
         out |-> IF stops = {} THEN "ok" ELSE ends(Min(stops))]

\* The elements of a new slice can be set, whatever the field is.
Element(f) == [f EXCEPT !.exported = TRUE]

\* Mutant: the new slice has a fixed length.
bindSliceFixed(f, old, vs) ==
    LET r == bindArray(Element(f), [j \in 1..ArrayLen |-> ZeroElem(f.kind)], vs)
    IN  IF r.out = "ok" THEN r ELSE [r EXCEPT !.val = old]

\* bindSlice fills a new slice of the right length and then stores it.
bindSlice(f, old, vs) ==
    LET r == bindArray(Element(f), [j \in 1..Len(vs) |-> ZeroElem(f.kind)], vs)
    IN  IF r.out # "ok" THEN [val |-> old, out |-> r.out]
        ELSE IF f.exported THEN r
        ELSE [val |-> old, out |-> "panic"]

\* bind(field, formValues): the field's new value and how the call ends.
bind(f, old, vs) ==
    IF f.kind = "array" THEN bindArray(f, old, vs)
    ELSE IF f.kind \in {"slice", "files"} THEN bindSlice(f, old, vs)
    ELSE IF vs = <<>> THEN [val |-> old, out |-> "ok"]
    ELSE IF bindSingle(f, vs[1]) = "ok"
      THEN [val |-> <<Parsed(f.kind, vs[1])>>, out |-> "ok"]
    ELSE [val |-> old, out |-> bindSingle(f, vs[1])]

\* Int64TimeBinder and FormatTimeBinder, the custom methods of the package.
\* They begin with value.Interface().
Method(f, old, vs) ==
    IF ~f.exported THEN [val |-> old, out |-> "panic"]
    ELSE IF f.kind = "time" /\ vs # <<>> /\ vs[1] \notin Bad \cup {""}
      THEN [val |-> <<vs[1]>>, out |-> "ok"]
    ELSE [val |-> old, out |-> "error"]

\* A *multipart.FileHeader; form.File has no nil ones to filter out.
Upload == "upload"

\* bindFile: the first upload, or all of them.
bindFile(kind, n) ==
    IF kind = "file" THEN <<Upload>> ELSE [j \in 1..n |-> Upload]

-----------------------------------------------------------------------------
(* The loops of from.go.                                                   *)

Field   == st[i]
Value   == val[i]
Exists  == Field.key \in DOMAIN form
Values  == IF Exists THEN form[Field.key] ELSE <<>>
Default == Field.def # <<>>
AtField(k) ==
    /\ phase = "bind" /\ kindOf = k
    /\ i <= Len(st) /\ Field.key # Pass

\* The loop goes on with the next field, or the function returns.
Continue(v) ==
    /\ val' = [val EXCEPT ![i] = v]
    /\ i' = i + 1
    /\ UNCHANGED <<phase, result>>

Stop(v, out) ==
    /\ val' = [val EXCEPT ![i] = v]
    /\ phase' = "done"
    /\ result' = out
    /\ UNCHANGED i

ContinueOrStop(r) ==
    IF r.out = "ok" THEN Continue(r.val) ELSE Stop(r.val, r.out)

SkipField ==
    /\ phase = "bind" /\ i <= Len(st) /\ Field.key = Pass
    /\ Continue(Value)
    /\ UNCHANGED <<methods, input>>

\* After the last field: return nil.
EndLoop ==
    /\ phase = "bind" /\ i > Len(st)
    /\ phase' = "done"
    /\ result' = "ok"
    /\ UNCHANGED <<methods, input, i, val>>

\* BindForm asks for the bind tag unless it has bound a default.
Custom == Field.bind # NoTag /\ (Exists \/ ~Default)

FormCustom ==
    /\ AtField("form")
    /\ Custom
    /\ IF Field.bind \in methods
         THEN ContinueOrStop(Method(Field, Value, Values))
         ELSE Stop(Value, "error")
    /\ UNCHANGED <<methods, input>>

\* What BindForm does first when the key is missing and there is a default.
Defaulted ==
    IF Default /\ ~Exists THEN bind(Field, Value, Field.def)
                          ELSE [val |-> Value, out |-> "ok"]

\* Any other field: the default if the key is missing, then bind again with
\* the values of the form (none for a missing key).  When that fails, the
\* default is bound and the function returns whatever binding it gave.
FormBind ==
    /\ AtField("form")
    /\ ~Custom
    /\ LET r == bind(Field, Defaulted.val, Values)
           d == bind(Field, r.val, Field.def)
       IN  IF Defaulted.out # "ok" THEN Stop(Defaulted.val, Defaulted.out)
           ELSE IF r.out = "error" /\ Default THEN Stop(d.val, d.out)
           ELSE ContinueOrStop(r)
    /\ UNCHANGED <<methods, input>>

\* BindMultipartForm, the key in the form, a bind tag: an unknown method is
\* passed over.
MultipartCustom ==
    /\ AtField("multipart")
    /\ Exists /\ Field.bind # NoTag
    /\ IF Field.bind \in methods
         THEN ContinueOrStop(Method(Field, Value, Values))
         ELSE Continue(Value)
    /\ UNCHANGED <<methods, input>>

\* Mutant: the function returns after it has bound a default.
MultipartValueReturns ==
    /\ AtField("multipart")
    /\ Exists /\ Field.bind = NoTag
    /\ LET r == bind(Field, Value, Values)
           d == bind(Field, r.val, Field.def)
       IN  CASE r.out = "error" /\ Default  -> Stop(d.val, d.out)
             [] r.out = "error" /\ ~Default -> Continue(r.val)
             [] OTHER                       -> ContinueOrStop(r)
    /\ UNCHANGED <<methods, input>>

\* The key in the form, no bind tag: the default replaces a value that does
\* not parse; without one the error is dropped.
MultipartValue ==
    /\ AtField("multipart")
    /\ Exists /\ Field.bind = NoTag
    /\ LET r == bind(Field, Value, Values)
           d == bind(Field, r.val, Field.def)
       IN  CASE r.out = "error" /\ Default  -> ContinueOrStop(d)
             [] r.out = "error" /\ ~Default -> Continue(r.val)
             [] OTHER                       -> ContinueOrStop(r)
    /\ UNCHANGED <<methods, input>>

\* The uploads a file field f gets: only a field with a file tag, and those
\* under the name of the field, whatever the tag says.
HasUpload(f) ==
    f.kind \in {"file", "files"} /\ f.file /\ f.name \in DOMAIN files

\* The key not in the form: the default, then Interface() to see whether it is a
\* file field, then the uploads of one.
MultipartMissing ==
    /\ AtField("multipart")
    /\ ~Exists
    /\ IF Defaulted.out # "ok" THEN Stop(Defaulted.val, Defaulted.out)
       ELSE IF ~Field.exported  THEN Stop(Defaulted.val, "panic")
       ELSE Continue(IF HasUpload(Field)
                       THEN bindFile(Field.kind, files[Field.name])
                       ELSE Defaulted.val)
    /\ UNCHANGED <<methods, input>>

-----------------------------------------------------------------------------
(* Calls.                                                                  *)

\* AddBindMethod; a name that is taken is refused and changes nothing.
AddBindMethod(name) ==
    /\ phase = "idle"
    /\ name \notin methods
    /\ methods' = methods \cup {name}
    /\ UNCHANGED <<input, i, val, phase, result>>

\* A handler binds the request to v, a new struct if v points to one.
Begin ==
    /\ phase = "idle"
    /\ kindOf' \in Binders
    /\ target' \in Targets
    /\ st' \in IF target' = "struct" THEN Structs ELSE {<<>>}
    /\ form' \in Forms
    /\ files' \in IF kindOf' = "multipart" THEN Uploads ELSE {<<>>}
    /\ i' = 1
    /\ val' = [j \in 1..Len(st') |-> Zero(st'[j].kind)]
    /\ phase' = "call"
    /\ result' = "ok"
    /\ UNCHANGED methods

\* ParseForm failed, there is no multipart form, or v is not a pointer.
Refuse ==
    /\ phase = "call"
    /\ phase' = "done"
    /\ result' = "error"
    /\ UNCHANGED <<methods, input, i, val>>

\* NumField of what v points to: the loop over the fields of a struct begins,
\* anything else panics.
Enter ==
    /\ phase = "call" /\ target = "struct"
    /\ phase' = "bind"
    /\ UNCHANGED <<methods, input, i, val, result>>

NoStruct ==
    /\ phase = "call" /\ target = "pointer"
    /\ phase' = "done"
    /\ result' = "panic"
    /\ UNCHANGED <<methods, input, i, val>>

\* The handler is done with the struct.
Return ==
    /\ phase = "done"
    /\ kindOf' = "form" /\ target' = "struct" /\ st' = <<>> /\ form' = <<>> /\ files' = <<>>
    /\ i' = 1 /\ val' = <<>> /\ phase' = "idle" /\ result' = "ok"
    /\ UNCHANGED methods

Init ==
    /\ methods = {}
    /\ kindOf = "form" /\ target = "struct" /\ st = <<>> /\ form = <<>> /\ files = <<>>
    /\ i = 1 /\ val = <<>> /\ phase = "idle" /\ result = "ok"

Next ==
    \/ \E name \in Methods : AddBindMethod(name)
    \/ Begin \/ Refuse \/ Enter \/ NoStruct
    \/ SkipField \/ EndLoop
    \/ FormCustom \/ FormBind
    \/ MultipartCustom \/ MultipartValue \/ MultipartMissing
    \/ Return

Spec == Init /\ [][Next]_vars

-----------------------------------------------------------------------------
(* Properties.                                                             *)

\* The values of vs a field of kind reads: all of them in a list, the first in
\* a scalar.
Read(kind, vs) ==
    1..(IF kind \in {"array", "slice", "files"} THEN Len(vs) ELSE 1)

\* A field of kind that holds v shows the texts vs.
Shows(kind, v, vs) ==
    /\ \A j \in Read(kind, vs) : j \in DOMAIN v /\ v[j] = Parsed(kind, vs[j])
    /\ kind \in {"slice", "files"} => Len(v) = Len(vs)

Holds(k, vs) == Shows(st[k].kind, val[k], vs)
IsZero(k)    == val[k] = Zero(st[k].kind)

Present(k)    == st[k].key \in DOMAIN form
Given(k)      == form[st[k].key]
HasDefault(k) == st[k].def # <<>>
Tagged(k)     == st[k].bind # NoTag
BadValue(k)   == \E j \in Read(st[k].kind, Given(k)) :
                     ~Parses(st[k].kind, Given(k)[j])
Returned(k, out) == phase = "done" /\ kindOf = k /\ result = out

\* What BindForm makes of field k when the loop passes it.  A field left out is
\* zero.  A bind tag means that its method is known and made the value of what
\* the form has; it is not asked when the key is missing and there is a default.
\* Any other field holds the values of its key or, when the key is missing, its
\* default (a slice is emptied again by the second bind) or its zero value.
FormBound(k) ==
    IF st[k].key = Pass THEN IsZero(k)
    ELSE IF Tagged(k) /\ (Present(k) \/ ~HasDefault(k))
      THEN st[k].bind \in methods /\ Present(k) /\ val[k] = <<Given(k)[1]>>
    ELSE IF Present(k) THEN Holds(k, Given(k))
    ELSE IF HasDefault(k) /\ st[k].kind \notin {"slice", "files"}
      THEN Holds(k, st[k].def)
    ELSE IsZero(k)

\* The zero value of field k, or of an array the elements before the value that
\* did not parse.
Partial(k) ==
    IF st[k].kind # "array" THEN IsZero(k)
    ELSE \A j \in DOMAIN val[k] :
            val[k][j] = IF /\ j \in DOMAIN Given(k)
                           /\ \A n \in 1..j : Parses("array", Given(k)[n])
                          THEN Parsed("array", Given(k)[j]) ELSE "0"

\* What BindMultipartForm makes of field k when the loop passes it.  In the form
\* and with a bind tag, a field is what its method made of it, and is passed over
\* when the method is not known.  Without a tag it holds its values; if one does
\* not parse, its default, and without a default the error is dropped and the
\* field is left as it was.  Not in the form, it has its uploads, its default or
\* its zero value, whatever its bind tag.
PartBound(k) ==
    IF st[k].key = Pass THEN IsZero(k)
    ELSE IF Present(k) /\ Tagged(k)
      THEN IF st[k].bind \in methods THEN val[k] = <<Given(k)[1]>> ELSE IsZero(k)
    ELSE IF Present(k) /\ ~BadValue(k) THEN Holds(k, Given(k))
    ELSE IF Present(k) /\ ~HasDefault(k) THEN Partial(k)
    ELSE IF ~Present(k) /\ HasUpload(st[k])
      THEN val[k] = bindFile(st[k].kind, files[st[k].name])
    ELSE IF HasDefault(k) THEN Holds(k, st[k].def)
    ELSE IsZero(k)

\* What a nil from BindForm means.  Every field the loop has passed is bound as
\* FormBound says.  The loop may have stopped before the end: then the value of
\* the field it stopped at did not parse, its default is in its place, and
\* BindForm has returned the nil of that default with all later fields unbound.
BoundOnSuccess ==
    Returned("form", "ok") => \A k \in DOMAIN st :
        IF k < i THEN FormBound(k)
        ELSE IF k = i
          THEN Present(k) /\ BadValue(k) /\ HasDefault(k) /\ Holds(k, st[k].def)
        ELSE IsZero(k)

\* What a nil from BindMultipartForm means: the loop has passed every field, and
\* each is as PartBound says.  So nil does not mean that the request was bound: a
\* value that does not parse and has no default, and a field whose method nobody
\* added, are left out without an error.
MultipartBound ==
    Returned("multipart", "ok") => i > Len(st) /\ \A k \in DOMAIN st : PartBound(k)

\* The binders panic in three cases and no other: v points to no struct; a field
\* that is not exported is to be set or, in a multipart form, is missing from
\* it; an array is given more values, or defaults, than it has elements.
PanicsKnown ==
    result = "panic" =>
        \/ target = "pointer"
        \/ /\ ~Field.exported
           /\ \/ Exists \/ Default \/ kindOf = "multipart"
              \/ Field.bind # NoTag \/ Field.kind \in {"slice", "files"}
        \/ /\ Field.kind = "array"
           /\ Len(Values) > ArrayLen \/ Len(Field.def) > ArrayLen
=============================================================================
