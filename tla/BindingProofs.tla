--------------------------- MODULE BindingProofs ---------------------------
(* Proofs about Binding for every set of struct types, forms and uploads,  *)
(* and for arrays of every length.                                         *)
EXTENDS Binding, FoldProofs

\* The elements of a bound field.
Elems == Texts \cup {"0", "", "nil", Upload}

Lists == {"slice", "files"}

-----------------------------------------------------------------------------
(* bind_value.go.                                                          *)

\* Setting a single value fails only if the text does not parse, and panics only
\* if the field is not exported.
LEMMA BindSingleResult ==
    ASSUME NEW f \in Fields, NEW text
    PROVE  /\ bindSingle(f, text) \in {"ok", "error", "panic"}
           /\ bindSingle(f, text) = "ok" => Parses(f.kind, text) /\ f.exported
           /\ bindSingle(f, text) = "error" => ~Parses(f.kind, text)
           /\ bindSingle(f, text) = "panic" => ~f.exported
<1>1. f.exported \in BOOLEAN
  BY DEF Fields
<1>2. CASE Elem(f.kind) = "other"
  BY <1>2 DEF bindSingle, Parses
<1>3. CASE Elem(f.kind) # "other"
  BY <1>1, <1>3 DEF bindSingle
<1>4. QED
  BY <1>2, <1>3

\* The texts vs that bindArray was given are in the array v, in order, and the
\* elements after them are those of a.
Filled(kind, a, v, vs) ==
    \A j \in 1..Len(a) :
        v[j] = IF j <= Len(vs) THEN Parsed(kind, vs[j]) ELSE a[j]

\* So are the texts before the first that does not parse.
Stopped(kind, a, v, vs) ==
    \E m \in 1..Len(vs) :
        /\ m <= Len(a) /\ ~Parses(kind, vs[m])
        /\ \A j \in 1..(m - 1) : Parses(kind, vs[j])
        /\ \A j \in 1..Len(a) :
              v[j] = IF j < m THEN Parsed(kind, vs[j]) ELSE a[j]

\* bindArray keeps the length; it ends well only if every value fits and
\* parses, with an error only at a value that does not parse, with a panic only
\* if there are more values than elements or the field is not exported.
LEMMA BindArrayResult ==
    ASSUME NEW f \in Fields, NEW n \in Nat, NEW a \in [1..n -> Elems],
           NEW vs \in Seq(Texts)
    PROVE  LET r == bindArray(f, a, vs)
           IN  /\ r.val \in [1..n -> Elems]
               /\ r.out \in {"ok", "error", "panic"}
               /\ r.out = "ok" =>
                     /\ Len(vs) <= n /\ Filled(f.kind, a, r.val, vs)
                     /\ \A j \in 1..Len(vs) : Parses(f.kind, vs[j])
               /\ r.out = "error" => Stopped(f.kind, a, r.val, vs)
               /\ r.out = "panic" =>
                     Len(vs) > n \/ (~f.exported /\ Len(vs) > 0)
<1> DEFINE ends(j) == IF j > Len(a) THEN "panic" ELSE bindSingle(f, vs[j])
           stops   == {j \in 1..Len(vs) : ends(j) # "ok"}
           last    == IF stops = {} THEN Len(vs) ELSE Min(stops) - 1
           v       == [j \in 1..Len(a) |->
                         IF j <= last THEN Parsed(f.kind, vs[j]) ELSE a[j]]
           out     == IF stops = {} THEN "ok" ELSE ends(Min(stops))
<1>1. bindArray(f, a, vs) = [val |-> v, out |-> out]
  BY Zenon DEF bindArray
<1>2. Len(a) = n /\ Len(vs) \in Nat /\ DOMAIN vs = 1..Len(vs)
  OBVIOUS
<1>3. stops # {} => /\ Min(stops) \in stops
                    /\ \A j \in stops : Min(stops) <= j
  <2>1. stops \in SUBSET Nat
    BY <1>2
  <2> HIDE DEF stops
  <2>2. QED
    BY <2>1, MinIsLeast
<1>4. last \in 0..Len(vs)
  BY <1>2, <1>3
<1>5. v \in [1..n -> Elems]
  <2>1. \A j \in 1..Len(vs) : Parsed(f.kind, vs[j]) \in Elems
    <3>1. \A j \in 1..Len(vs) : vs[j] \in Texts
      BY <1>2
    <3>2. QED
      BY <3>1, Zenon DEF Parsed, Elems
  <2>2. last \in Int /\ \A j \in 1..n : j <= last => j \in 1..Len(vs)
    <3> HIDE DEF last
    <3>1. QED
      BY <1>2, <1>4
  <2> HIDE DEF last
  <2>3. QED
    BY <1>2, <2>1, <2>2
<1>6. \A j \in 1..Len(vs) :
         /\ ends(j) \in {"ok", "error", "panic"}
         /\ ends(j) = "ok" => j <= n /\ Parses(f.kind, vs[j])
         /\ ends(j) = "error" => j <= n /\ ~Parses(f.kind, vs[j])
         /\ ends(j) = "panic" => j > n \/ ~f.exported
  BY <1>2, BindSingleResult
<1> HIDE DEF ends
<1>7. CASE stops = {}
  <2>1. out = "ok" /\ last = Len(vs)
    BY <1>7
  <2>2. \A j \in 1..Len(vs) : j <= n /\ Parses(f.kind, vs[j])
    BY <1>6, <1>7
  <2>3. Len(vs) <= n
    BY <1>2, <2>2
  <2>4. Filled(f.kind, a, v, vs)
    BY <1>2, <2>1 DEF Filled
  <2> HIDE DEF v, out
  <2>5. QED
    BY <1>1, <1>5, <2>1, <2>2, <2>3, <2>4
<1>8. CASE stops # {}
  <2>1. PICK m : m = Min(stops)
    OBVIOUS
  <2>2. /\ m \in 1..Len(vs) /\ ends(m) # "ok"
        /\ \A j \in 1..Len(vs) : ends(j) # "ok" => m <= j
        /\ last = m - 1 /\ out = ends(m)
    BY <1>3, <1>8, <2>1
  <2>3. \A j \in 1..(m - 1) : Parses(f.kind, vs[j])
    <3>1. \A j \in 1..(m - 1) : j \in 1..Len(vs) /\ ~(m <= j)
      BY <2>2
    <3>2. QED
      BY <1>6, <2>2, <3>1
  <2>4. \A j \in 1..Len(a) :
           v[j] = IF j < m THEN Parsed(f.kind, vs[j]) ELSE a[j]
    <3> HIDE DEF last
    <3>1. \A j \in 1..Len(a) : j <= last <=> j < m
      BY <1>2, <2>2
    <3>2. QED
      BY <3>1
  <2> HIDE DEF v, out
  <2>5. out = "error" => Stopped(f.kind, a, v, vs)
    <3> SUFFICES ASSUME out = "error" PROVE Stopped(f.kind, a, v, vs)
      OBVIOUS
    <3>1. m <= Len(a) /\ ~Parses(f.kind, vs[m])
      BY <1>2, <1>6, <2>2
    <3>2. QED
      BY <2>2, <2>3, <2>4, <3>1 DEF Stopped
  <2>6. out = "panic" => Len(vs) > n \/ (~f.exported /\ Len(vs) > 0)
    <3>1. ends(m) = "panic" => m > n \/ ~f.exported
      BY <1>6, <2>2
    <3>2. m > n => Len(vs) > n
      BY <1>2, <2>2
    <3>3. Len(vs) > 0
      BY <1>2, <2>2
    <3>4. QED
      BY <2>2, <3>1, <3>2, <3>3, Zenon
  <2>7. out \in {"error", "panic"}
    BY <1>6, <2>2
  <2>8. QED
    BY <1>1, <1>5, <2>5, <2>6, <2>7
<1>9. QED
  BY <1>7, <1>8

\* bindSlice makes room for every value, so it panics only on a field that is not
\* exported, and stores the new slice only when all of them parse.
LEMMA BindSliceResult ==
    ASSUME NEW f \in Fields, NEW old, NEW vs \in Seq(Texts)
    PROVE  LET r == bindSlice(f, old, vs)
           IN  /\ r.out \in {"ok", "error", "panic"}
               /\ r.out = "ok" =>
                     /\ r.val \in [1..Len(vs) -> Elems]
                     /\ \A j \in 1..Len(vs) : /\ r.val[j] = Parsed(f.kind, vs[j])
                                              /\ Parses(f.kind, vs[j])
               /\ r.out = "error" =>
                     /\ r.val = old
                     /\ \E j \in 1..Len(vs) : ~Parses(f.kind, vs[j])
               /\ r.out = "panic" => ~f.exported
<1> DEFINE g == Element(f)
           a == [j \in 1..Len(vs) |-> ZeroElem(f.kind)]
           r == bindArray(g, a, vs)
<1>1. Len(vs) \in Nat
  OBVIOUS
<1>2. g \in Fields /\ g.kind = f.kind /\ g.exported /\ f.exported \in BOOLEAN
  BY DEF Fields, Element
<1>3. a \in [1..Len(vs) -> Elems] /\ Len(a) = Len(vs)
  <2>1. a \in [1..Len(vs) -> Elems]
    BY DEF ZeroElem, Elems
  <2> HIDE DEF a
  <2>2. QED
    BY <1>1, <2>1
<1> HIDE DEF a, g
<1>4. /\ r.val \in [1..Len(vs) -> Elems]
      /\ r.out \in {"ok", "error"}
      /\ r.out = "ok" =>
            /\ Filled(f.kind, a, r.val, vs)
            /\ \A j \in 1..Len(vs) : Parses(f.kind, vs[j])
      /\ r.out = "error" => Stopped(f.kind, a, r.val, vs)
  <2>1. /\ r.val \in [1..Len(vs) -> Elems]
        /\ r.out \in {"ok", "error", "panic"}
        /\ r.out = "ok" =>
              /\ Filled(g.kind, a, r.val, vs)
              /\ \A j \in 1..Len(vs) : Parses(g.kind, vs[j])
        /\ r.out = "error" => Stopped(g.kind, a, r.val, vs)
        /\ r.out = "panic" =>
              Len(vs) > Len(vs) \/ (~g.exported /\ Len(vs) > 0)
    BY <1>1, <1>2, <1>3, BindArrayResult
  <2>2. r.out # "panic"
    BY <1>1, <1>2, <2>1
  <2> HIDE DEF r
  <2>3. QED
    BY <1>2, <2>1, <2>2, Zenon
<1>5. bindSlice(f, old, vs) =
         IF r.out # "ok" THEN [val |-> old, out |-> r.out]
         ELSE IF f.exported THEN r
         ELSE [val |-> old, out |-> "panic"]
  BY Zenon DEF bindSlice, a, g
<1> HIDE DEF r
<1>6. CASE r.out # "ok"
  <2>1. \E j \in 1..Len(vs) : ~Parses(f.kind, vs[j])
    BY <1>4, <1>6 DEF Stopped
  <2>2. bindSlice(f, old, vs) = [val |-> old, out |-> r.out]
    BY <1>5, <1>6
  <2>3. QED
    BY <1>4, <1>6, <2>1, <2>2
<1>7. CASE r.out = "ok" /\ f.exported
  <2>1. \A j \in 1..Len(vs) : r.val[j] = Parsed(f.kind, vs[j])
    BY <1>1, <1>3, <1>4, <1>7 DEF Filled
  <2>2. QED
    BY <1>4, <1>5, <1>7, <2>1
<1>8. CASE r.out = "ok" /\ ~f.exported
  <2>1. bindSlice(f, old, vs) = [val |-> old, out |-> "panic"]
    BY <1>5, <1>8
  <2>2. QED
    BY <1>8, <2>1
<1>9. QED
  BY <1>6, <1>7, <1>8

\* What a call of bind tells of the value r.val it leaves: the values are in the
\* field when it ends well; an error means that one did not parse, and leaves all
\* but an array alone; without values it leaves every field but a slice alone.
BindOutcome(f, old, vs, r) ==
    /\ f.kind = "array" => r.val \in [1..ArrayLen -> Elems]
    /\ r.out \in {"ok", "error", "panic"}
    /\ r.out = "ok" /\ vs # <<>> =>
          /\ Shows(f.kind, r.val, vs)
          /\ \A j \in Read(f.kind, vs) : Parses(f.kind, vs[j])
    /\ r.out = "error" =>
          /\ vs # <<>>
          /\ \E j \in Read(f.kind, vs) : ~Parses(f.kind, vs[j])
          /\ IF f.kind = "array" THEN Stopped(f.kind, old, r.val, vs)
                                 ELSE r.val = old
    /\ r.out = "panic" =>
          \/ ~f.exported /\ (vs # <<>> \/ f.kind \in Lists)
          \/ f.kind = "array" /\ Len(vs) > ArrayLen
    /\ r.out = "ok" /\ vs = <<>> =>
          r.val = IF f.kind \in Lists THEN <<>> ELSE old

LEMMA BindResult ==
    ASSUME NEW f \in Fields, NEW old, NEW vs \in Seq(Texts),
           f.kind = "array" => old \in [1..ArrayLen -> Elems]
    PROVE  BindOutcome(f, old, vs, bind(f, old, vs))
<1> DEFINE r == bind(f, old, vs)
<1>0. /\ Len(vs) \in Nat /\ DOMAIN vs = 1..Len(vs) /\ ArrayLen \in Nat
      /\ vs = <<>> <=> Len(vs) = 0
  <2>1. ArrayLen \in Nat
    BY BindingAssumption, Zenon
  <2>2. QED
    BY <2>1
<1>1. CASE f.kind = "array"
  <2>1. r = bindArray(f, old, vs)
    BY <1>1 DEF bind
  <2>2. /\ r.val \in [1..ArrayLen -> Elems]
        /\ r.out \in {"ok", "error", "panic"}
        /\ r.out = "ok" =>
              /\ Len(vs) <= ArrayLen /\ Filled(f.kind, old, r.val, vs)
              /\ \A j \in 1..Len(vs) : Parses(f.kind, vs[j])
        /\ r.out = "error" => Stopped(f.kind, old, r.val, vs)
        /\ r.out = "panic" =>
              Len(vs) > ArrayLen \/ (~f.exported /\ Len(vs) > 0)
    BY <1>0, <1>1, <2>1, BindArrayResult
  <2>3. Len(old) = ArrayLen /\ Read(f.kind, vs) = 1..Len(vs)
    BY <1>0, <1>1 DEF Read
  <2> HIDE DEF r
  <2>4. r.out = "ok" => Shows(f.kind, r.val, vs)
    BY <1>0, <1>1, <2>2, <2>3 DEF Filled, Shows
  <2>5. r.out = "error" => /\ Len(vs) # 0
                           /\ \E j \in 1..Len(vs) : ~Parses(f.kind, vs[j])
    BY <1>0, <2>2 DEF Stopped
  <2>6. r.out = "ok" /\ vs = <<>> => r.val = old
    <3> SUFFICES ASSUME r.out = "ok", vs = <<>> PROVE r.val = old
      OBVIOUS
    <3>1. Len(vs) = 0
      OBVIOUS
    <3>2. \A j \in 1..ArrayLen : r.val[j] = old[j]
      BY <1>0, <2>2, <2>3, <3>1 DEF Filled
    <3>3. /\ r.val = [j \in 1..ArrayLen |-> r.val[j]]
          /\ old = [j \in 1..ArrayLen |-> old[j]]
      BY <1>1, <2>2
    <3>4. [j \in 1..ArrayLen |-> r.val[j]] = [j \in 1..ArrayLen |-> old[j]]
      BY <3>2
    <3>5. QED
      BY <3>3, <3>4, Zenon
  <2>7. f.kind \notin Lists
    BY <1>1 DEF Lists
  <2>8. BindOutcome(f, old, vs, r)
    BY <1>0, <1>1, <2>2, <2>3, <2>4, <2>5, <2>6, <2>7 DEF BindOutcome
  <2>9. QED
    BY <2>8 DEF r
<1>2. CASE f.kind \in Lists
  <2>1. r = bindSlice(f, old, vs)
    BY <1>2 DEF bind, Lists
  <2>2. /\ r.out \in {"ok", "error", "panic"}
        /\ r.out = "ok" =>
              /\ r.val \in [1..Len(vs) -> Elems]
              /\ \A j \in 1..Len(vs) : /\ r.val[j] = Parsed(f.kind, vs[j])
                                       /\ Parses(f.kind, vs[j])
        /\ r.out = "error" =>
              r.val = old /\ \E j \in 1..Len(vs) : ~Parses(f.kind, vs[j])
        /\ r.out = "panic" => ~f.exported
    BY <2>1, BindSliceResult
  <2> HIDE DEF r
  <2>3. r.out = "ok" => Len(r.val) = Len(vs)
    BY <1>0, <2>2
  <2>4. Read(f.kind, vs) = 1..Len(vs) /\ f.kind # "array"
    BY <1>2 DEF Read, Lists
  <2>5. r.out = "ok" => Shows(f.kind, r.val, vs)
    BY <1>0, <2>2, <2>3, <2>4 DEF Shows
  <2>6. r.out = "ok" /\ vs = <<>> => r.val = <<>>
    <3> SUFFICES ASSUME r.out = "ok", vs = <<>> PROVE r.val = <<>>
      OBVIOUS
    <3>1. r.val \in Seq(Elems) /\ Len(r.val) = 0
      BY <1>0, <2>2, <2>3
    <3>2. QED
      BY <3>1
  <2>7. r.out = "error" => vs # <<>>
    BY <1>0, <2>2
  <2>8. BindOutcome(f, old, vs, r)
    BY <1>2, <2>2, <2>4, <2>5, <2>6, <2>7 DEF BindOutcome
  <2>9. QED
    BY <2>8 DEF r
<1>3. CASE f.kind \notin {"array"} \cup Lists
  <2>1. /\ Read(f.kind, vs) = {1}
        /\ f.kind \notin {"array", "slice", "files"}
    BY <1>3 DEF Read, Lists
  <2>2. CASE vs = <<>>
    <3>1. r = [val |-> old, out |-> "ok"]
      BY <2>1, <2>2 DEF bind
    <3>2. QED
      BY <1>3, <2>2, <3>1 DEF BindOutcome
  <2>3. CASE vs # <<>> /\ bindSingle(f, vs[1]) = "ok"
    <3>1. r = [val |-> <<Parsed(f.kind, vs[1])>>, out |-> "ok"]
      BY <2>1, <2>3 DEF bind
    <3>2. Shows(f.kind, <<Parsed(f.kind, vs[1])>>, vs)
      BY <2>1 DEF Shows
    <3>3. Parses(f.kind, vs[1])
      BY <2>3, BindSingleResult
    <3>4. QED
      BY <1>3, <2>1, <2>3, <3>1, <3>2, <3>3 DEF BindOutcome
  <2>4. CASE vs # <<>> /\ bindSingle(f, vs[1]) # "ok"
    <3>1. r = [val |-> old, out |-> bindSingle(f, vs[1])]
      BY <2>1, <2>4 DEF bind
    <3>2. /\ bindSingle(f, vs[1]) \in {"error", "panic"}
          /\ bindSingle(f, vs[1]) = "error" => ~Parses(f.kind, vs[1])
          /\ bindSingle(f, vs[1]) = "panic" => ~f.exported
      BY <2>4, BindSingleResult
    <3>3. r.val = old /\ r.out = bindSingle(f, vs[1])
      BY <3>1
    <3> HIDE DEF r
    <3>4. BindOutcome(f, old, vs, r)
      BY <1>3, <2>1, <2>4, <3>2, <3>3 DEF BindOutcome
    <3>5. QED
      BY <3>4 DEF r
  <2>5. QED
    BY <2>2, <2>3, <2>4
<1>4. QED
  BY <1>1, <1>2, <1>3

-----------------------------------------------------------------------------
(* The loops of from.go.                                                   *)

\* What the binder called has to make of field k.
Done(k) == IF kindOf = "form" THEN FormBound(k) ELSE PartBound(k)

\* The state of a call: the loop variable, the struct with one value per field,
\* and results only at the end.
Loop ==
    /\ phase \in {"idle", "call", "bind", "done"} /\ kindOf \in Binders
    /\ st \in Seq(Fields)
    /\ \A k \in DOMAIN form : form[k] \in Seq(Texts) \ {<<>>}
    /\ i \in Nat \ {0} /\ DOMAIN val = DOMAIN st
    /\ phase # "done" => result = "ok"

\* The fields the loop has passed are bound, those ahead are zero.
Progress ==
    phase \in {"call", "bind"} =>
        \A k \in DOMAIN st : IF k < i THEN Done(k) ELSE IsZero(k)

BindInv == Loop /\ Progress /\ BoundOnSuccess /\ MultipartBound /\ PanicsKnown

\* Whether a field is bound depends on its value and on nothing that changes
\* while the loop runs.
LEMMA DoneKept ==
    ASSUME NEW k, UNCHANGED <<methods, input>>, val'[k] = val[k]
    PROVE  /\ Done(k)' <=> Done(k)
           /\ FormBound(k)' <=> FormBound(k)
           /\ PartBound(k)' <=> PartBound(k)
           /\ IsZero(k)' <=> IsZero(k)
<1>1. /\ methods' = methods /\ st' = st /\ form' = form /\ files' = files
      /\ kindOf' = kindOf
  BY DEF input
<1>2. /\ IsZero(k)' <=> IsZero(k)
      /\ Present(k)' <=> Present(k)
      /\ Given(k)' = Given(k)
      /\ HasDefault(k)' <=> HasDefault(k)
      /\ Tagged(k)' <=> Tagged(k)
      /\ BadValue(k)' <=> BadValue(k)
  BY <1>1 DEF IsZero, Present, Given, HasDefault, Tagged, BadValue
<1>3. ASSUME NEW vs PROVE Holds(k, vs)' <=> Holds(k, vs)
  BY <1>1 DEF Holds
<1>4. Holds(k, Given(k))' <=> Holds(k, Given(k))
  BY <1>1, <1>2 DEF Holds
<1>5. Holds(k, st[k].def)' <=> Holds(k, st[k].def)
  BY <1>1 DEF Holds
<1>6. Partial(k)' <=> Partial(k)
  BY <1>1, <1>2 DEF Partial
<1>7. HasUpload(st[k])' <=> HasUpload(st[k])
  BY <1>1 DEF HasUpload
<1>8. FormBound(k)' <=> FormBound(k)
  BY <1>1, <1>2, <1>4, <1>5 DEF FormBound
<1>9. PartBound(k)' <=> PartBound(k)
  BY <1>1, <1>2, <1>4, <1>5, <1>6, <1>7 DEF PartBound
<1>10. QED
  BY <1>1, <1>2, <1>8, <1>9 DEF Done

\* Going on with the next field, when the field just bound is as it should be.
LEMMA ContinueStep ==
    ASSUME BindInv, phase = "bind", i <= Len(st), NEW v, Continue(v),
           UNCHANGED <<methods, input>>,
           NEW n, n = i, Done(n)'
    PROVE  BindInv'
<1>1. /\ i \in DOMAIN st /\ i \in Nat \ {0} /\ DOMAIN st \subseteq Nat
      /\ i' = i + 1 /\ phase' = "bind" /\ result' = "ok"
      /\ st' = st /\ form' = form /\ kindOf' = kindOf
      /\ DOMAIN val' = DOMAIN val
      /\ \A k \in DOMAIN st : k # i => val'[k] = val[k]
  <2>1. st \in Seq(Fields) /\ i \in Nat \ {0} /\ DOMAIN val = DOMAIN st
        /\ result = "ok"
    BY DEF BindInv, Loop
  <2>2. i \in DOMAIN st /\ DOMAIN st \subseteq Nat
    BY <2>1
  <2>3. QED
    BY <2>1, <2>2 DEF Continue, input
<1>2. Loop'
  BY <1>1 DEF BindInv, Loop
<1>3. Progress'
  <2> SUFFICES ASSUME NEW k \in DOMAIN st
               PROVE  IF k < i + 1 THEN Done(k)' ELSE IsZero(k)'
    BY <1>1 DEF Progress
  <2>1. CASE k = i
    BY <1>1, <2>1
  <2>2. CASE k # i
    <3>1. val'[k] = val[k] /\ (k < i + 1 <=> k < i)
      BY <1>1, <2>2
    <3>2. (Done(k)' <=> Done(k)) /\ (IsZero(k)' <=> IsZero(k))
      BY <3>1, DoneKept
    <3>3. IF k < i THEN Done(k) ELSE IsZero(k)
      BY DEF BindInv, Progress
    <3>4. QED
      BY <3>1, <3>2, <3>3
  <2>3. QED
    BY <2>1, <2>2
<1>4. BoundOnSuccess' /\ MultipartBound' /\ PanicsKnown'
  BY <1>1 DEF BoundOnSuccess, MultipartBound, Returned, PanicsKnown
<1>5. QED
  BY <1>2, <1>3, <1>4 DEF BindInv

\* The reasons for which the loop panics at the field at hand.
Cause ==
    \/ /\ ~Field.exported
       /\ \/ Exists \/ Default \/ kindOf = "multipart"
          \/ Field.bind # NoTag \/ Field.kind \in {"slice", "files"}
    \/ /\ Field.kind = "array"
       /\ Len(Values) > ArrayLen \/ Len(Field.def) > ArrayLen

\* Returning in the middle of the loop: with an error, with a panic for one of
\* these reasons, or after the default of a form field replaced a bad value.
LEMMA StopStep ==
    ASSUME BindInv, phase = "bind", i <= Len(st), NEW v, NEW out, Stop(v, out),
           UNCHANGED <<methods, input>>, NEW n, n = i,
           out = "ok" => /\ kindOf = "form" /\ Present(n) /\ BadValue(n)
                         /\ HasDefault(n) /\ Shows(st[n].kind, v, st[n].def),
           out = "panic" => Cause
    PROVE  BindInv'
<1>1. /\ phase' = "done" /\ result' = out /\ i' = i
      /\ st' = st /\ form' = form /\ kindOf' = kindOf
      /\ st \in Seq(Fields) /\ i \in DOMAIN st /\ DOMAIN st = DOMAIN val
      /\ DOMAIN val' = DOMAIN val
      /\ val'[i] = v /\ \A k \in DOMAIN st : k # i => val'[k] = val[k]
  <2>1. st \in Seq(Fields) /\ i \in Nat \ {0} /\ DOMAIN val = DOMAIN st
    BY DEF BindInv, Loop
  <2>2. i \in DOMAIN st
    BY <2>1
  <2>3. QED
    BY <2>1, <2>2 DEF Stop, input
<1>2. Loop'
  BY <1>1 DEF BindInv, Loop
<1>3. Progress'
  BY <1>1 DEF Progress
<1>4. ASSUME out = "ok", NEW k \in DOMAIN st
      PROVE  IF k < i THEN FormBound(k)'
             ELSE IF k = i
               THEN (Present(k) /\ BadValue(k) /\ HasDefault(k)
                       /\ Holds(k, st[k].def))'
             ELSE IsZero(k)'
  <2>1. CASE k = i
    <3>1. i \in Nat
      BY DEF BindInv, Loop
    <3>2. /\ Present(k)' <=> Present(k)
          /\ BadValue(k)' <=> BadValue(k)
          /\ HasDefault(k)' <=> HasDefault(k)
      BY <1>1 DEF Present, BadValue, HasDefault, Given
    <3>3. Holds(k, st[k].def)'
      BY <1>1, <1>4, <2>1 DEF Holds
    <3>4. QED
      BY <1>4, <2>1, <3>1, <3>2, <3>3
  <2>2. CASE k # i
    <3>1. /\ FormBound(k)' <=> FormBound(k)
          /\ IsZero(k)' <=> IsZero(k)
      BY <1>1, <2>2, DoneKept
    <3>2. IF k < i THEN FormBound(k) ELSE IsZero(k)
      BY <1>4 DEF BindInv, Progress, Done
    <3>3. QED
      BY <2>2, <3>1, <3>2
  <2>3. QED
    BY <2>1, <2>2
<1>5. BoundOnSuccess'
  BY <1>1, <1>4 DEF BoundOnSuccess, Returned
<1>6. MultipartBound'
  BY <1>1 DEF MultipartBound, Returned
<1>7. PanicsKnown'
  BY <1>1 DEF PanicsKnown, Cause, Field, Values, Exists, Default
<1>8. QED
  BY <1>2, <1>3, <1>5, <1>6, <1>7 DEF BindInv

\* What the loop knows of the field it is at.
LEMMA AtFieldFacts ==
    ASSUME BindInv, NEW b, AtField(b)
    PROVE  /\ phase = "bind" /\ i <= Len(st) /\ kindOf = b
           /\ i \in DOMAIN st /\ i \in DOMAIN val
           /\ Field \in Fields /\ Field.kind \in Kinds
           /\ Field.exported \in BOOLEAN /\ Field.def \in Seq(Texts)
           /\ Field.key # Pass
           /\ Values \in Seq(Texts) /\ (Values = <<>> <=> ~Exists)
           /\ Value = Zero(Field.kind)
           /\ Field.kind = "array" => Value \in [1..ArrayLen -> Elems]
<1>1. /\ phase = "bind" /\ i <= Len(st) /\ kindOf = b
      /\ i \in DOMAIN st /\ i \in DOMAIN val /\ st[i] \in Fields
  BY DEF AtField, BindInv, Loop
<1>2. /\ st[i].kind \in Kinds /\ st[i].exported \in BOOLEAN
      /\ st[i].def \in Seq(Texts) /\ Field.key # Pass
  BY <1>1 DEF Fields, AtField
<1>3. Values \in Seq(Texts) /\ (Values = <<>> <=> ~Exists)
  BY DEF BindInv, Loop, Values, Exists
<1>4. val[i] = Zero(st[i].kind)
  <2>1. i \in Nat
    BY DEF BindInv, Loop
  <2>2. QED
    BY <1>1, <2>1 DEF BindInv, Progress, IsZero
<1>5. st[i].kind = "array" => val[i] \in [1..ArrayLen -> Elems]
  BY <1>4 DEF Zero, Elems
<1>6. QED
  BY <1>1, <1>2, <1>3, <1>4, <1>5 DEF Field, Value

\* Binding the default of the field at hand because its key is missing.
LEMMA DefaultedFacts ==
    ASSUME BindInv, NEW b, AtField(b)
    PROVE  /\ Field.kind = "array" => Defaulted.val \in [1..ArrayLen -> Elems]
           /\ Defaulted.out \in {"ok", "error", "panic"}
           /\ Defaulted.out = "panic" => Cause
           /\ Defaulted.out = "ok" /\ Default /\ ~Exists =>
                 Shows(Field.kind, Defaulted.val, Field.def)
           /\ ~Default \/ Exists => Defaulted.val = Value /\ Defaulted.out = "ok"
<1>1. CASE Default /\ ~Exists
  <2>1. Defaulted = bind(Field, Value, Field.def)
    BY <1>1 DEF Defaulted
  <2>2. BindOutcome(Field, Value, Field.def, Defaulted)
    BY <2>1, AtFieldFacts, BindResult
  <2>3. QED
    BY <1>1, <2>2 DEF BindOutcome, Default, Cause
<1>2. CASE ~Default \/ Exists
  <2>1. Defaulted = [val |-> Value, out |-> "ok"]
    BY <1>2 DEF Defaulted
  <2>2. QED
    BY <1>2, <2>1, AtFieldFacts
<1>3. QED
  BY <1>1, <1>2

\* The field at hand after the loop went on with v, so that it is bound if v is
\* what the binder has to make of it.
LEMMA FieldAfter ==
    ASSUME BindInv, NEW b, AtField(b), NEW v, Continue(v),
           UNCHANGED <<methods, input>>, NEW n, n = i
    PROVE  /\ st'[n] = Field /\ val'[n] = v /\ methods' = methods
           /\ kindOf' = b /\ files' = files
           /\ Present(n)' <=> Exists
           /\ Exists => Given(n)' = Values
           /\ HasDefault(n)' <=> Default
           /\ Tagged(n)' <=> Field.bind # NoTag
           /\ IsZero(n)' <=> v = Zero(Field.kind)
           /\ Holds(n, st[n].def)' <=> Shows(Field.kind, v, Field.def)
           /\ Exists => /\ Holds(n, Given(n))' <=> Shows(Field.kind, v, Values)
                        /\ BadValue(n)' <=> \E j \in Read(Field.kind, Values) :
                                               ~Parses(Field.kind, Values[j])
<1>1. /\ st'[n] = Field /\ val'[n] = v /\ methods' = methods
      /\ kindOf' = b /\ files' = files
      /\ Present(n)' <=> Exists
      /\ Exists => Given(n)' = Values
  BY AtFieldFacts DEF Continue, Field, Exists, Values, Present, Given, input
<1>2. /\ HasDefault(n)' <=> Default
      /\ Tagged(n)' <=> Field.bind # NoTag
      /\ IsZero(n)' <=> v = Zero(Field.kind)
  BY <1>1 DEF HasDefault, Default, Tagged, IsZero
<1>3. Holds(n, st[n].def)' <=> Shows(Field.kind, v, Field.def)
  BY <1>1 DEF Holds
<1>4. Exists => /\ Holds(n, Given(n))' <=> Shows(Field.kind, v, Values)
                /\ BadValue(n)' <=> \E j \in Read(Field.kind, Values) :
                                       ~Parses(Field.kind, Values[j])
  BY <1>1 DEF Holds, BadValue
<1>5. QED
  BY <1>1, <1>2, <1>3, <1>4

\* A custom method binds a time, refuses, or panics on a field that is not
\* exported.
LEMMA MethodResult ==
    ASSUME NEW f, NEW old, NEW vs
    PROVE  /\ Method(f, old, vs).out \in {"ok", "error", "panic"}
           /\ Method(f, old, vs).out = "ok" =>
                 vs # <<>> /\ Method(f, old, vs).val = <<vs[1]>>
           /\ Method(f, old, vs).out = "panic" => ~f.exported
BY DEF Method

\* BindForm, a field with a bind tag.
LEMMA FormCustomStep == BindInv /\ FormCustom => BindInv'
<1> SUFFICES ASSUME BindInv, FormCustom PROVE BindInv'
  OBVIOUS
<1> DEFINE m == Method(Field, Value, Values)
<1>1. /\ AtField("form") /\ Custom /\ UNCHANGED <<methods, input>>
      /\ \/ Field.bind \in methods /\ ContinueOrStop(m)
         \/ Stop(Value, "error")
  BY DEF FormCustom
<1>2. phase = "bind" /\ i <= Len(st) /\ kindOf = "form"
  BY <1>1, AtFieldFacts
<1>3. /\ m.out \in {"ok", "error", "panic"}
      /\ m.out = "ok" => Values # <<>> /\ m.val = <<Values[1]>>
      /\ m.out = "panic" => ~Field.exported
  BY MethodResult
<1> HIDE DEF m
<1>0. PICK k : k = i
  OBVIOUS
<1>4. CASE Stop(Value, "error")
  BY <1>0, <1>1, <1>2, <1>4, StopStep
<1>5. CASE Field.bind \in methods /\ m.out = "ok" /\ ContinueOrStop(m)
  <2>1. Continue(m.val)
    BY <1>5 DEF ContinueOrStop
  <2>2. /\ st'[k] = Field /\ val'[k] = m.val /\ methods' = methods
        /\ kindOf' = "form"
        /\ Present(k)' <=> Exists
        /\ Exists => Given(k)' = Values
        /\ Tagged(k)' <=> Field.bind # NoTag
    BY <1>0, <1>1, <2>1, FieldAfter
  <2>3. Exists /\ Field.key # Pass
    BY <1>1, <1>3, <1>5, AtFieldFacts
  <2>4. FormBound(k)'
    BY <1>1, <1>3, <1>5, <2>2, <2>3 DEF FormBound, Custom
  <2>5. Done(k)'
    BY <2>2, <2>4 DEF Done
  <2>6. QED
    BY <1>0, <1>1, <1>2, <2>1, <2>5, ContinueStep
<1>6. CASE m.out # "ok" /\ ContinueOrStop(m)
  <2>1. Stop(m.val, m.out) /\ m.out # "ok"
    BY <1>6 DEF ContinueOrStop
  <2>2. m.out = "panic" => Cause
    BY <1>1, <1>3 DEF Cause, Custom
  <2>3. QED
    BY <1>0, <1>1, <1>2, <2>1, <2>2, StopStep
<1>7. QED
  BY <1>1, <1>4, <1>5, <1>6

\* BindForm, any other field: the default for a missing key, the values of the
\* form, and the default again when they do not parse.
LEMMA FormBindStep == BindInv /\ FormBind => BindInv'
<1> SUFFICES ASSUME BindInv, FormBind PROVE BindInv'
  OBVIOUS
<1> DEFINE r == bind(Field, Defaulted.val, Values)
           d == bind(Field, r.val, Field.def)
<1>1. /\ AtField("form") /\ ~Custom /\ UNCHANGED <<methods, input>>
      /\ \/ Defaulted.out # "ok" /\ Stop(Defaulted.val, Defaulted.out)
         \/ r.out = "error" /\ Default /\ Stop(d.val, d.out)
         \/ /\ Defaulted.out = "ok" /\ ~(r.out = "error" /\ Default)
            /\ ContinueOrStop(r)
  BY DEF FormBind
<1>2. /\ phase = "bind" /\ i <= Len(st) /\ kindOf = "form"
      /\ Field \in Fields /\ Field.def \in Seq(Texts)
      /\ Values \in Seq(Texts) /\ (Values = <<>> <=> ~Exists)
      /\ Value = Zero(Field.kind) /\ Field.key # Pass
  BY <1>1, AtFieldFacts
<1>3. /\ Field.kind = "array" => Defaulted.val \in [1..ArrayLen -> Elems]
      /\ Defaulted.out \in {"ok", "error", "panic"}
      /\ Defaulted.out = "panic" => Cause
      /\ Defaulted.out = "ok" /\ Default /\ ~Exists =>
            Shows(Field.kind, Defaulted.val, Field.def)
      /\ ~Default \/ Exists => Defaulted.val = Value /\ Defaulted.out = "ok"
  BY <1>1, DefaultedFacts
<1>4. BindOutcome(Field, Defaulted.val, Values, r)
  BY <1>2, <1>3, BindResult
<1>5. BindOutcome(Field, r.val, Field.def, d)
  <2>1. Field.kind = "array" => r.val \in [1..ArrayLen -> Elems]
    BY <1>4 DEF BindOutcome
  <2> HIDE DEF r
  <2>2. QED
    BY <1>2, <2>1, BindResult
<1> HIDE DEF r, d
<1>0. PICK k : k = i
  OBVIOUS
<1>6. CASE Defaulted.out # "ok" /\ Stop(Defaulted.val, Defaulted.out)
  BY <1>0, <1>1, <1>2, <1>3, <1>6, StopStep
<1>7. CASE r.out = "error" /\ Default /\ Stop(d.val, d.out)
  <2>1. Exists /\ \E j \in Read(Field.kind, Values) :
                     ~Parses(Field.kind, Values[j])
    BY <1>2, <1>4, <1>7 DEF BindOutcome
  <2>2. Present(k) /\ HasDefault(k) /\ st[k] = Field /\ Given(k) = Values
    BY <1>0, <1>7, <2>1 DEF Present, HasDefault, Default, Field, Given, Exists,
                            Values
  <2>3. BadValue(k)
    BY <2>1, <2>2 DEF BadValue
  <2>4. d.out = "ok" => Shows(st[k].kind, d.val, st[k].def)
    BY <1>5, <1>7, <2>2 DEF BindOutcome, Default
  <2>5. d.out = "panic" => Cause
    BY <1>5, <1>7 DEF BindOutcome, Cause
  <2>6. QED
    BY <1>0, <1>1, <1>2, <1>7, <2>2, <2>3, <2>4, <2>5, StopStep
<1>8. CASE Defaulted.out = "ok" /\ r.out = "ok" /\ ContinueOrStop(r)
  <2>1. Continue(r.val)
    BY <1>8 DEF ContinueOrStop
  <2>2. /\ st'[k] = Field /\ val'[k] = r.val /\ kindOf' = "form"
        /\ Present(k)' <=> Exists
        /\ HasDefault(k)' <=> Default
        /\ Tagged(k)' <=> Field.bind # NoTag
        /\ IsZero(k)' <=> r.val = Zero(Field.kind)
        /\ Holds(k, st[k].def)' <=> Shows(Field.kind, r.val, Field.def)
        /\ Exists => (Holds(k, Given(k))' <=> Shows(Field.kind, r.val, Values))
    BY <1>0, <1>1, <2>1, FieldAfter
  <2>3. ASSUME Exists PROVE Holds(k, Given(k))'
    BY <1>2, <1>4, <1>8, <2>2, <2>3 DEF BindOutcome
  <2>4. ASSUME ~Exists, Default, Field.kind \notin {"slice", "files"}
        PROVE  Holds(k, st[k].def)'
    <3>1. r.val = Defaulted.val
      BY <1>2, <1>4, <1>8, <2>4 DEF BindOutcome, Lists
    <3>2. QED
      BY <1>3, <1>8, <2>2, <2>4, <3>1
  <2>5. ASSUME ~Exists, ~Default \/ Field.kind \in {"slice", "files"}
        PROVE  IsZero(k)'
    <3>1. r.val = IF Field.kind \in Lists THEN <<>> ELSE Defaulted.val
      BY <1>2, <1>4, <1>8, <2>5 DEF BindOutcome
    <3>2. r.val = Zero(Field.kind)
      BY <1>2, <1>3, <2>5, <3>1 DEF Zero, Lists
    <3>3. QED
      BY <2>2, <3>2
  <2>6. ~(Tagged(k)' /\ (Present(k)' \/ ~HasDefault(k)'))
    BY <1>1, <2>2 DEF Custom
  <2>7. FormBound(k)'
    BY <1>2, <2>2, <2>3, <2>4, <2>5, <2>6 DEF FormBound
  <2>8. Done(k)'
    BY <2>2, <2>7 DEF Done
  <2>9. QED
    BY <1>0, <1>1, <1>2, <2>1, <2>8, ContinueStep
<1>9. CASE r.out # "ok" /\ ContinueOrStop(r)
  <2>1. Stop(r.val, r.out)
    BY <1>9 DEF ContinueOrStop
  <2>2. r.out = "panic" => Cause
    BY <1>2, <1>4 DEF BindOutcome, Cause, Lists
  <2>3. QED
    BY <1>0, <1>1, <1>2, <1>9, <2>1, <2>2, StopStep
<1>10. QED
  BY <1>1, <1>6, <1>7, <1>8, <1>9

\* BindMultipartForm, a field in the form with a bind tag.
LEMMA MultipartCustomStep == BindInv /\ MultipartCustom => BindInv'
<1> SUFFICES ASSUME BindInv, MultipartCustom PROVE BindInv'
  OBVIOUS
<1> DEFINE m == Method(Field, Value, Values)
<1>1. /\ AtField("multipart") /\ Exists /\ Field.bind # NoTag
      /\ UNCHANGED <<methods, input>>
      /\ IF Field.bind \in methods THEN ContinueOrStop(m) ELSE Continue(Value)
  BY DEF MultipartCustom
<1>2. /\ phase = "bind" /\ i <= Len(st) /\ Field.key # Pass
      /\ Value = Zero(Field.kind)
  BY <1>1, AtFieldFacts
<1>3. /\ m.out \in {"ok", "error", "panic"}
      /\ m.out = "ok" => Values # <<>> /\ m.val = <<Values[1]>>
      /\ m.out = "panic" => ~Field.exported
  BY MethodResult
<1> HIDE DEF m
<1>0. PICK k : k = i
  OBVIOUS
<1>4. ASSUME NEW v, Continue(v),
             IF Field.bind \in methods THEN v = <<Values[1]>> ELSE v = Value
      PROVE  BindInv'
  <2>1. /\ st'[k] = Field /\ val'[k] = v /\ kindOf' = "multipart"
        /\ methods' = methods
        /\ Present(k)' <=> Exists
        /\ Exists => Given(k)' = Values
        /\ Tagged(k)' <=> Field.bind # NoTag
        /\ IsZero(k)' <=> v = Zero(Field.kind)
    BY <1>0, <1>1, <1>4, FieldAfter
  <2>2. PartBound(k)'
    BY <1>1, <1>2, <1>4, <2>1 DEF PartBound
  <2>3. Done(k)'
    BY <2>1, <2>2 DEF Done
  <2>4. QED
    BY <1>0, <1>1, <1>2, <1>4, <2>3, ContinueStep
<1>5. ASSUME Stop(m.val, m.out), m.out # "ok" PROVE BindInv'
  <2>1. m.out = "panic" => Cause
    BY <1>1, <1>3 DEF Cause
  <2>2. QED
    BY <1>0, <1>1, <1>2, <1>5, <2>1, StopStep
<1>6. QED
  BY <1>1, <1>3, <1>4, <1>5 DEF ContinueOrStop

\* BindMultipartForm, a field in the form: the default replaces values that do
\* not parse and the loop goes on; without a default it goes on all the same.
LEMMA MultipartValueStep == BindInv /\ MultipartValue => BindInv'
<1> SUFFICES ASSUME BindInv, MultipartValue PROVE BindInv'
  OBVIOUS
<1> DEFINE r == bind(Field, Value, Values)
           d == bind(Field, r.val, Field.def)
<1>1. /\ AtField("multipart") /\ Exists /\ Field.bind = NoTag
      /\ UNCHANGED <<methods, input>>
      /\ \/ r.out = "error" /\ Default /\ ContinueOrStop(d)
         \/ r.out = "error" /\ ~Default /\ Continue(r.val)
         \/ ~(r.out = "error") /\ ContinueOrStop(r)
  BY DEF MultipartValue
<1>2. /\ phase = "bind" /\ i <= Len(st) /\ Field.key # Pass
      /\ Field \in Fields /\ Field.def \in Seq(Texts)
      /\ Values \in Seq(Texts) /\ Values # <<>>
      /\ Value = Zero(Field.kind)
      /\ Field.kind = "array" => Value \in [1..ArrayLen -> Elems]
  BY <1>1, AtFieldFacts
<1>3. BindOutcome(Field, Value, Values, r)
  BY <1>2, BindResult
<1>4. BindOutcome(Field, r.val, Field.def, d)
  <2>1. Field.kind = "array" => r.val \in [1..ArrayLen -> Elems]
    BY <1>3 DEF BindOutcome
  <2> HIDE DEF r
  <2>2. QED
    BY <1>2, <2>1, BindResult
<1> HIDE DEF r, d
<1>0. PICK k : k = i
  OBVIOUS
<1> DEFINE Bad1 == \E j \in Read(Field.kind, Values) :
                      ~Parses(Field.kind, Values[j])
<1>5. ASSUME NEW v, Continue(v),
             \/ ~Bad1 /\ Shows(Field.kind, v, Values)
             \/ Bad1 /\ Default /\ Shows(Field.kind, v, Field.def)
             \/ Bad1 /\ ~Default /\ r.out = "error" /\ v = r.val
      PROVE  BindInv'
  <2>1. /\ st'[k] = Field /\ val'[k] = v /\ kindOf' = "multipart"
        /\ Present(k)' <=> Exists
        /\ Exists => Given(k)' = Values
        /\ HasDefault(k)' <=> Default
        /\ Tagged(k)' <=> Field.bind # NoTag
        /\ IsZero(k)' <=> v = Zero(Field.kind)
        /\ Holds(k, st[k].def)' <=> Shows(Field.kind, v, Field.def)
        /\ Exists => /\ Holds(k, Given(k))' <=> Shows(Field.kind, v, Values)
                     /\ BadValue(k)' <=> Bad1
    BY <1>0, <1>1, <1>5, FieldAfter
  <2>2. ASSUME r.out = "error", v = r.val PROVE Partial(k)'
    <3>1. CASE Field.kind # "array"
      <4>1. v = Zero(Field.kind)
        BY <1>2, <1>3, <2>2, <3>1 DEF BindOutcome
      <4>2. QED
        BY <2>1, <3>1, <4>1 DEF Partial
    <3>2. CASE Field.kind = "array"
      <4>1. /\ Stopped("array", Value, v, Values)
            /\ v \in [1..ArrayLen -> Elems]
        BY <1>3, <2>2, <3>2 DEF BindOutcome
      <4>2. /\ Value = [j \in 1..ArrayLen |-> "0"] /\ ArrayLen \in Nat
            /\ Len(Value) = ArrayLen /\ DOMAIN v = 1..ArrayLen
        <5>1. ArrayLen \in Nat
          BY BindingAssumption, Zenon
        <5>2. QED
          BY <1>2, <3>2, <4>1, <5>1 DEF Zero
      <4>3. PICK m \in 1..Len(Values) :
               /\ m <= ArrayLen /\ ~Parses("array", Values[m])
               /\ \A j \in 1..(m - 1) : Parses("array", Values[j])
               /\ \A j \in 1..ArrayLen :
                     v[j] = IF j < m THEN Parsed("array", Values[j]) ELSE "0"
        BY <4>1, <4>2 DEF Stopped
      <4>4. Len(Values) \in Nat /\ DOMAIN Values = 1..Len(Values)
        BY <1>2
      <4>5. ASSUME NEW j \in 1..ArrayLen
            PROVE  v[j] = IF /\ j \in DOMAIN Values
                             /\ \A n \in 1..j : Parses("array", Values[n])
                            THEN Parsed("array", Values[j]) ELSE "0"
        <5>1. CASE j < m
          <6>1. j \in DOMAIN Values /\ \A n \in 1..j : n \in 1..(m - 1)
            BY <4>2, <4>3, <4>4, <5>1
          <6>2. QED
            BY <4>3, <5>1, <6>1
        <5>2. CASE ~(j < m)
          <6>1. m \in 1..j
            BY <4>2, <4>3, <4>4, <5>2
          <6>2. QED
            BY <4>3, <5>2, <6>1
        <5>3. QED
          BY <5>1, <5>2
      <4>6. QED
        BY <1>1, <2>1, <3>2, <4>2, <4>5 DEF Partial
    <3>3. QED
      BY <3>1, <3>2
  <2> HIDE DEF Bad1
  <2>3. PartBound(k)'
    BY <1>1, <1>2, <1>5, <2>1, <2>2 DEF PartBound
  <2>4. Done(k)'
    BY <2>1, <2>3 DEF Done
  <2>5. QED
    BY <1>0, <1>1, <1>2, <1>5, <2>4, ContinueStep
<1>6. ASSUME NEW v, NEW out, Stop(v, out), out # "ok", out = "panic" => Cause
      PROVE  BindInv'
  BY <1>0, <1>1, <1>2, <1>6, StopStep
<1>7. CASE r.out = "error" /\ Default /\ ContinueOrStop(d)
  <2>1. Bad1
    BY <1>3, <1>7 DEF BindOutcome
  <2>2. CASE d.out = "ok"
    <3>1. Continue(d.val) /\ Shows(Field.kind, d.val, Field.def)
      BY <1>4, <1>7, <2>2 DEF BindOutcome, Default, ContinueOrStop
    <3>2. QED
      BY <1>5, <1>7, <2>1, <3>1
  <2>3. CASE d.out # "ok"
    <3>1. Stop(d.val, d.out) /\ (d.out = "panic" => Cause)
      BY <1>1, <1>4, <1>7, <2>3 DEF BindOutcome, ContinueOrStop, Cause
    <3>2. QED
      BY <1>6, <2>3, <3>1
  <2>4. QED
    BY <2>2, <2>3
<1>8. CASE r.out = "error" /\ ~Default /\ Continue(r.val)
  <2>1. Bad1
    BY <1>3, <1>8 DEF BindOutcome
  <2>2. QED
    BY <1>5, <1>8, <2>1
<1>9. CASE ~(r.out = "error") /\ ContinueOrStop(r)
  <2>1. CASE r.out = "ok"
    <3>1. Continue(r.val) /\ Shows(Field.kind, r.val, Values) /\ ~Bad1
      BY <1>2, <1>3, <1>9, <2>1 DEF BindOutcome, ContinueOrStop
    <3>2. QED
      BY <1>5, <3>1
  <2>2. CASE r.out # "ok"
    <3>1. Stop(r.val, r.out) /\ (r.out = "panic" => Cause)
      BY <1>1, <1>3, <1>9, <2>2 DEF BindOutcome, ContinueOrStop, Cause
    <3>2. QED
      BY <1>6, <2>2, <3>1
  <2>3. QED
    BY <2>1, <2>2
<1>10. QED
  BY <1>1, <1>7, <1>8, <1>9

\* BindMultipartForm, a field that is not in the form.
LEMMA MultipartMissingStep == BindInv /\ MultipartMissing => BindInv'
<1> SUFFICES ASSUME BindInv, MultipartMissing PROVE BindInv'
  OBVIOUS
<1> DEFINE v == IF HasUpload(Field)
                  THEN bindFile(Field.kind, files[Field.name])
                  ELSE Defaulted.val
<1>1. /\ AtField("multipart") /\ ~Exists
      /\ UNCHANGED <<methods, input>>
      /\ \/ Defaulted.out # "ok" /\ Stop(Defaulted.val, Defaulted.out)
         \/ ~Field.exported /\ Stop(Defaulted.val, "panic")
         \/ Defaulted.out = "ok" /\ Continue(v)
  BY DEF MultipartMissing
<1>2. /\ phase = "bind" /\ i <= Len(st) /\ kindOf = "multipart"
      /\ Field.key # Pass /\ Value = Zero(Field.kind)
  BY <1>1, AtFieldFacts
<1>0. PICK k : k = i
  OBVIOUS
<1>3. CASE Defaulted.out = "ok" /\ Continue(v)
  <2>1. \/ HasUpload(Field) /\ v = bindFile(Field.kind, files[Field.name])
        \/ ~HasUpload(Field) /\ v = Defaulted.val
    OBVIOUS
  <2> HIDE DEF v
  <2>2. /\ st'[k] = Field /\ val'[k] = v /\ kindOf' = "multipart"
        /\ files' = files
        /\ Present(k)' <=> Exists
        /\ HasDefault(k)' <=> Default
        /\ IsZero(k)' <=> v = Zero(Field.kind)
        /\ Holds(k, st[k].def)' <=> Shows(Field.kind, v, Field.def)
    BY <1>0, <1>1, <1>3, FieldAfter
  <2>3. /\ Default => Shows(Field.kind, Defaulted.val, Field.def)
        /\ ~Default => Defaulted.val = Value
    BY <1>1, <1>3, DefaultedFacts
  <2>4. HasUpload(st[k])' <=> HasUpload(Field)
    BY <2>2 DEF HasUpload
  <2>5. PartBound(k)'
    BY <1>1, <1>2, <2>1, <2>2, <2>3, <2>4 DEF PartBound
  <2>6. Done(k)'
    BY <2>2, <2>5 DEF Done
  <2>7. QED
    BY <1>0, <1>1, <1>2, <1>3, <2>6, ContinueStep
<1>4. CASE Defaulted.out # "ok" /\ Stop(Defaulted.val, Defaulted.out)
  <2>1. Defaulted.out = "panic" => Cause
    BY <1>1, DefaultedFacts
  <2>2. QED
    BY <1>0, <1>1, <1>2, <1>4, <2>1, StopStep
<1>5. CASE ~Field.exported /\ Stop(Defaulted.val, "panic")
  <2>1. Cause
    BY <1>2, <1>5 DEF Cause
  <2>2. QED
    BY <1>0, <1>1, <1>2, <1>5, <2>1, StopStep
<1>6. QED
  BY <1>1, <1>3, <1>4, <1>5

\* Every step of a call preserves BindInv.
LEMMA BindStep == BindInv /\ [Next]_vars => BindInv'
<1> SUFFICES ASSUME BindInv, [Next]_vars PROVE BindInv'
  OBVIOUS
<1> USE DEF BindInv
<1>1. ASSUME NEW name \in Methods, AddBindMethod(name) PROVE BindInv'
  BY <1>1 DEF AddBindMethod, input, Loop, Progress, BoundOnSuccess,
              MultipartBound, Returned, PanicsKnown
<1>2. CASE Begin
  <2>1. /\ st' \in Seq(Fields)
        /\ \A k \in DOMAIN form' : form'[k] \in Seq(Texts) \ {<<>>}
    <3>1. st' \in Structs \/ st' = <<>>
      BY <1>2 DEF Begin
    <3>2. \A s \in Structs : s \in Seq(Fields)
      BY BindingAssumption, Zenon
    <3>3. \A k \in DOMAIN form' : form'[k] \in Seq(Texts) \ {<<>>}
      BY <1>2, BindingAssumption, Zenon DEF Begin
    <3>4. \A S : <<>> \in Seq(S)
      OBVIOUS
    <3>5. st' \in Seq(Fields)
      BY <3>1, <3>2, <3>4, Zenon
    <3>6. QED
      BY <3>3, <3>5
  <2>2. /\ DOMAIN val' = DOMAIN st'
        /\ \A k \in DOMAIN st' : val'[k] = Zero(st'[k].kind) /\ ~(k < 1)
    BY <1>2, <2>1 DEF Begin
  <2>3. /\ phase' = "call" /\ result' = "ok" /\ i' = 1 /\ kindOf' \in Binders
    BY <1>2 DEF Begin
  <2>4. Loop'
    BY <2>1, <2>2, <2>3 DEF Loop
  <2>5. Progress'
    BY <2>2, <2>3 DEF Progress, IsZero
  <2>6. BoundOnSuccess' /\ MultipartBound' /\ PanicsKnown'
    BY <2>3 DEF BoundOnSuccess, MultipartBound, Returned, PanicsKnown
  <2>7. QED
    BY <2>4, <2>5, <2>6
<1>3. CASE Refuse \/ NoStruct
  <2>1. /\ phase' = "done" /\ result' \in {"error", "panic"}
        /\ result' = "panic" => target = "pointer"
        /\ UNCHANGED <<methods, input, i, val>>
    BY <1>3 DEF Refuse, NoStruct
  <2>2. QED
    BY <2>1 DEF input, Loop, Progress, BoundOnSuccess, MultipartBound, Returned,
                PanicsKnown
<1>4. CASE Enter
  <2>1. /\ phase = "call" /\ phase' = "bind"
        /\ UNCHANGED <<methods, input, i, val, result>>
    BY <1>4 DEF Enter
  <2>2. Loop'
    BY <2>1 DEF input, Loop
  <2>3. \A k : (Done(k)' <=> Done(k)) /\ (IsZero(k)' <=> IsZero(k))
    BY <2>1, DoneKept
  <2>4. Progress'
    BY <2>1, <2>3 DEF Progress, input
  <2>5. BoundOnSuccess' /\ MultipartBound' /\ PanicsKnown'
    BY <2>1 DEF Loop, BoundOnSuccess, MultipartBound, Returned, PanicsKnown
  <2>6. QED
    BY <2>2, <2>4, <2>5
<1>5. CASE SkipField
  <2>1. /\ phase = "bind" /\ i <= Len(st) /\ Field.key = Pass
        /\ Continue(Value) /\ UNCHANGED <<methods, input>>
    BY <1>5 DEF SkipField
  <2>2. PICK k : k = i
    OBVIOUS
  <2>3. /\ k \in DOMAIN st /\ k \in DOMAIN val /\ IsZero(k)
    BY <2>1, <2>2 DEF Loop, Progress
  <2>4. st'[k].key = Pass /\ val'[k] = val[k]
    BY <2>1, <2>2, <2>3 DEF Field, Value, Continue, input
  <2>5. IsZero(k)'
    BY <2>1, <2>3, <2>4, DoneKept
  <2>6. Done(k)'
    BY <2>4, <2>5 DEF Done, FormBound, PartBound
  <2>7. QED
    BY <2>1, <2>2, <2>6, ContinueStep
<1>6. CASE EndLoop
  <2>1. /\ phase = "bind" /\ i > Len(st) /\ phase' = "done" /\ result' = "ok"
        /\ UNCHANGED <<methods, input, i, val>>
    BY <1>6 DEF EndLoop
  <2>2. Loop'
    BY <2>1 DEF Loop, input
  <2>3. ASSUME NEW k \in DOMAIN st PROVE k < i /\ Done(k)'
    <3>1. k < i
      BY <2>1 DEF Loop
    <3>2. Done(k)
      BY <2>1, <3>1 DEF Progress
    <3>3. QED
      BY <2>1, <3>1, <3>2, DoneKept
  <2>4. BoundOnSuccess' /\ MultipartBound'
    BY <2>1, <2>3 DEF BoundOnSuccess, MultipartBound, Returned, Done, input
  <2>5. Progress' /\ PanicsKnown'
    BY <2>1 DEF Progress, PanicsKnown
  <2>6. QED
    BY <2>2, <2>4, <2>5
<1>7. CASE Return
  BY <1>7 DEF Return, Loop, Progress, BoundOnSuccess, MultipartBound, Returned,
              PanicsKnown, Binders
<1>8. CASE UNCHANGED vars
  <2>1. UNCHANGED <<methods, input, i, val, phase, result>>
    BY <1>8 DEF vars
  <2>2. Loop'
    BY <2>1 DEF input, Loop
  <2>3. \A k : /\ Done(k)' <=> Done(k)
               /\ FormBound(k)' <=> FormBound(k)
               /\ PartBound(k)' <=> PartBound(k)
               /\ IsZero(k)' <=> IsZero(k)
    BY <2>1, DoneKept
  <2>4. Progress' /\ MultipartBound'
    BY <2>1, <2>3 DEF input, Progress, MultipartBound, Returned
  <2>5. \A k : /\ Present(k)' <=> Present(k)
               /\ BadValue(k)' <=> BadValue(k)
               /\ HasDefault(k)' <=> HasDefault(k)
               /\ Holds(k, st[k].def)' <=> Holds(k, st[k].def)
    BY <2>1 DEF input, Present, BadValue, HasDefault, Holds, Given
  <2>6. BoundOnSuccess'
    BY <2>1, <2>3, <2>5 DEF input, BoundOnSuccess, Returned
  <2>7. PanicsKnown'
    BY <2>1 DEF input, PanicsKnown, Field, Values, Exists, Default
  <2>8. QED
    BY <2>2, <2>4, <2>6, <2>7
<1>9. QED
  BY <1>1, <1>2, <1>3, <1>4, <1>5, <1>6, <1>7, <1>8, FormCustomStep,
     FormBindStep, MultipartCustomStep, MultipartValueStep,
     MultipartMissingStep DEF Next

\* BindInv holds in every reachable state.
LEMMA BindHolds == Spec => []BindInv
<1>1. Init => BindInv
  BY DEF Init, BindInv, Loop, Progress, BoundOnSuccess, MultipartBound,
         Returned, PanicsKnown, Binders
<1>2. QED
  BY <1>1, BindStep, PTL DEF Spec

\* BindForm that returns nil has bound every field up to the one whose default
\* replaced a bad value, and every field if there is none, for every struct type,
\* form and array length.
THEOREM FormIsBound == Spec => []BoundOnSuccess
<1>1. BindInv => BoundOnSuccess
  BY DEF BindInv
<1>2. QED
  BY <1>1, BindHolds, PTL

\* BindMultipartForm that returns nil has passed every field and left in each
\* what PartBound says, the errors it drops included.
THEOREM MultipartIsBound == Spec => []MultipartBound
<1>1. BindInv => MultipartBound
  BY DEF BindInv
<1>2. QED
  BY <1>1, BindHolds, PTL

\* The binders panic only for a pointer to no struct, a field that is not
\* exported, and a Go array shorter than its values.
THEOREM PanicsForKnownCause == Spec => []PanicsKnown
<1>1. BindInv => PanicsKnown
  BY DEF BindInv
<1>2. QED
  BY <1>1, BindHolds, PTL

=============================================================================
