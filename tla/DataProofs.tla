----------------------------- MODULE DataProofs -----------------------------
(* Proofs about Validators, for every set of structs, numerals, patterns,  *)
(* methods and rules of the application, and about Data, which composes    *)
(* it and Values, for every set of requests, any number of calls on a      *)
(* request and all types, texts and parameters.                            *)
EXTENDS Data, FoldProofs, SequenceTheorems

\* The functions rules run; "custom" is one of the application.
Functions ==
    {"required", "max_length", "min_length", "gt", "lt", "ge", "le", "eq", "ne",
     "between", "not_between", "contains", "not_contains", "email", "uuid",
     "phone", "url", "regexp", "date_format", "method", "round", "ef", "nef",
     "gtf", "gef", "ltf", "lef"}

\* Where Validate can be: the struct is one of the program's, the positions
\* are ordinals, and no rule is registered under what is not a rule.
Position ==
    /\ st = <<>> \/ st \in Structs
    /\ i \in Nat \ {0} /\ r \in Nat \ {0}
    /\ phase \in {"idle", "check", "done"}
    /\ phase # "done" => result = Ok

LibraryOK ==
    /\ NoMatch \notin DOMAIN library
    /\ \A k \in DOMAIN library : library[k] \in Functions \cup {"custom"}

-----------------------------------------------------------------------------
(* The folds of Validators, step by step.                                  *)

\* The values of the loop over the parameters, SetParam by SetParam.
ParamTrace(a, A, base, s) ==
    /\ a \in [0..Len(s) -> A] /\ a[0] = base
    /\ \A k \in 1..Len(s) : a[k] = SetParam(a[k - 1], s[k])

LEMMA ParamSteps ==
    ASSUME NEW A, NEW base \in A, NEW s, Len(s) \in Nat, DOMAIN s = 1..Len(s),
           \A x \in A : \A k \in 1..Len(s) : SetParam(x, s[k]) \in A
    PROVE  \E a : ParamTrace(a, A, base, s) /\ FoldLeft(SetParam, base, s) = a[Len(s)]
<1> DEFINE n  == Len(s)
           it == CHOOSE g : g = [t \in SUBSET (DOMAIN s) |->
                   IF t = {} THEN base ELSE SetParam(g[t \ {Max(t)}], s[Max(t)])]
<1>1. FoldLeft(SetParam, base, s) = it[DOMAIN s]
  BY Zenon DEF FoldLeft, MapThenFoldSet, it
<1>2. PICK op \in [A \X (1..n) -> A] :
         op = [x \in A \X (1..n) |-> SetParam(x[1], s[x[2]])]
  <2> HIDE DEF it
  <2>1. QED
    OBVIOUS
<1> HIDE DEF n, it
<1>3. \A x \in A : \A k \in 1..n : op[<<x, k>>] = SetParam(x, s[k])
  BY <1>2
<1>4. n \in Nat /\ DOMAIN s = 1..n
  BY DEF n
<1>5. PICK g : Iterates(g, A, base, op, n)
  BY <1>4, IterExists
<1>6. g = [t \in SUBSET (DOMAIN s) |->
             IF t = {} THEN base ELSE SetParam(g[t \ {Max(t)}], s[Max(t)])]
  <2>1. /\ g \in [SUBSET (1..n) -> A]
        /\ \A t \in SUBSET (1..n) :
             g[t] = IF t = {} THEN base ELSE op[<<g[t \ {Max(t)}], Max(t)>>]
    BY <1>5, Zenon DEF Iterates
  <2>2. \A t \in SUBSET (1..n) : t # {} =>
           g[t \ {Max(t)}] \in A /\ Max(t) \in 1..n
    BY <1>4, <1>5, IterInside
  <2>3. \A t \in SUBSET (1..n) :
          g[t] = IF t = {} THEN base ELSE SetParam(g[t \ {Max(t)}], s[Max(t)])
    BY <1>3, <2>1, <2>2, Zenon
  <2>4. QED
    BY <1>4, <2>1, <2>3
<1>7. it = [t \in SUBSET (DOMAIN s) |->
             IF t = {} THEN base ELSE SetParam(it[t \ {Max(t)}], s[Max(t)])]
  BY <1>6, Zenon DEF it
<1>8. Follows(it, A, base, op, n)
  <2>1. it[{}] = base
    BY <1>7
  <2>2. ASSUME NEW k \in 1..n, it[1..(k - 1)] \in A
        PROVE  it[1..k] = op[<<it[1..(k - 1)], k>>]
    <3>0. k \in Nat \ {0}
      BY <1>4
    <3>1. 1..k # {} /\ Max(1..k) = k /\ (1..k) \ {k} = 1..(k - 1)
      BY <3>0, Prefix
    <3>2. 1..k \in SUBSET (DOMAIN s)
      BY <1>4
    <3>3. it[1..k] = SetParam(it[(1..k) \ {Max(1..k)}], s[Max(1..k)])
      BY <1>7, <3>1, <3>2, Zenon
    <3>4. it[1..k] = SetParam(it[1..(k - 1)], s[k])
      BY <3>1, <3>3
    <3>5. QED
      BY <1>3, <2>2, <3>4, Zenon
  <2>3. QED
    BY <2>1, <2>2, Zenon DEF Follows
<1>9. PICK a : Trace(a, A, base, op, n, it[1..n])
  BY <1>4, <1>8, TraceOf
<1>10. ParamTrace(a, A, base, s)
  <2>1. a \in [0..n -> A] /\ a[0] = base
    BY <1>9 DEF Trace
  <2>2. ASSUME NEW k \in 1..n PROVE a[k] = SetParam(a[k - 1], s[k])
    <3>1. k - 1 \in 0..n
      BY <1>4
    <3>2. a[k] = op[<<a[k - 1], k>>] /\ a[k - 1] \in A
      BY <1>9, <2>1, <3>1, Zenon DEF Trace
    <3>3. QED
      BY <1>3, <3>2, Zenon
  <2>3. QED
    BY <2>1, <2>2, Zenon DEF ParamTrace, n
<1>11. FoldLeft(SetParam, base, s) = a[Len(s)]
  BY <1>1, <1>4, <1>9 DEF n, Trace
<1>12. QED
  BY <1>10, <1>11, Zenon

\* The values while pieces are joined, from left to right.
JoinTrace(a, A, base, s) ==
    /\ a \in [0..Len(s) -> A] /\ a[0] = base
    /\ \A k \in 1..Len(s) : a[k] = Join(a[k - 1], s[k])

LEMMA JoinSteps ==
    ASSUME NEW A, NEW base \in A, NEW s, Len(s) \in Nat, DOMAIN s = 1..Len(s),
           \A x \in A : \A k \in 1..Len(s) : Join(x, s[k]) \in A
    PROVE  \E a : JoinTrace(a, A, base, s) /\ FoldLeft(Join, base, s) = a[Len(s)]
<1> DEFINE n  == Len(s)
           it == CHOOSE g : g = [t \in SUBSET (DOMAIN s) |->
                   IF t = {} THEN base ELSE Join(g[t \ {Max(t)}], s[Max(t)])]
<1>1. FoldLeft(Join, base, s) = it[DOMAIN s]
  BY Zenon DEF FoldLeft, MapThenFoldSet, it
<1>2. PICK op \in [A \X (1..n) -> A] :
         op = [x \in A \X (1..n) |-> Join(x[1], s[x[2]])]
  <2> HIDE DEF it
  <2>1. QED
    OBVIOUS
<1> HIDE DEF n, it
<1>3. \A x \in A : \A k \in 1..n : op[<<x, k>>] = Join(x, s[k])
  BY <1>2
<1>4. n \in Nat /\ DOMAIN s = 1..n
  BY DEF n
<1>5. PICK g : Iterates(g, A, base, op, n)
  BY <1>4, IterExists
<1>6. g = [t \in SUBSET (DOMAIN s) |->
             IF t = {} THEN base ELSE Join(g[t \ {Max(t)}], s[Max(t)])]
  <2>1. /\ g \in [SUBSET (1..n) -> A]
        /\ \A t \in SUBSET (1..n) :
             g[t] = IF t = {} THEN base ELSE op[<<g[t \ {Max(t)}], Max(t)>>]
    BY <1>5, Zenon DEF Iterates
  <2>2. \A t \in SUBSET (1..n) : t # {} =>
           g[t \ {Max(t)}] \in A /\ Max(t) \in 1..n
    BY <1>4, <1>5, IterInside
  <2>3. \A t \in SUBSET (1..n) :
          g[t] = IF t = {} THEN base ELSE Join(g[t \ {Max(t)}], s[Max(t)])
    BY <1>3, <2>1, <2>2, Zenon
  <2>4. QED
    BY <1>4, <2>1, <2>3
<1>7. it = [t \in SUBSET (DOMAIN s) |->
             IF t = {} THEN base ELSE Join(it[t \ {Max(t)}], s[Max(t)])]
  BY <1>6, Zenon DEF it
<1>8. Follows(it, A, base, op, n)
  <2>1. it[{}] = base
    BY <1>7
  <2>2. ASSUME NEW k \in 1..n, it[1..(k - 1)] \in A
        PROVE  it[1..k] = op[<<it[1..(k - 1)], k>>]
    <3>0. k \in Nat \ {0}
      BY <1>4
    <3>1. 1..k # {} /\ Max(1..k) = k /\ (1..k) \ {k} = 1..(k - 1)
      BY <3>0, Prefix
    <3>2. 1..k \in SUBSET (DOMAIN s)
      BY <1>4
    <3>3. it[1..k] = Join(it[(1..k) \ {Max(1..k)}], s[Max(1..k)])
      BY <1>7, <3>1, <3>2, Zenon
    <3>4. it[1..k] = Join(it[1..(k - 1)], s[k])
      BY <3>1, <3>3
    <3>5. QED
      BY <1>3, <2>2, <3>4, Zenon
  <2>3. QED
    BY <2>1, <2>2, Zenon DEF Follows
<1>9. PICK a : Trace(a, A, base, op, n, it[1..n])
  BY <1>4, <1>8, TraceOf
<1>10. JoinTrace(a, A, base, s)
  <2>1. a \in [0..n -> A] /\ a[0] = base
    BY <1>9 DEF Trace
  <2>2. ASSUME NEW k \in 1..n PROVE a[k] = Join(a[k - 1], s[k])
    <3>1. k - 1 \in 0..n
      BY <1>4
    <3>2. a[k] = op[<<a[k - 1], k>>] /\ a[k - 1] \in A
      BY <1>9, <2>1, <3>1, Zenon DEF Trace
    <3>3. QED
      BY <1>3, <3>2, Zenon
  <2>3. QED
    BY <2>1, <2>2, Zenon DEF JoinTrace, n
<1>11. FoldLeft(Join, base, s) = a[Len(s)]
  BY <1>1, <1>4, <1>9 DEF n, Trace
<1>12. QED
  BY <1>10, <1>11, Zenon

\* The runes of one more token and of the space before it.
RuneStep(m, x) == m + Runes[x.w] + (IF x.sp THEN 1 ELSE 0)

\* The values while the runes of a text are counted.
RuneTrace(a, A, base, s) ==
    /\ a \in [0..Len(s) -> A] /\ a[0] = base
    /\ \A k \in 1..Len(s) : a[k] = RuneStep(a[k - 1], s[k])

LEMMA RuneSteps ==
    ASSUME NEW A, NEW base \in A, NEW s, Len(s) \in Nat, DOMAIN s = 1..Len(s),
           \A x \in A : \A k \in 1..Len(s) : RuneStep(x, s[k]) \in A
    PROVE  \E a : RuneTrace(a, A, base, s) /\ FoldLeft(RuneStep, base, s) = a[Len(s)]
<1> DEFINE n  == Len(s)
           it == CHOOSE g : g = [t \in SUBSET (DOMAIN s) |->
                   IF t = {} THEN base ELSE RuneStep(g[t \ {Max(t)}], s[Max(t)])]
<1>1. FoldLeft(RuneStep, base, s) = it[DOMAIN s]
  BY Zenon DEF FoldLeft, MapThenFoldSet, it
<1>2. PICK op \in [A \X (1..n) -> A] :
         op = [x \in A \X (1..n) |-> RuneStep(x[1], s[x[2]])]
  <2> HIDE DEF it
  <2>1. QED
    OBVIOUS
<1> HIDE DEF n, it
<1>3. \A x \in A : \A k \in 1..n : op[<<x, k>>] = RuneStep(x, s[k])
  BY <1>2
<1>4. n \in Nat /\ DOMAIN s = 1..n
  BY DEF n
<1>5. PICK g : Iterates(g, A, base, op, n)
  BY <1>4, IterExists
<1>6. g = [t \in SUBSET (DOMAIN s) |->
             IF t = {} THEN base ELSE RuneStep(g[t \ {Max(t)}], s[Max(t)])]
  <2>1. /\ g \in [SUBSET (1..n) -> A]
        /\ \A t \in SUBSET (1..n) :
             g[t] = IF t = {} THEN base ELSE op[<<g[t \ {Max(t)}], Max(t)>>]
    BY <1>5, Zenon DEF Iterates
  <2>2. \A t \in SUBSET (1..n) : t # {} =>
           g[t \ {Max(t)}] \in A /\ Max(t) \in 1..n
    BY <1>4, <1>5, IterInside
  <2>3. \A t \in SUBSET (1..n) :
          g[t] = IF t = {} THEN base ELSE RuneStep(g[t \ {Max(t)}], s[Max(t)])
    BY <1>3, <2>1, <2>2, Zenon
  <2>4. QED
    BY <1>4, <2>1, <2>3
<1>7. it = [t \in SUBSET (DOMAIN s) |->
             IF t = {} THEN base ELSE RuneStep(it[t \ {Max(t)}], s[Max(t)])]
  BY <1>6, Zenon DEF it
<1>8. Follows(it, A, base, op, n)
  <2>1. it[{}] = base
    BY <1>7
  <2>2. ASSUME NEW k \in 1..n, it[1..(k - 1)] \in A
        PROVE  it[1..k] = op[<<it[1..(k - 1)], k>>]
    <3>0. k \in Nat \ {0}
      BY <1>4
    <3>1. 1..k # {} /\ Max(1..k) = k /\ (1..k) \ {k} = 1..(k - 1)
      BY <3>0, Prefix
    <3>2. 1..k \in SUBSET (DOMAIN s)
      BY <1>4
    <3>3. it[1..k] = RuneStep(it[(1..k) \ {Max(1..k)}], s[Max(1..k)])
      BY <1>7, <3>1, <3>2, Zenon
    <3>4. it[1..k] = RuneStep(it[1..(k - 1)], s[k])
      BY <3>1, <3>3
    <3>5. QED
      BY <1>3, <2>2, <3>4, Zenon
  <2>3. QED
    BY <2>1, <2>2, Zenon DEF Follows
<1>9. PICK a : Trace(a, A, base, op, n, it[1..n])
  BY <1>4, <1>8, TraceOf
<1>10. RuneTrace(a, A, base, s)
  <2>1. a \in [0..n -> A] /\ a[0] = base
    BY <1>9 DEF Trace
  <2>2. ASSUME NEW k \in 1..n PROVE a[k] = RuneStep(a[k - 1], s[k])
    <3>1. k - 1 \in 0..n
      BY <1>4
    <3>2. a[k] = op[<<a[k - 1], k>>] /\ a[k - 1] \in A
      BY <1>9, <2>1, <3>1, Zenon DEF Trace
    <3>3. QED
      BY <1>3, <3>2, Zenon
  <2>3. QED
    BY <2>1, <2>2, Zenon DEF RuneTrace, n
<1>11. FoldLeft(RuneStep, base, s) = a[Len(s)]
  BY <1>1, <1>4, <1>9 DEF n, Trace
<1>12. QED
  BY <1>10, <1>11, Zenon

-----------------------------------------------------------------------------
(* The rules, one by one.                                                  *)

\* The function each name stands for.
LEMMA RuleOf ==
    ASSUME NEW s, NEW k, NEW p
    PROVE  /\ Rule("required", s, k, p) = Required(s[k], p)
           /\ Rule("max_length", s, k, p) = MaxLength(s[k], p)
           /\ Rule("min_length", s, k, p) = MinLength(s[k], p)
           /\ Rule("gt", s, k, p) = GreaterThan(s[k], p)
           /\ Rule("lt", s, k, p) = LowerThan(s[k], p)
           /\ Rule("ge", s, k, p) = GreaterEqual(s[k], p)
           /\ Rule("le", s, k, p) = LowerEqual(s[k], p)
           /\ Rule("eq", s, k, p) = Equal(s[k], p)
           /\ Rule("ne", s, k, p) = NotEqual(s[k], p)
           /\ Rule("between", s, k, p) = Between(s[k], p)
           /\ Rule("not_between", s, k, p) = NotBetween(s[k], p)
           /\ Rule("contains", s, k, p) = ContainsItem(s[k], p)
           /\ Rule("not_contains", s, k, p) = NotContains(s[k], p)
           /\ Rule("email", s, k, p) = Email(s[k], p)
           /\ Rule("uuid", s, k, p) = UUID(s[k], p)
           /\ Rule("phone", s, k, p) = Phone(s[k], p)
           /\ Rule("url", s, k, p) = Url(s[k], p)
           /\ Rule("regexp", s, k, p) = Regexp(s[k], p)
           /\ Rule("date_format", s, k, p) = DateFormat(s[k], p)
           /\ Rule("method", s, k, p) = Method(p)
           /\ Rule("round", s, k, p) = Round(s[k], p)
           /\ Rule("ef", s, k, p) = EqualField(s, k, p)
           /\ Rule("nef", s, k, p) = NotEqualField(s, k, p)
           /\ Rule("gtf", s, k, p) = GreatThanField(s, k, p)
           /\ Rule("gef", s, k, p) = GreatEqualField(s, k, p)
           /\ Rule("ltf", s, k, p) = LowerThanField(s, k, p)
           /\ Rule("lef", s, k, p) = LowerEqualField(s, k, p)
BY DEF Rule

\* Answers made of a comparison do not panic.
LEMMA AnswerValues ==
    ASSUME NEW a, a.err \in {"none", "parse", "unsupported", "syntax"}
    PROVE  Accepts(a) # "panic" /\ Excludes(a) # "panic"
BY DEF Accepts, Excludes, Accept

\* The comparisons return one of four errors, or none and a bool.
LEMMA ComparisonErrors ==
    ASSUME NEW f, NEW v
    PROVE  /\ isGt(f, v).err \in {"none", "parse", "unsupported"}
           /\ isLt(f, v).err \in {"none", "parse", "unsupported"}
           /\ isGe(f, v).err \in {"none", "parse", "unsupported"}
           /\ isLe(f, v).err \in {"none", "parse", "unsupported"}
           /\ isEqual(f, v).err \in {"none", "parse", "unsupported"}
           /\ Range2(f, v).err \in {"none", "parse", "syntax"}
           /\ isContains(f, v).err \in {"none", "parse", "unsupported"}
<1>1. \A kinds, ok : Compare(kinds, f, v, ok).err \in {"none", "parse", "unsupported"}
  BY DEF Compare, Error, Answer
<1>2. isEqual(f, v).err \in {"none", "parse", "unsupported"}
  BY <1>1 DEF isEqual, Error, Answer
<1>3. Range2(f, v).err \in {"none", "parse", "syntax"}
  BY DEF Range2, isBetween, Error, Answer
<1>4. isContains(f, v).err \in {"none", "parse", "unsupported"}
  BY DEF isContains, Error, Answer
<1>5. QED
  BY <1>1, <1>2, <1>3, <1>4 DEF isGt, isLt, isGe, isLe

\* The only rules that panic, and when.
LEMMA RulePanicsOnly ==
    ASSUME NEW fn \in Functions, NEW s, NEW k, NEW p,
           Rule(fn, s, k, p) = "panic"
    PROVE  \/ fn = "method" /\ \A m \in Methods : p.value # Text(m)
           \/ fn = "regexp" /\ p.value \in BadPatterns
           \/ /\ fn \in {"ef", "nef"}
              /\ Named(s, p.value) # {}
              /\ ~(s[k].exported /\ FieldByName(s, p.value).exported)
<1>1. ASSUME fn \in {"required", "max_length", "min_length"} PROVE FALSE
  BY <1>1, RuleOf DEF Required, MaxLength, MinLength, LengthRule, NeedMessage,
     Accept
<1>2. ASSUME fn \in {"gt", "lt", "ge", "le", "eq", "ne", "between",
                     "not_between", "contains", "not_contains"}
      PROVE  FALSE
  BY <1>2, RuleOf, ComparisonErrors, AnswerValues
  DEF GreaterThan, LowerThan, GreaterEqual, LowerEqual, Equal, NotEqual,
      Between, NotBetween, ContainsItem, NotContains, NeedBoth, NeedMessage
<1>3. ASSUME fn \in {"email", "uuid", "phone", "url", "date_format"} PROVE FALSE
  BY <1>3, RuleOf DEF Email, UUID, Phone, Url, DateFormat, Match, StringOnly,
     NeedBoth, NeedMessage, Accept
<1>4. ASSUME fn = "round" PROVE FALSE
  BY <1>4, RuleOf DEF Round, NeedBoth, NeedMessage, Accept
<1>5. ASSUME fn \in {"gtf", "gef", "ltf", "lef"} PROVE FALSE
  BY <1>5, RuleOf DEF GreatThanField, GreatEqualField, LowerThanField,
     LowerEqualField, CompareField, NeedBoth, NeedMessage, Accept
<1>6. ASSUME fn = "regexp" PROVE p.value \in BadPatterns
  BY <1>6, RuleOf DEF Regexp, Match, StringOnly, NeedBoth, NeedMessage, Accept
<1>7. ASSUME fn \in {"ef", "nef"}
      PROVE  /\ Named(s, p.value) # {}
             /\ ~(s[k].exported /\ FieldByName(s, p.value).exported)
  BY <1>7, RuleOf DEF EqualField, NotEqualField, FieldsTest, NeedBoth,
     NeedMessage, Accept
<1>8. ASSUME fn = "method" PROVE \A m \in Methods : p.value # Text(m)
  BY <1>8, RuleOf DEF Method
<1>9. QED
  BY <1>1, <1>2, <1>3, <1>4, <1>5, <1>6, <1>7, <1>8 DEF Functions

-----------------------------------------------------------------------------
(* The conversions of Values.                                              *)

\* A number below the modulus is its own remainder.
LEMMA LowBits ==
    ASSUME NEW m \in Nat, NEW k \in Nat, m < k
    PROVE  m % k = m
<1>1. k > 0 /\ k \in Int
  OBVIOUS
<1>2. PICK q \in Int, z \in Int : m = k * q + z /\ 0 <= z /\ z < k /\ z = m % k
  <2>1. m % k \in Int /\ 0 <= m % k /\ m % k < k /\ m = k * (m \div k) + (m % k)
    BY <1>1
  <2>2. m \div k \in Int
    BY <1>1
  <2>3. QED
    BY <2>1, <2>2
<1>3. q = 0
  <2>1. CASE q >= 1
    <3>1. k * q >= k
      BY <1>1, <1>2, <2>1
    <3>2. QED
      BY <1>2, <3>1
  <2>2. CASE q <= -1
    <3>1. k * q <= -k
      BY <1>1, <1>2, <2>2
    <3>2. QED
      BY <1>2, <3>1
  <2>3. QED
    BY <1>2, <2>1, <2>2
<1>4. QED
  BY <1>2, <1>3

\* A conversion to a type leaves its numbers as they are.
LEMMA CastKeeps ==
    ASSUME NEW signed \in BOOLEAN, NEW b \in Widths, NEW n \in Int,
           Least(signed, b) <= n, n <= Greatest(signed, b)
    PROVE  Cast(n, signed, b) = n
<1>1. PICK h \in Nat \ {0} : 2^(b - 1) = h /\ 2^b = 2 * h
  BY ValuesAssumption
<1>2. 2 * h \in Nat
  BY <1>1
<1>3. CASE signed
  <2>1. n + h \in Nat /\ n + h < 2 * h
    BY <1>1, <1>3 DEF Least, Greatest
  <2>2. (n + h) % (2 * h) = n + h
    BY <1>2, <2>1, LowBits
  <2>3. Cast(n, signed, b) = ((n + h) % (2 * h)) - h
    BY <1>1, <1>3 DEF Cast
  <2>4. QED
    BY <2>2, <2>3
<1>4. CASE ~signed
  <2>1. n \in Nat /\ n < 2 * h
    BY <1>1, <1>4 DEF Least, Greatest
  <2>2. n % (2 * h) = n
    BY <1>2, <2>1, LowBits
  <2>3. QED
    BY <1>1, <1>4, <2>2 DEF Cast
<1>5. QED
  BY <1>3, <1>4

\* The type holds a zero, between its limits.
LEMMA LimitsOf ==
    ASSUME NEW signed \in BOOLEAN, NEW b \in Widths
    PROVE  /\ Least(signed, b) \in Int /\ Greatest(signed, b) \in Int
           /\ Least(signed, b) <= 0 /\ 0 <= Greatest(signed, b)
           /\ ~signed => Least(signed, b) = 0
<1>1. PICK h \in Nat \ {0} : 2^(b - 1) = h /\ 2^b = 2 * h
  BY ValuesAssumption
<1>2. QED
  BY <1>1 DEF Least, Greatest

\* What a conversion to an integer returns, with and without a default.
NumberOf(signed, b, v, def, x) ==
    /\ x.err \in {"none", "syntax", "range"}
    /\ Least(signed, b) <= x.n /\ x.n <= Greatest(signed, b)
    /\ x.err = "none" => v \in DOMAIN Literals /\ x.n = Literals[v]
    /\ x.err = "range" /\ def = <<>> =>
        /\ v \in DOMAIN Literals
        /\ \/ Literals[v] < 0 /\ x.n = Least(signed, b)
           \/ Literals[v] > 0 /\ x.n = Greatest(signed, b)
    /\ def # <<>> /\ x.err # "none" => x.n = def[1]

\* Every integer conversion returns such a number.
LEMMA IntegerRead ==
    ASSUME NEW signed \in BOOLEAN, NEW b \in Widths, NEW v \in Strings,
           NEW def \in Seq(Int),
           def # <<>> => Least(signed, b) <= def[1] /\ def[1] <= Greatest(signed, b)
    PROVE  LET x == Parse(v, signed, b)
           IN  NumberOf(signed, b, v, def, OrDefault(v, def, x, Cast(x.n, signed, b)))
<1> DEFINE x == Parse(v, signed, b)
<1>1. PICK lo \in Int, hi \in Int :
         /\ lo = Least(signed, b) /\ hi = Greatest(signed, b)
         /\ lo <= 0 /\ 0 <= hi /\ (~signed => lo = 0)
  BY LimitsOf
<1>2. v \in DOMAIN Literals => Literals[v] \in Int /\ v # ""
  BY ValuesAssumption
<1>3. /\ x.n \in Int /\ lo <= x.n /\ x.n <= hi
      /\ x.err \in {"none", "syntax", "range"}
      /\ x.err = "none" => v \in DOMAIN Literals /\ x.n = Literals[v]
      /\ x.err = "range" => /\ v \in DOMAIN Literals
                            /\ \/ Literals[v] < 0 /\ x.n = lo
                               \/ Literals[v] > 0 /\ x.n = hi
  <2>1. CASE ~Syntax(v, signed)
    <3>1. x = [n |-> 0, err |-> "syntax"]
      BY <2>1 DEF Parse
    <3>2. QED
      BY <1>1, <3>1
  <2>2. CASE Syntax(v, signed)
    <3>1. v \in DOMAIN Literals /\ Literals[v] \in Int /\ (signed \/ Literals[v] >= 0)
      BY <1>2, <2>2 DEF Syntax
    <3>2. x = IF Literals[v] < lo THEN [n |-> lo, err |-> "range"]
              ELSE IF Literals[v] > hi THEN [n |-> hi, err |-> "range"]
              ELSE [n |-> Literals[v], err |-> "none"]
      BY <1>1, <2>2 DEF Parse
    <3> HIDE DEF x
    <3>3. CASE Literals[v] < lo
      BY <1>1, <3>1, <3>2, <3>3
    <3>4. CASE ~(Literals[v] < lo) /\ Literals[v] > hi
      BY <1>1, <3>1, <3>2, <3>4
    <3>5. CASE ~(Literals[v] < lo) /\ ~(Literals[v] > hi)
      BY <1>1, <3>1, <3>2, <3>5
    <3>6. QED
      BY <3>3, <3>4, <3>5
  <2>3. QED
    BY <2>1, <2>2
<1> HIDE DEF x
<1>4. Cast(x.n, signed, b) = x.n
  BY <1>1, <1>3, CastKeeps
<1>5. NumberOf(signed, b, v, def, OrDefault(v, def, x, x.n))
  <2>1. CASE (x.err # "none" \/ v = "") /\ def # <<>>
    <3>1. PICK y : y = OrDefault(v, def, x, x.n)
      OBVIOUS
    <3>2. y.n = def[1] /\ y.err = x.err
      BY <2>1, <3>1 DEF OrDefault
    <3>3. x.err # "none"
      BY <1>2, <1>3, <2>1
    <3>4. Least(signed, b) <= y.n /\ y.n <= Greatest(signed, b)
      BY <2>1, <3>2
    <3>5. NumberOf(signed, b, v, def, y)
      BY <1>3, <2>1, <3>2, <3>3, <3>4 DEF NumberOf
    <3>6. QED
      BY <3>1, <3>5
  <2>2. CASE ~((x.err # "none" \/ v = "") /\ def # <<>>)
    <3>1. PICK y : y = OrDefault(v, def, x, x.n)
      OBVIOUS
    <3>2. y.n = x.n /\ y.err = x.err
      BY <2>2, <3>1 DEF OrDefault
    <3>3. Least(signed, b) <= y.n /\ y.n <= Greatest(signed, b)
      BY <1>1, <1>3, <3>2
    <3>4. NumberOf(signed, b, v, def, y)
      BY <1>1, <1>3, <2>2, <3>2, <3>3 DEF NumberOf
    <3>5. QED
      BY <3>1, <3>4
  <2>3. QED
    BY <2>1, <2>2
<1>6. QED
  BY <1>4, <1>5, Zenon DEF x

\* Float32, Float64 and Bool.
LEMMA OtherRead ==
    ASSUME NEW v \in Strings, NEW def
    PROVE  /\ \A y \in {FloatValue(v, def), BoolValue(v, def)} :
                def # <<>> /\ y.err # "none" => y.n = def[1]
           /\ FloatValue(v, def).err = "none" =>
                FloatValue(v, def).n = Literals[v]
<1>1. def # <<>> /\ BoolValue(v, def).err # "none" => BoolValue(v, def).n = def[1]
  <2>1. CASE v \in {"", "1", "true", "0", "false"}
    <3>1. BoolValue(v, def).err = "none"
      BY <2>1 DEF BoolValue
    <3>2. QED
      BY <3>1
  <2>2. CASE v \notin {"", "1", "true", "0", "false"}
    BY <2>2 DEF BoolValue
  <2>3. QED
    BY <2>1, <2>2
<1>2. CASE Syntax(v, TRUE)
  <2>1. v \in DOMAIN Literals /\ v # ""
    BY <1>2, ValuesAssumption DEF Syntax
  <2>2. FloatValue(v, def) = [n |-> Literals[v], err |-> "none"]
    BY <1>2, <2>1 DEF FloatValue, OrDefault
  <2>3. QED
    BY <1>1, <2>2
<1>3. CASE ~Syntax(v, TRUE)
  <2>1. /\ FloatValue(v, def).err = "syntax"
        /\ def # <<>> => FloatValue(v, def).n = def[1]
    BY <1>3 DEF FloatValue, OrDefault
  <2>2. QED
    BY <1>1, <2>1
<1>4. QED
  BY <1>2, <1>3

\* An empty text is no number.
LEMMA EmptyRead ==
    ASSUME NEW def, NEW signed \in BOOLEAN, NEW b
    PROVE  /\ OrDefault("", def, Parse("", signed, b), Cast(Parse("", signed, b).n, signed, b)).err = "syntax"
           /\ FloatValue("", def).err = "syntax"
           /\ BoolValue("", def).err = "none"
<1>1. ~Syntax("", signed) /\ ~Syntax("", TRUE)
  BY ValuesAssumption DEF Syntax
<1>2. Parse("", signed, b).err = "syntax"
  BY <1>1 DEF Parse
<1>3. \A x, n : OrDefault("", def, x, n).err = x.err
  BY DEF OrDefault
<1>4. FloatValue("", def).err = "syntax"
  BY <1>1, <1>3 DEF FloatValue
<1>5. BoolValue("", def).err = "none"
  BY DEF BoolValue
<1>6. QED
  BY <1>2, <1>3, <1>4, <1>5, Zenon

\* The reading a conversion leaves.
Conversion(acc, v, def) ==
    /\ acc \in Accessors /\ v \in Strings /\ def \in Defaults
    /\ \A k \in DOMAIN def : Fits(acc, def[k])
    /\ reading = [acc |-> acc, v |-> v, def |-> def, ret |-> Convert(acc, v, def)]

\* It is sound.
LEMMA ConversionSound ==
    ASSUME NEW acc, NEW v, NEW def, Conversion(acc, v, def)
    PROVE  NoWrapAround /\ DefaultForBadOnly /\ ReadersAgree
<1>1. /\ v \in Strings /\ def \in Seq(Int)
      /\ \A k \in DOMAIN def : Fits(acc, def[k])
      /\ acc \in Accessors
  BY ValuesAssumption DEF Conversion
<1>2. PICK y : y = Convert(acc, v, def)
  OBVIOUS
<1>3. reading.acc = acc /\ reading.v = v /\ reading.def = def /\ Ret = y
  BY <1>2 DEF Conversion, Ret
<1>4. def # <<>> => 1 \in DOMAIN def
  BY <1>1
<1>5. CASE acc.kind \in {"signed", "unsigned"}
  <2>1. PICK signed \in BOOLEAN : signed = (acc.kind = "signed")
    OBVIOUS
  <2>2. acc.bits \in Widths
    BY <1>1, <1>5 DEF Accessors
  <2>3. \A n : Fits(acc, n) <=> Least(signed, acc.bits) <= n /\ n <= Greatest(signed, acc.bits)
    BY <1>5, <2>1 DEF Fits
  <2>4. def # <<>> =>
          Least(signed, acc.bits) <= def[1] /\ def[1] <= Greatest(signed, acc.bits)
    BY <1>1, <1>4, <2>3
  <2>5. y = OrDefault(v, def, Parse(v, signed, acc.bits),
                      Cast(Parse(v, signed, acc.bits).n, signed, acc.bits))
    BY <1>2, <1>5, <2>1 DEF Convert, SignedValue, UnsignedValue
  <2>6. NumberOf(signed, acc.bits, v, def, y)
    BY <1>1, <2>2, <2>4, <2>5, IntegerRead
  <2>7. v = "" => y.err = "syntax"
    <3>1. SUFFICES ASSUME v = "" PROVE y.err = "syntax"
      OBVIOUS
    <3>2. QED
      BY <2>5, <3>1, EmptyRead
  <2>8. NoWrapAround
    <3>1. PICK lo \in Int, hi \in Int :
             lo = Least(signed, acc.bits) /\ hi = Greatest(signed, acc.bits)
      BY <2>2, LimitsOf
    <3>2. Fits(acc, y.n)
      BY <2>3, <2>6 DEF NumberOf
    <3>3. y.err = "none" => y.n = Literals[v]
      BY <2>6 DEF NumberOf
    <3>4. ASSUME y.err = "range", def = <<>>
          PROVE  /\ Literals[v] > 0 => ~Fits(acc, y.n + 1)
                 /\ Literals[v] < 0 => ~Fits(acc, y.n - 1)
      <4>1. /\ Literals[v] \in Int
            /\ \/ Literals[v] < 0 /\ y.n = lo
               \/ Literals[v] > 0 /\ y.n = hi
        BY <2>6, <3>1, <3>4, ValuesAssumption DEF NumberOf
      <4>2. ~(lo <= lo - 1) /\ ~(hi + 1 <= hi)
        OBVIOUS
      <4>3. CASE Literals[v] < 0
        BY <2>3, <3>1, <4>1, <4>2, <4>3
      <4>4. CASE Literals[v] > 0
        BY <2>3, <3>1, <4>1, <4>2, <4>4
      <4>5. QED
        BY <4>1, <4>3, <4>4
    <3>5. QED
      BY <1>3, <3>2, <3>3, <3>4 DEF NoWrapAround
  <2>9. DefaultForBadOnly
    BY <1>3, <1>5, <2>6, <2>7 DEF DefaultForBadOnly, NumberOf
  <2>10. QED
    BY <1>3, <1>5, <2>8, <2>9 DEF ReadersAgree
<1>6. CASE acc.kind \in {"float", "bool"}
  <2>1. y = IF acc.kind = "float" THEN FloatValue(v, def) ELSE BoolValue(v, def)
    BY <1>2, <1>6 DEF Convert
  <2>2. /\ def # <<>> /\ y.err # "none" => y.n = def[1]
        /\ acc.kind = "float" /\ y.err = "none" => y.n = Literals[v]
    BY <1>1, <1>6, <2>1, OtherRead
  <2>3. v = "" => (y.err = "none" <=> acc.kind = "bool")
    BY <1>6, <2>1, EmptyRead
  <2>4. DefaultForBadOnly
    BY <1>3, <1>6, <2>2, <2>3 DEF DefaultForBadOnly
  <2>5. QED
    BY <1>3, <1>6, <2>4 DEF NoWrapAround, ReadersAgree
<1>7. QED
  BY <1>1, <1>5, <1>6 DEF Accessors

-----------------------------------------------------------------------------
(* The parameters of Values.                                               *)

\* A turn of the loop of ToURLValues, and the lists the turns leave.
Added(name, values, x) ==
    IF x.Key = name THEN Append(values, x.Val) ELSE values

ValuesTrace(a, name, p) ==
    /\ a \in [0..Len(p) -> Seq(Strings)] /\ a[0] = <<>>
    /\ \A k \in 1..Len(p) : a[k] = Added(name, a[k - 1], p[k])

\* The value of a parameter is a string of a request.
LEMMA ParamValue ==
    ASSUME NEW p \in Seq([Key : STRING, Val : Strings]), NEW k \in 1..Len(p)
    PROVE  p[k].Val \in Strings
<1>1. p[k] \in [Key : STRING, Val : Strings]
  BY ElementOfSeq, Zenon
<1>2. QED
  BY <1>1

\* The loop goes through such a list of lists.
LEMMA ValuesSteps ==
    ASSUME NEW name, NEW p \in Seq([Key : STRING, Val : Strings])
    PROVE  \E a : ValuesTrace(a, name, p) /\ ToURLValues(p, name) = a[Len(p)]
<1> DEFINE n  == Len(p)
           A  == Seq(Strings)
           it == CHOOSE g : g = [t \in SUBSET (DOMAIN p) |->
                   IF t = {} THEN <<>> ELSE Added(name, g[t \ {Max(t)}], p[Max(t)])]
<1>1. ToURLValues(p, name) = it[DOMAIN p]
  BY Zenon DEF ToURLValues, FoldLeft, MapThenFoldSet, it, Added
<1>2. n \in Nat /\ DOMAIN p = 1..n
  BY DEF n
<1>3. PICK op \in [A \X (1..n) -> A] :
         op = [x \in A \X (1..n) |-> Added(name, x[1], p[x[2]])]
  <2> HIDE DEF it
  <2>1. ASSUME NEW l \in A, NEW k \in 1..n PROVE Added(name, l, p[k]) \in A
    <3>1. p[k].Val \in Strings
      BY <1>2, ParamValue
    <3>2. Append(l, p[k].Val) \in A
      BY <3>1 DEF A
    <3>3. QED
      BY <3>2, Zenon DEF Added
  <2>2. QED
    BY <2>1
<1> HIDE DEF n, it
<1>4. \A l \in A : \A k \in 1..n : op[<<l, k>>] = Added(name, l, p[k])
  BY <1>3
<1>5. <<>> \in A
  OBVIOUS
<1> HIDE DEF A
<1>6. PICK g : Iterates(g, A, <<>>, op, n)
  BY <1>2, <1>5, IterExists
<1>7. g = [t \in SUBSET (DOMAIN p) |->
             IF t = {} THEN <<>> ELSE Added(name, g[t \ {Max(t)}], p[Max(t)])]
  <2>1. /\ g \in [SUBSET (1..n) -> A]
        /\ \A t \in SUBSET (1..n) :
             g[t] = IF t = {} THEN <<>> ELSE op[<<g[t \ {Max(t)}], Max(t)>>]
    BY <1>6, Zenon DEF Iterates
  <2>2. \A t \in SUBSET (1..n) : t # {} =>
           g[t \ {Max(t)}] \in A /\ Max(t) \in 1..n
    BY <1>2, <1>5, <1>6, IterInside
  <2>3. \A t \in SUBSET (1..n) :
          g[t] = IF t = {} THEN <<>> ELSE Added(name, g[t \ {Max(t)}], p[Max(t)])
    BY <1>4, <2>1, <2>2, Zenon
  <2>4. QED
    BY <1>2, <2>1, <2>3
<1>8. it = [t \in SUBSET (DOMAIN p) |->
             IF t = {} THEN <<>> ELSE Added(name, it[t \ {Max(t)}], p[Max(t)])]
  BY <1>7, Zenon DEF it
<1>9. Follows(it, A, <<>>, op, n)
  <2>1. it[{}] = <<>>
    BY <1>8
  <2>2. ASSUME NEW k \in 1..n, it[1..(k - 1)] \in A
        PROVE  it[1..k] = op[<<it[1..(k - 1)], k>>]
    <3>1. k \in Nat \ {0}
      BY <1>2
    <3>2. 1..k # {} /\ Max(1..k) = k /\ (1..k) \ {k} = 1..(k - 1)
      BY <3>1, Prefix
    <3>3. 1..k \in SUBSET (DOMAIN p)
      BY <1>2
    <3>4. it[1..k] = Added(name, it[(1..k) \ {Max(1..k)}], p[Max(1..k)])
      BY <1>8, <3>2, <3>3, Zenon
    <3>5. it[1..k] = Added(name, it[1..(k - 1)], p[k])
      BY <3>2, <3>4
    <3>6. QED
      BY <1>4, <2>2, <3>5, Zenon
  <2>3. QED
    BY <2>1, <2>2, Zenon DEF Follows
<1>10. PICK a : Trace(a, A, <<>>, op, n, it[1..n])
  BY <1>2, <1>5, <1>9, TraceOf
<1>11. ValuesTrace(a, name, p)
  <2>1. a \in [0..n -> A] /\ a[0] = <<>>
    BY <1>10, Zenon DEF Trace
  <2>2. ASSUME NEW k \in 1..n PROVE a[k] = Added(name, a[k - 1], p[k])
    <3>1. k - 1 \in 0..n
      BY <1>2
    <3>2. a[k] = op[<<a[k - 1], k>>] /\ a[k - 1] \in A
      BY <1>10, <2>1, <3>1, Zenon DEF Trace
    <3>3. QED
      BY <1>4, <3>2, Zenon
  <2>3. QED
    BY <2>1, <2>2, Zenon DEF ValuesTrace, n, A
<1>12. ToURLValues(p, name) = a[Len(p)]
  BY <1>1, <1>2, <1>10, Zenon DEF n, Trace
<1>13. QED
  BY <1>11, <1>12, Zenon

\* The list begins with the first parameter of the name, which byName returns,
\* and is empty when there is none.
LEMMA FirstOfList ==
    ASSUME NEW name, NEW p \in Seq([Key : STRING, Val : Strings])
    PROVE  LET l == ToURLValues(p, name)
           IN  /\ l \in Seq(Strings)
               /\ IF \E k \in DOMAIN p : p[k].Key = name
                    THEN Len(l) > 0 /\ l[1] = byName(p, name)
                    ELSE l = <<>> /\ byName(p, name) = ""
<1> DEFINE at == {k \in DOMAIN p : p[k].Key = name}
<1>1. PICK a : ValuesTrace(a, name, p) /\ ToURLValues(p, name) = a[Len(p)]
  BY ValuesSteps
<1>2. PICK n \in Nat : n = Len(p) /\ DOMAIN p = 1..n
  OBVIOUS
<1>3. /\ a \in [0..n -> Seq(Strings)] /\ a[0] = <<>>
      /\ \A k \in 1..n : a[k] = Added(name, a[k - 1], p[k])
  BY <1>1, <1>2 DEF ValuesTrace
<1>4. n \in 0..n /\ ToURLValues(p, name) = a[n]
  BY <1>1, <1>2
<1>5. CASE at = {}
  <2> DEFINE S == {k \in 0..n : a[k] = <<>>}
  <2>1. 0 \in S
    BY <1>3
  <2>2. ASSUME NEW k \in 1..n, k - 1 \in S PROVE k \in S
    <3>1. p[k].Key # name
      BY <1>2, <1>5
    <3>2. a[k] = a[k - 1]
      BY <1>3, <3>1 DEF Added
    <3>3. QED
      BY <2>2, <3>2
  <2> HIDE DEF S
  <2>3. n \in S
    BY <1>4, <2>1, <2>2, UpTo
  <2>4. a[n] = <<>>
    BY <2>3 DEF S
  <2>5. byName(p, name) = ""
    BY <1>5 DEF byName
  <2>6. QED
    <3>1. ~\E k \in DOMAIN p : p[k].Key = name
      BY <1>5
    <3>2. <<>> \in Seq(Strings)
      OBVIOUS
    <3>3. ToURLValues(p, name) = <<>>
      BY <1>4, <2>4
    <3>4. QED
      BY <2>5, <3>1, <3>2, <3>3, Zenon
<1>6. CASE at # {}
  <2>1. at \in SUBSET Nat
    BY <1>2
  <2>2. PICK f \in at : f = Min(at) /\ \A y \in at : f <= y
    <3> HIDE DEF at
    <3>1. QED
      BY <1>6, <2>1, MinIsLeast
  <2>3. /\ f \in 1..n /\ p[f].Key = name /\ p[f].Val \in Strings
        /\ byName(p, name) = p[f].Val
    <3>1. byName(p, name) = IF at = {} THEN "" ELSE p[Min(at)].Val
      BY Zenon DEF byName
    <3>2. byName(p, name) = p[f].Val
      <4> HIDE DEF at
      <4>1. QED
        BY <1>6, <2>2, <3>1
    <3>3. f \in 1..n /\ p[f].Key = name
      BY <1>2, <2>2
    <3>4. p[f].Val \in Strings
      BY <1>2, <3>3, ParamValue
    <3>5. QED
      BY <3>2, <3>3, <3>4
  <2> DEFINE S == {k \in 0..n :
                    /\ k < f => a[k] = <<>>
                    /\ k >= f => Len(a[k]) > 0 /\ a[k][1] = p[f].Val}
  <2>4. 0 \in S
    BY <1>3, <2>3
  <2>5. ASSUME NEW k \in 1..n, k - 1 \in S PROVE k \in S
    <3>1. /\ a[k - 1] \in Seq(Strings) /\ p[k].Val \in Strings
          /\ a[k] = Added(name, a[k - 1], p[k])
      <4>1. k - 1 \in 0..n
        OBVIOUS
      <4>2. a[k - 1] \in Seq(Strings)
        BY <1>3, <4>1
      <4>3. p[k].Val \in Strings
        BY <1>2, ParamValue
      <4>4. QED
        BY <1>3, <4>2, <4>3
    <3>2. CASE k < f
      <4>1. p[k].Key # name
        <5>1. k \notin at
          <6> HIDE DEF at
          <6>1. QED
            BY <2>2, <2>3, <3>2
        <5>2. QED
          BY <1>2, <5>1
      <4>2. a[k] = a[k - 1]
        BY <3>1, <4>1 DEF Added
      <4>3. QED
        BY <2>3, <2>5, <3>2, <4>2
    <3>3. CASE k = f
      <4>1. a[k - 1] = <<>> /\ p[k].Key = name
        <5>1. p[k].Key = name
          BY <2>3, <3>3
        <5>2. k - 1 < f /\ k - 1 \in 0..n
          BY <2>3, <3>3
        <5>3. a[k - 1] = <<>>
          BY <2>5, <5>2 DEF S
        <5>4. QED
          BY <5>1, <5>3
      <4>2. a[k] = Append(<<>>, p[f].Val)
        BY <3>1, <3>3, <4>1 DEF Added
      <4>3. Len(a[k]) = 1 /\ a[k][1] = p[f].Val
        BY <2>3, <4>2
      <4>4. QED
        BY <3>3, <4>3
    <3>4. CASE k > f
      <4>1. Len(a[k - 1]) > 0 /\ a[k - 1][1] = p[f].Val
        BY <2>3, <2>5, <3>4
      <4>2. Len(a[k]) > 0 /\ a[k][1] = p[f].Val
        BY <3>1, <4>1 DEF Added
      <4>3. QED
        BY <2>3, <3>4, <4>2
    <3>5. QED
      BY <2>3, <3>2, <3>3, <3>4
  <2> HIDE DEF S
  <2>6. n \in S
    BY <1>4, <2>4, <2>5, UpTo
  <2>7. Len(a[n]) > 0 /\ a[n][1] = p[f].Val
    BY <2>3, <2>6 DEF S
  <2>8. \E k \in DOMAIN p : p[k].Key = name
    BY <1>2, <2>3
  <2>9. QED
    BY <1>3, <1>4, <2>3, <2>7, <2>8
<1>7. QED
  BY <1>5, <1>6

\* The reading of a path parameter, alone and as a list.
Parameter(p, key) ==
    /\ p \in ParamLists
    /\ reading = [acc |-> [kind |-> "param"], params |-> p, key |-> key,
                  ret |-> byName(p, key), list |-> NewValues(ToURLValues(p, key))]

\* It is sound, and the readers agree.
LEMMA ParameterSound ==
    ASSUME NEW p, NEW key, Parameter(p, key)
    PROVE  NoWrapAround /\ DefaultForBadOnly /\ ReadersAgree
<1>1. p \in Seq([Key : STRING, Val : Strings])
  BY ValuesAssumption DEF Parameter
<1>2. PICK l : l = ToURLValues(p, key)
  OBVIOUS
<1>3. /\ l \in Seq(Strings)
      /\ IF \E k \in DOMAIN p : p[k].Key = key
           THEN Len(l) > 0 /\ l[1] = byName(p, key)
           ELSE l = <<>> /\ byName(p, key) = ""
  BY <1>1, <1>2, FirstOfList
<1>4. PICK m \in Nat : m = Len(l) /\ DOMAIN l = 1..m
  <2>1. l \in Seq(Strings)
    BY <1>3
  <2>2. QED
    BY <2>1
<1>5. PICK b : b = [k \in 1..m |-> ""]
  OBVIOUS
<1>6. NewValues(l) = b \o l
  BY <1>4, <1>5 DEF NewValues
<1>7. b \in Seq(Strings) /\ Len(b) = m /\ \A k \in 1..m : b[k] = ""
  <2>1. "" \in Strings
    BY ValuesAssumption
  <2>2. b \in [1..m -> Strings]
    BY <1>5, <2>1
  <2>3. b \in Seq(Strings)
    BY <2>2, SeqDef
  <2>4. Len(b) = m
    <3>1. Len(b) \in Nat /\ DOMAIN b = 1..Len(b)
      BY <2>3, LenProperties, Zenon
    <3>2. PICK x \in Nat : x = Len(b)
      BY <3>1
    <3>3. 1..x = 1..m
      BY <2>2, <3>1, <3>2
    <3>4. \A z \in Nat : z \in 1..x <=> z \in 1..m
      BY <3>3
    <3>5. x <= m /\ m <= x
      <4>1. (x \in 1..x <=> x \in 1..m) /\ (m \in 1..x <=> m \in 1..m)
        BY <3>4
      <4>2. QED
        BY <4>1
    <3>6. QED
      BY <3>2, <3>5
  <2>5. QED
    BY <1>5, <2>3, <2>4
<1>8. /\ Len(b \o l) = m + m
      /\ \A k \in 1..m : (b \o l)[k] = ""
      /\ m > 0 => (b \o l)[m + 1] = l[1]
  <2>1. l \in Seq(Strings) /\ Len(l) = m
    BY <1>3, <1>4
  <2>2. /\ Len(b \o l) = Len(b) + Len(l)
        /\ \A k \in 1..(Len(b) + Len(l)) :
             (b \o l)[k] = IF k <= Len(b) THEN b[k] ELSE l[k - Len(b)]
    BY <1>7, <2>1, ConcatProperties, Zenon
  <2>3. PICK c : c = b \o l
    OBVIOUS
  <2>4. \A k \in 1..(m + m) : c[k] = IF k <= m THEN b[k] ELSE l[k - m]
    BY <1>7, <2>1, <2>2, <2>3
  <2>5. m > 0 => m + 1 \in 1..(m + m) /\ ~(m + 1 <= m) /\ (m + 1) - m = 1
    OBVIOUS
  <2>6. QED
    <3>1. Len(c) = m + m
      BY <1>7, <2>1, <2>2, <2>3
    <3>2. ASSUME NEW k \in 1..m PROVE c[k] = ""
      <4>1. k \in 1..(m + m) /\ k <= m
        OBVIOUS
      <4>2. QED
        BY <1>7, <2>4, <4>1
    <3>3. ASSUME m > 0 PROVE c[m + 1] = l[1]
      BY <2>4, <2>5, <3>3
    <3>4. QED
      BY <2>3, <3>1, <3>2, <3>3
<1>9. PICK list : list = b \o l
  OBVIOUS
<1>10. /\ reading.acc.kind = "param" /\ reading.params = p /\ reading.key = key
       /\ Ret = byName(p, key) /\ reading.list = list
  BY <1>2, <1>6, <1>9 DEF Parameter, Ret
<1>11. Len(list) \div 2 = m
  <2>1. (m + m) \div 2 = m
    OBVIOUS
  <2>2. QED
    BY <1>8, <1>9, <2>1
<1>12. ReadersAgree
  BY <1>3, <1>4, <1>8, <1>9, <1>10, <1>11 DEF ReadersAgree
<1>13. QED
  BY <1>10, <1>12 DEF NoWrapAround, DefaultForBadOnly, Converted

-----------------------------------------------------------------------------
(* The invariant.                                                          *)

\* The outcome in the three parts of FirstRefusal, and panics with their cause.
Outcome ==
    phase = "done" =>
        /\ result.out \in {"nil", "validation", "error", "panic"}
        /\ result.out = "nil" => i > Len(st)
        /\ result.out = "validation" =>
              /\ result.field = st[i].name
              /\ result.rule = Piece.key
              /\ Param(Piece.args).out = "ok"
        /\ result.out \in {"error", "panic"} =>
              i \in DOMAIN st /\ r \in DOMAIN st[i].tag /\ Blocks(i, r)
        /\ result.out = "panic" =>
              /\ Known
              /\ library[Piece.key] # "custom"
              /\ Rule(library[Piece.key], st, i, Param(Piece.args)) = "panic"

\* What the loops have passed does not block.
Passed ==
    phase # "idle" =>
        \A k \in DOMAIN st : \A n \in DOMAIN st[k].tag :
            Before(k, n) => ~Blocks(k, n)

ValidateInv == Position /\ LibraryOK /\ Passed /\ Outcome

\* The types of the struct and of its tags.
LEMMA StructTypes ==
    ASSUME Position
    PROVE  /\ st \in Seq(Fields) /\ DistinctNames(st)
           /\ Len(st) \in Nat /\ DOMAIN st = 1..Len(st)
           /\ \A k \in DOMAIN st :
                 /\ st[k] \in Fields
                 /\ Len(st[k].tag) \in Nat
                 /\ DOMAIN st[k].tag = 1..Len(st[k].tag)
<1>1. st \in Seq(Fields) /\ DistinctNames(st)
  <2>1. CASE st = <<>>
    BY <2>1 DEF DistinctNames
  <2>2. CASE st \in Structs
    BY <2>2, ValidatorsAssumption
  <2>3. QED
    BY <2>1, <2>2 DEF Position
<1>2. Len(st) \in Nat /\ DOMAIN st = 1..Len(st)
  BY <1>1
<1>3. ASSUME NEW k \in DOMAIN st
      PROVE  /\ st[k] \in Fields
             /\ Len(st[k].tag) \in Nat
             /\ DOMAIN st[k].tag = 1..Len(st[k].tag)
  <2>1. st[k] \in Fields
    BY <1>1, <1>3
  <2>2. st[k].tag \in Seq([key : STRING, args : Seq(Split(Tokens))])
    BY <2>1 DEF Fields
  <2>3. QED
    BY <2>1, <2>2
<1>4. QED
  BY <1>1, <1>2, <1>3

\* The rules init registers.
LEMMA RegisteredOK ==
    library = Registered => LibraryOK
BY DEF LibraryOK, Registered, Functions, NoMatch

LEMMA ValidateStart == Init => ValidateInv
<1> SUFFICES ASSUME Init PROVE ValidateInv
  OBVIOUS
<1>1. Position /\ Passed /\ Outcome
  BY DEF Init, Position, Passed, Outcome
<1>2. LibraryOK
  BY RegisteredOK DEF Init
<1>3. QED
  BY <1>1, <1>2 DEF ValidateInv

\* A turn of the inner loop that passes the current piece.
LEMMA PassPiece ==
    ASSUME ValidateInv, AtPiece, ~Blocks(i, r), r' = r + 1,
           UNCHANGED <<library, st, i, phase, result>>
    PROVE  ValidateInv'
<1>1. /\ Position /\ LibraryOK /\ Passed /\ phase = "check"
      /\ i \in DOMAIN st /\ r \in DOMAIN st[i].tag
  <2>1. Position /\ LibraryOK /\ Passed /\ phase = "check"
        /\ i <= Len(st) /\ r <= Len(st[i].tag)
    BY DEF ValidateInv, AtPiece
  <2>2. i \in DOMAIN st
    BY <2>1, StructTypes DEF Position
  <2>3. QED
    BY <2>1, <2>2, StructTypes DEF Position
<1>2. Position' /\ LibraryOK' /\ Outcome'
  BY <1>1 DEF Position, LibraryOK, Outcome
<1>3. ASSUME NEW k \in DOMAIN st, NEW n \in DOMAIN st[k].tag, Before(k, n)'
      PROVE  ~Blocks(k, n)
  <2>1. k \in Nat /\ n \in Nat /\ i \in Nat /\ r \in Nat
    BY <1>1, StructTypes DEF Position
  <2>2. Before(k, n) \/ (k = i /\ n = r)
    BY <1>3, <2>1 DEF Before
  <2>3. QED
    BY <1>1, <2>2 DEF Passed
<1>4. Passed'
  BY <1>1, <1>3 DEF Passed, Blocks, Verdicts
<1>5. QED
  BY <1>2, <1>4 DEF ValidateInv

\* The end of the loop: the struct is left where it is.
LEMMA StopStep ==
    ASSUME ValidateInv, phase = "check", NEW res, Stop(res), Outcome'
    PROVE  ValidateInv'
<1>1. Position' /\ LibraryOK'
  BY DEF ValidateInv, Position, LibraryOK, Stop
<1>2. Passed'
  BY DEF ValidateInv, Passed, Before, Blocks, Verdicts, Stop
<1>3. QED
  BY <1>1, <1>2 DEF ValidateInv

\* Where the loop stands is a piece.
LEMMA PieceExists ==
    ASSUME Position, AtPiece
    PROVE  i \in DOMAIN st /\ r \in DOMAIN st[i].tag /\ phase = "check"
<1>1. i <= Len(st) /\ r <= Len(st[i].tag) /\ phase = "check"
  BY DEF AtPiece
<1>2. i \in DOMAIN st
  BY <1>1, StructTypes DEF Position
<1>3. QED
  BY <1>1, <1>2, StructTypes DEF Position

\* A step of the loops.
LEMMA CheckInv ==
    ASSUME ValidateInv, Check
    PROVE  ValidateInv'
<1>0. Position /\ LibraryOK
  BY DEF ValidateInv
<1>1. CASE NextField
  <2>1. /\ phase = "check" /\ i <= Len(st) /\ r > Len(st[i].tag)
        /\ i' = i + 1 /\ r' = 1
        /\ UNCHANGED <<library, st, phase, result>>
    BY <1>1 DEF NextField
  <2>2. Position' /\ LibraryOK' /\ Outcome'
    BY <1>0, <2>1 DEF Position, LibraryOK, Outcome
  <2>3. ASSUME NEW k \in DOMAIN st, NEW n \in DOMAIN st[k].tag, Before(k, n)'
        PROVE  ~Blocks(k, n)
    <3>1. k \in Nat /\ n \in 1..Len(st[k].tag) /\ i \in Nat /\ r \in Nat
          /\ Len(st[k].tag) \in Nat
      BY <1>0, StructTypes DEF Position
    <3>2. Before(k, n)
      BY <2>1, <2>3, <3>1 DEF Before
    <3>3. QED
      BY <2>1, <3>2 DEF ValidateInv, Passed
  <2>4. Passed'
    BY <2>1, <2>3 DEF Passed, Blocks, Verdicts
  <2>5. QED
    BY <2>2, <2>4 DEF ValidateInv
<1>2. CASE SkipPiece
  BY <1>2, PassPiece DEF SkipPiece, Piece, Blocks
<1>3. CASE RuleAccepts
  <2>1. /\ AtPiece /\ Known /\ Param(Piece.args).out = "ok"
        /\ "nil" \in Verdicts(st, i, r) /\ r' = r + 1
        /\ UNCHANGED <<library, st, i, phase, result>>
    BY <1>3 DEF RuleAccepts, Runs
  <2>2. ~Blocks(i, r)
    BY <2>1 DEF Blocks, Known, Piece
  <2>3. QED
    BY <2>1, <2>2, PassPiece
<1>4. CASE UnknownRule
  <2>1. /\ AtPiece /\ Piece.key # NoMatch /\ ~Known
        /\ Stop([Ok EXCEPT !.out = "error", !.err = "unknown"])
    BY <1>4 DEF UnknownRule
  <2>2. [Ok EXCEPT !.out = "error", !.err = "unknown"].out = "error"
    BY DEF Ok
  <2>3. Blocks(i, r)
    BY <2>1 DEF Blocks, Known, Piece
  <2>4. Outcome'
    BY <1>0, <2>1, <2>2, <2>3, PieceExists DEF Outcome, Stop, Blocks, Verdicts
  <2>5. QED
    BY <1>0, <2>1, <2>4, PieceExists, StopStep
<1>5. CASE BadParam
  <2>1. /\ AtPiece /\ Known /\ Param(Piece.args).out # "ok"
        /\ Stop([Ok EXCEPT !.out = "error", !.err = Param(Piece.args).out])
    BY <1>5 DEF BadParam
  <2>2. [Ok EXCEPT !.out = "error", !.err = Param(Piece.args).out].out = "error"
    BY DEF Ok
  <2>3. Blocks(i, r)
    BY <1>0, <2>1 DEF Blocks, Known, Piece, LibraryOK
  <2>4. Outcome'
    BY <1>0, <2>1, <2>2, <2>3, PieceExists DEF Outcome, Stop, Blocks, Verdicts
  <2>5. QED
    BY <1>0, <2>1, <2>4, PieceExists, StopStep
<1>6. CASE RuleRefuses
  <2>1. /\ AtPiece /\ Param(Piece.args).out = "ok"
        /\ \E v : Stop([out |-> "validation", err |-> v,
                        field |-> st[i].name, rule |-> Piece.key])
    BY <1>6 DEF RuleRefuses, Runs
  <2>2. PICK v : Stop([out |-> "validation", err |-> v, field |-> st[i].name,
                       rule |-> Piece.key])
    BY <2>1
  <2>3. Outcome'
    BY <2>1, <2>2 DEF Outcome, Stop, Piece
  <2>4. QED
    BY <1>0, <2>1, <2>2, <2>3, PieceExists, StopStep
<1>7. CASE RulePanics
  <2>1. /\ AtPiece /\ Known /\ "panic" \in Verdicts(st, i, r)
        /\ Stop([Ok EXCEPT !.out = "panic"])
    BY <1>7 DEF RulePanics, Runs
  <2>2. [Ok EXCEPT !.out = "panic"].out = "panic"
    BY DEF Ok
  <2>3. /\ library[Piece.key] # "custom"
        /\ Rule(library[Piece.key], st, i, Param(Piece.args)) = "panic"
        /\ "nil" \notin Verdicts(st, i, r)
    BY <2>1 DEF Verdicts, Piece
  <2>4. Blocks(i, r)
    BY <1>0, <2>1, <2>3 DEF Blocks, Known, Piece, LibraryOK
  <2>5. Outcome'
    BY <1>0, <2>1, <2>2, <2>3, <2>4, PieceExists
    DEF Outcome, Stop, Blocks, Verdicts, Known, Piece
  <2>6. QED
    BY <1>0, <2>1, <2>5, PieceExists, StopStep
<1>8. CASE EndLoop
  <2>1. phase = "check" /\ i > Len(st) /\ Stop(Ok) /\ Ok.out = "nil"
    BY <1>8 DEF EndLoop, Ok
  <2>2. Outcome'
    BY <2>1 DEF Outcome, Stop
  <2>3. QED
    BY <2>1, <2>2, StopStep
<1>9. QED
  BY <1>1, <1>2, <1>3, <1>4, <1>5, <1>6, <1>7, <1>8 DEF Check

\* RegisterValidator adds a name that is free.
LEMMA RegisterInv ==
    ASSUME ValidateInv, NEW key \in Custom, RegisterValidator(key)
    PROVE  ValidateInv'
<1>1. /\ phase = "idle"
      /\ library' = [k \in DOMAIN library \cup {key} |->
                       IF k = key THEN "custom" ELSE library[k]]
      /\ UNCHANGED <<st, i, r, phase, result>>
  BY DEF RegisterValidator
<1>2. Position' /\ Passed' /\ Outcome'
  BY <1>1 DEF ValidateInv, Position, Passed, Outcome
<1>3. LibraryOK'
  BY <1>1, ValidatorsAssumption DEF ValidateInv, LibraryOK
<1>4. QED
  BY <1>2, <1>3 DEF ValidateInv

\* Every step preserves the invariant.
LEMMA ValidateStep == ValidateInv /\ [Next]_vars => ValidateInv'
<1> SUFFICES ASSUME ValidateInv, [Next]_vars PROVE ValidateInv'
  OBVIOUS
<1>1. CASE UNCHANGED vars
  BY <1>1 DEF ValidateInv, Position, LibraryOK, Passed, Outcome, Before, Blocks,
     Verdicts, Known, Piece, vars
<1>2. ASSUME NEW s \in Structs, phase = "idle", Validate(s) PROVE ValidateInv'
  <2>1. /\ st' = s /\ i' = 1 /\ r' = 1 /\ phase' = "check"
        /\ UNCHANGED <<library, result>>
    BY <1>2 DEF Validate
  <2>2. Position' /\ LibraryOK' /\ Outcome'
    BY <1>2, <2>1 DEF ValidateInv, Position, LibraryOK, Outcome
  <2>3. ASSUME NEW k \in DOMAIN st', NEW n \in DOMAIN st'[k].tag
        PROVE  ~Before(k, n)'
    <3>1. k \in Nat \ {0} /\ n \in Nat \ {0}
      <4>1. s \in Seq(Fields) /\ k \in DOMAIN s
        BY <2>1, ValidatorsAssumption
      <4>2. s[k].tag \in Seq([key : STRING, args : Seq(Split(Tokens))])
        <5>1. s[k] \in Fields
          BY <4>1
        <5>2. QED
          BY <5>1 DEF Fields
      <4>3. n \in DOMAIN s[k].tag
        BY <2>1
      <4>4. QED
        BY <4>1, <4>2, <4>3
    <3>2. QED
      BY <2>1, <3>1 DEF Before
  <2>4. Passed'
    BY <2>3 DEF Passed
  <2>5. QED
    BY <2>2, <2>4 DEF ValidateInv
<1>3. CASE Return
  <2>1. st' = <<>> /\ i' = 1 /\ r' = 1 /\ phase' = "idle" /\ result' = Ok
        /\ library' = library
    BY <1>3 DEF Return
  <2>2. QED
    BY <2>1 DEF ValidateInv, Position, LibraryOK, Passed, Outcome
<1>4. QED
  BY <1>1, <1>2, <1>3, CheckInv, RegisterInv DEF Next

LEMMA ValidateHolds == Spec => []ValidateInv
BY ValidateStart, ValidateStep, PTL DEF Spec

\* The last reading is one of the two kinds, or there is none.
ReadingInv ==
    \/ reading = NoReading
    \/ \E acc, v, def : Conversion(acc, v, def)
    \/ \E p, key : Parameter(p, key)

\* Every step keeps the reading, drops it or replaces it.
LEMMA ReadingStep == ReadingInv /\ [DataNext]_dvars => ReadingInv'
<1> SUFFICES ASSUME ReadingInv, [DataNext]_dvars PROVE ReadingInv'
  OBVIOUS
<1>1. CASE reading' = reading
  BY <1>1 DEF ReadingInv, Conversion, Parameter
<1>2. CASE reading' = NoReading
  BY <1>2 DEF ReadingInv
<1>3. CASE CallValue
  <2>1. CASE \E acc \in Accessors, v \in Strings, def \in Defaults :
               ReadValue(acc, v, def)
    <3>1. PICK acc \in Accessors, v \in Strings, def \in Defaults :
             ReadValue(acc, v, def)
      BY <2>1
    <3>2. Conversion(acc, v, def)'
      BY <3>1 DEF ReadValue, Conversion
    <3>3. QED
      BY <3>2 DEF ReadingInv
  <2>2. CASE \E p \in ParamLists, key \in Keys : ReadParam(p, key)
    <3>1. PICK p \in ParamLists, key \in Keys : ReadParam(p, key)
      BY <2>2
    <3>2. Parameter(p, key)'
      BY <3>1 DEF ReadParam, Parameter
    <3>3. QED
      BY <3>2 DEF ReadingInv
  <2>3. QED
    BY <1>3, <2>1, <2>2 DEF CallValue
<1>4. QED
  BY <1>1, <1>2, <1>3 DEF DataNext, CallData, CallBind, From, CallReturns, dvars

-----------------------------------------------------------------------------
(* Theorems.                                                               *)

\* Validate reports the first piece that fails, whatever the rules answer.
THEOREM ReportsFirstRefusal == Spec => []FirstRefusal
<1>1. ValidateInv => FirstRefusal
  BY DEF ValidateInv, Passed, Outcome, FirstRefusal
<1>2. QED
  BY <1>1, ValidateHolds, PTL

\* Validate panics only for a missing method, a bad pattern, and a comparison
\* for equality with a field that is not exported.
THEOREM PanicsAreKnown == Spec => []PanicsOnly
<1>1. ASSUME ValidateInv, result.out = "panic"
      PROVE  \/ /\ library[Piece.key] = "method"
                /\ \A m \in Methods : Given # Text(m)
             \/ library[Piece.key] = "regexp" /\ Given \in BadPatterns
             \/ /\ library[Piece.key] \in {"ef", "nef"}
                /\ ~st[i].exported \/ \E j \in Named(st, Given) : ~st[j].exported
  <2>1. phase = "done"
    <3>1. Ok.out # "panic"
      BY DEF Ok
    <3>2. QED
      BY <1>1, <3>1 DEF ValidateInv, Position
  <2>2. /\ Known /\ library[Piece.key] # "custom"
        /\ Rule(library[Piece.key], st, i, Param(Piece.args)) = "panic"
    BY <1>1, <2>1 DEF ValidateInv, Outcome
  <2>3. library[Piece.key] \in Functions
    BY <1>1, <2>2 DEF ValidateInv, LibraryOK, Known
  <2>4. Named(st, Given) # {} =>
          \E j \in Named(st, Given) : FieldByName(st, Given) = st[j]
    BY DEF FieldByName
  <2>5. QED
    BY <2>2, <2>3, <2>4, RulePanicsOnly DEF Given
<1>2. ValidateInv => PanicsOnly
  BY <1>1 DEF PanicsOnly
<1>3. QED
  BY <1>2, ValidateHolds, PTL

-----------------------------------------------------------------------------
(* Rules compared with each other.                                         *)

\* The text that a field of some kind reads is a number or, of a float, NaN.
LEMMA ReadsNumber ==
    ASSUME NEW kind, NEW v, Reads(kind, v)
    PROVE  /\ ~IsNaN(v) => NumOf(v) \in Int
           /\ IsNaN(v) => kind = "float"
           /\ v # NoText
<1>1. IsNum(v) \/ (kind = "float" /\ IsNaN(v))
  BY DEF Reads, IsUint, IsInt
<1>2. v[1].w \in DOMAIN Num \cup NaNs
  BY <1>1 DEF IsNum, IsNaN
<1>3. NoText[1].w = ""
  BY DEF NoText, Text, Token
<1>4. v # NoText
  BY <1>2, <1>3, ValidatorsAssumption
<1>5. ~IsNaN(v) => NumOf(v) \in Int
  BY <1>1, ValidatorsAssumption DEF IsNum, NumOf
<1>6. IsNaN(v) => kind = "float"
  BY <1>1, ValidatorsAssumption DEF IsNum, IsNaN
<1>7. QED
  BY <1>4, <1>5, <1>6

\* A NaN is compared only by a field that is a float.
LEMMA NaNIsFloat ==
    ASSUME NEW f \in Fields, NEW v, Reads(f.kind, v), ~Comparable(f, v)
    PROVE  f.kind = "float"
BY ReadsNumber DEF Comparable, Fields

\* What a rule and its opposite answer.
Exclusive(x, y) ==
    {x, y} = {"nil", "message"} \/ (x = y /\ x \notin {"nil", "message"})

\* What the two halves of an order answer of a NaN.
Alike(x, y) == x = y /\ x # "nil"

LEMMA ExclusiveAnswers ==
    ASSUME NEW a, a.err \in {"none", "parse", "unsupported", "syntax"}
    PROVE  Exclusive(Accepts(a), Excludes(a))
BY DEF Exclusive, Accepts, Excludes, Accept

\* An answer without an error.
LEMMA AcceptsAnswer ==
    ASSUME NEW b
    PROVE  /\ b => Accepts(Answer(b)) = "nil"
           /\ ~b => Accepts(Answer(b)) = "message"
<1>1. Answer(b).err = "none" /\ Answer(b).ok = b
  BY Zenon DEF Answer
<1>2. QED
  BY <1>1, Zenon DEF Accepts, Accept

\* gt and le on the same value.
LEMMA GtLe ==
    ASSUME NEW f \in Fields, NEW v
    PROVE  IF Comparable(f, v) THEN Exclusive(Accepts(isGt(f, v)), Accepts(isLe(f, v)))
                               ELSE Alike(Accepts(isGt(f, v)), Accepts(isLe(f, v)))
<1>1. CASE f.kind \notin Ordered
  BY <1>1 DEF isGt, isLe, Compare, Error, Accepts, Exclusive, Alike
<1>2. CASE f.kind \in Ordered /\ ~Reads(f.kind, v)
  BY <1>2 DEF isGt, isLe, Compare, Error, Accepts, Exclusive, Alike
<1>3. CASE f.kind \in Ordered /\ Reads(f.kind, v)
  <2> DEFINE c == Comparable(f, v)
             a == c /\ f.num > NumOf(v)
             b == c /\ f.num <= NumOf(v)
  <2>1. isGt(f, v) = Answer(a) /\ isLe(f, v) = Answer(b)
    BY <1>3, Zenon DEF isGt, isLe, Compare
  <2>2. /\ c => (b <=> ~a)
        /\ ~c => ~a /\ ~b
    <3>1. c => NumOf(v) \in Int /\ f.num \in Int
      BY <1>3, ReadsNumber DEF Fields, Comparable
    <3> HIDE DEF c
    <3>2. QED
      BY <3>1
  <2> HIDE DEF a, b, c
  <2>3. CASE ~c
    BY <2>1, <2>2, <2>3, AcceptsAnswer DEF Alike, c
  <2>4. CASE c /\ a
    BY <2>1, <2>2, <2>4, AcceptsAnswer DEF Exclusive, c
  <2>5. CASE c /\ ~a
    BY <2>1, <2>2, <2>5, AcceptsAnswer DEF Exclusive, c
  <2>6. QED
    BY <2>3, <2>4, <2>5
<1>4. QED
  BY <1>1, <1>2, <1>3

\* The field of a given name.
LEMMA NamedField ==
    ASSUME NEW s \in Seq(Fields), NEW t, Named(s, t) # {}
    PROVE  FieldByName(s, t) \in Fields
<1>1. PICK j \in Named(s, t) : FieldByName(s, t) = s[j]
  BY DEF FieldByName
<1>2. QED
  BY <1>1 DEF Named

\* A name two fields of a struct cannot share finds its field.
LEMMA FieldByItsName ==
    ASSUME NEW s \in Seq(Fields), DistinctNames(s), NEW j \in DOMAIN s, NEW t,
           t = Text(s[j].name)
    PROVE  Named(s, t) = {j} /\ FieldByName(s, t) = s[j]
<1>1. \A k \in DOMAIN s : t = Text(s[k].name) => s[k].name = s[j].name
  BY DEF Text, Token
<1>2. Named(s, t) = {j}
  BY <1>1 DEF Named, DistinctNames
<1>3. QED
  BY <1>2 DEF FieldByName

\* Unordered, for the rules of any piece.
NaNCompared(fn, s, k, p) ==
    IF fn = "gt" THEN ~Comparable(s[k], p.value)
                 ELSE \E j \in Named(s, p.value) : s[k].nan \/ s[j].nan

\* A rule and its opposite on any struct.
LEMMA OppositeRules ==
    ASSUME NEW s \in Seq(Fields), DistinctNames(s), NEW k \in DOMAIN s, NEW p,
           p.message # NoText, p.value # NoText
    PROVE  \A o \in Opposites :
              IF o \in Halves /\ NaNCompared(o[1], s, k, p)
                THEN Alike(Rule(o[1], s, k, p), Rule(o[2], s, k, p))
                ELSE Exclusive(Rule(o[1], s, k, p), Rule(o[2], s, k, p))
<1>0. s[k] \in Fields
  OBVIOUS
<1>1. IF Comparable(s[k], p.value)
        THEN Exclusive(Rule("gt", s, k, p), Rule("le", s, k, p))
        ELSE Alike(Rule("gt", s, k, p), Rule("le", s, k, p))
  <2>1. /\ Rule("gt", s, k, p) = Accepts(isGt(s[k], p.value))
        /\ Rule("le", s, k, p) = Accepts(isLe(s[k], p.value))
    BY RuleOf DEF GreaterThan, LowerEqual, NeedBoth, NeedMessage
  <2>2. QED
    BY <1>0, <2>1, GtLe
<1>2. Exclusive(Rule("eq", s, k, p), Rule("ne", s, k, p))
  BY RuleOf, ComparisonErrors, ExclusiveAnswers
  DEF Equal, NotEqual, NeedBoth, NeedMessage
<1>3. Exclusive(Rule("between", s, k, p), Rule("not_between", s, k, p))
  BY RuleOf, ComparisonErrors, ExclusiveAnswers
  DEF Between, NotBetween, NeedBoth, NeedMessage
<1>4. Exclusive(Rule("contains", s, k, p), Rule("not_contains", s, k, p))
  BY RuleOf, ComparisonErrors, ExclusiveAnswers
  DEF ContainsItem, NotContains, NeedBoth, NeedMessage
<1>5. Exclusive(Rule("ef", s, k, p), Rule("nef", s, k, p))
  <2> DEFINE same == DeepEqual(s[k], FieldByName(s, p.value))
  <2>1. Exclusive(FieldsTest(s, k, p, same), FieldsTest(s, k, p, ~same))
    <3> HIDE DEF same
    <3>1. CASE same
      BY <3>1 DEF FieldsTest, Exclusive, Accept
    <3>2. CASE ~same
      BY <3>2 DEF FieldsTest, Exclusive, Accept
    <3>3. QED
      BY <3>1, <3>2
  <2>2. /\ Rule("ef", s, k, p) = FieldsTest(s, k, p, same)
        /\ Rule("nef", s, k, p) = FieldsTest(s, k, p, ~same)
    BY RuleOf, Zenon DEF EqualField, NotEqualField, NeedBoth, NeedMessage
  <2> HIDE DEF same
  <2>3. QED
    BY <2>1, <2>2
<1> DEFINE g   == FieldByName(s, p.value)
           nan == \E j \in Named(s, p.value) : s[k].nan \/ s[j].nan
           ok  == ~s[k].nan /\ ~g.nan
<1>6. ASSUME NEW a, NEW b, NEW x, NEW y,
             x = CompareField(s, k, p, a), y = CompareField(s, k, p, b),
             Named(s, p.value) # {} => (b <=> ~a)
      PROVE  IF nan THEN Alike(x, y) ELSE Exclusive(x, y)
  <2>1. CASE Named(s, p.value) = {}
    BY <1>6, <2>1 DEF CompareField, Exclusive
  <2>2. CASE Named(s, p.value) # {}
    <3>1. nan <=> ~ok
      <4>1. PICK j \in Named(s, p.value) : TRUE
        BY <2>2
      <4>2. j \in DOMAIN s /\ p.value = Text(s[j].name)
        BY DEF Named
      <4>3. Named(s, p.value) = {j} /\ g = s[j]
        BY <4>2, FieldByItsName
      <4>4. QED
        BY <4>3
    <3> DEFINE c == s[k].kind # g.kind
               u == s[k].kind \notin Ordered
    <3>2. /\ x = IF c THEN "kind" ELSE IF u THEN "unsupported" ELSE Accept(ok /\ a)
          /\ y = IF c THEN "kind" ELSE IF u THEN "unsupported" ELSE Accept(ok /\ b)
      BY <1>6, <2>2, Zenon DEF CompareField
    <3> HIDE DEF nan, ok, c, u
    <3>3. CASE ok /\ a
      BY <1>6, <2>2, <3>1, <3>2, <3>3 DEF Exclusive, Accept
    <3>4. CASE ok /\ ~a
      BY <1>6, <2>2, <3>1, <3>2, <3>4 DEF Exclusive, Accept
    <3>5. CASE ~ok
      BY <3>1, <3>2, <3>5 DEF Alike, Accept
    <3>6. QED
      BY <3>3, <3>4, <3>5
  <2>3. QED
    BY <2>1, <2>2
<1>7. Named(s, p.value) # {} => g.num \in Int /\ s[k].num \in Int
  BY <1>0, NamedField DEF Fields
<1>8. LET x == Rule("gtf", s, k, p)
          y == Rule("lef", s, k, p)
      IN  IF nan THEN Alike(x, y) ELSE Exclusive(x, y)
  <2> DEFINE a == s[k].num > g.num
             b == s[k].num <= g.num
  <2>1. /\ Rule("gtf", s, k, p) = CompareField(s, k, p, a)
        /\ Rule("lef", s, k, p) = CompareField(s, k, p, b)
    BY RuleOf DEF GreatThanField, LowerEqualField, NeedBoth, NeedMessage
  <2>2. Named(s, p.value) # {} => (b <=> ~a)
    BY <1>7
  <2> HIDE DEF a, b, g, nan
  <2>3. QED
    BY <1>6, <2>1, <2>2
<1>9. LET x == Rule("gef", s, k, p)
          y == Rule("ltf", s, k, p)
      IN  IF nan THEN Alike(x, y) ELSE Exclusive(x, y)
  <2> DEFINE a == s[k].num >= g.num
             b == s[k].num < g.num
  <2>1. /\ Rule("gef", s, k, p) = CompareField(s, k, p, a)
        /\ Rule("ltf", s, k, p) = CompareField(s, k, p, b)
    BY RuleOf DEF GreatEqualField, LowerThanField, NeedBoth, NeedMessage
  <2>2. Named(s, p.value) # {} => (b <=> ~a)
    BY <1>7
  <2> HIDE DEF a, b, g, nan
  <2>3. QED
    BY <1>6, <2>1, <2>2
<1>10. /\ NaNCompared("gt", s, k, p) <=> ~Comparable(s[k], p.value)
       /\ NaNCompared("gtf", s, k, p) <=> nan
       /\ NaNCompared("gef", s, k, p) <=> nan
  BY DEF NaNCompared
<1> HIDE DEF nan
<1>11. ASSUME NEW o \in Halves
       PROVE  IF NaNCompared(o[1], s, k, p)
                THEN Alike(Rule(o[1], s, k, p), Rule(o[2], s, k, p))
                ELSE Exclusive(Rule(o[1], s, k, p), Rule(o[2], s, k, p))
  BY <1>1, <1>8, <1>9, <1>10 DEF Halves
<1>12. ASSUME NEW o \in Opposites \ Halves
       PROVE  Exclusive(Rule(o[1], s, k, p), Rule(o[2], s, k, p))
  BY <1>2, <1>3, <1>4, <1>5 DEF Opposites
<1>13. QED
  BY <1>11, <1>12

\* gtf and gef seen from the other field.
LEMMA FromOtherField ==
    ASSUME NEW s \in Seq(Fields), DistinctNames(s), NEW k \in DOMAIN s,
           NEW j \in DOMAIN s, NEW p, NEW q,
           p.message # NoText, q.message = p.message,
           p.value = Text(s[j].name), q.value = Text(s[k].name)
    PROVE  /\ Rule("gtf", s, k, p) = Rule("ltf", s, j, q)
           /\ Rule("gef", s, k, p) = Rule("lef", s, j, q)
<1>1. /\ Named(s, p.value) # {} /\ FieldByName(s, p.value) = s[j]
      /\ Named(s, q.value) # {} /\ FieldByName(s, q.value) = s[k]
  BY FieldByItsName
<1>2. s[j] \in Fields /\ s[k] \in Fields
  OBVIOUS
<1>3. s[j].num \in Int /\ s[k].num \in Int /\ s[j].name # "" /\ s[k].name # ""
  BY <1>2 DEF Fields
<1>4. p.value # NoText /\ q.value # NoText
  <2>1. \A w : Text(w)[1].w = w
    BY DEF Text, Token
  <2>2. QED
    BY <1>3, <2>1 DEF NoText
<1>5. ASSUME NEW a, NEW b, a <=> b
      PROVE  CompareField(s, k, p, a) = CompareField(s, j, q, b)
  BY <1>1, <1>5 DEF CompareField, Accept
<1>6. CompareField(s, k, p, s[k].num > s[j].num)
        = CompareField(s, j, q, s[j].num < s[k].num)
  BY <1>3, <1>5
<1>7. CompareField(s, k, p, s[k].num >= s[j].num)
        = CompareField(s, j, q, s[j].num <= s[k].num)
  BY <1>3, <1>5
<1>8. QED
  BY <1>1, <1>4, <1>6, <1>7, RuleOf DEF GreatThanField, GreatEqualField,
     LowerThanField, LowerEqualField, NeedBoth, NeedMessage

\* Of a rule and its opposite exactly one accepts, or both fail with the same
\* error, except that both halves of an order refuse a NaN; and the comparisons
\* of two fields can be read from either field.
THEOREM OppositesAgree == Spec => []OppositesExclude
<1>1. ASSUME ValidateInv, Complete PROVE
        /\ \A o \in Opposites :
             IF o \in Halves /\ Unordered(o[1])
               THEN Alike(At(o[1], Given), At(o[2], Given))
               ELSE Exclusive(At(o[1], Given), At(o[2], Given))
        /\ \A j \in Named(st, Given) :
             /\ At("gtf", Given) = Rule("ltf", st, j, With(Text(st[i].name)))
             /\ At("gef", Given) = Rule("lef", st, j, With(Text(st[i].name)))
  <2>1. /\ st \in Seq(Fields) /\ DistinctNames(st) /\ i \in DOMAIN st
    BY <1>1, StructTypes, PieceExists DEF ValidateInv, Complete, Runs
  <2>2. \A v : /\ With(v).message = Param(Piece.args).message
               /\ With(v).value = v
    BY DEF With
  <2>3. Param(Piece.args).message # NoText /\ Given # NoText
    BY <1>1 DEF Complete
  <2>4. \A o \in Opposites :
           IF o \in Halves /\ Unordered(o[1])
             THEN Alike(At(o[1], Given), At(o[2], Given))
             ELSE Exclusive(At(o[1], Given), At(o[2], Given))
    <3>1. \A fn : NaNCompared(fn, st, i, With(Given)) = Unordered(fn)
      BY <2>2, Zenon DEF NaNCompared, Unordered
    <3>2. QED
      BY <2>1, <2>2, <2>3, <3>1, OppositeRules DEF At
  <2>5. ASSUME NEW j \in Named(st, Given)
        PROVE  /\ At("gtf", Given) = Rule("ltf", st, j, With(Text(st[i].name)))
               /\ At("gef", Given) = Rule("lef", st, j, With(Text(st[i].name)))
    <3>1. j \in DOMAIN st /\ Given = Text(st[j].name)
      BY DEF Named
    <3>2. QED
      BY <2>1, <2>2, <2>3, <3>1, FromOtherField DEF At
  <2>6. QED
    BY <2>4, <2>5
<1>2. ValidateInv => OppositesExclude
  BY <1>1 DEF OppositesExclude, Exclusive, Alike
<1>3. QED
  BY <1>2, ValidateHolds, PTL

\* RuneCountInString of a text whose runes are known.
LEMMA RuneCountInt ==
    ASSUME NEW t \in Seq(Tokens), \A j \in DOMAIN t : t[j].w \in DOMAIN Runes
    PROVE  RuneCount(t) \in Int
<1>1. RuneCount(t) = FoldLeft(RuneStep, Len(t) - 1, t)
  BY Zenon DEF RuneCount, FoldLeft, MapThenFoldSet, RuneStep
<1>2. Len(t) \in Nat /\ DOMAIN t = 1..Len(t) /\ Len(t) - 1 \in Int
  OBVIOUS
<1>3. \A x \in Int : \A k \in 1..Len(t) : RuneStep(x, t[k]) \in Int
  <2>1. \A k \in 1..Len(t) : Runes[t[k].w] \in Nat
    BY <1>2, ValidatorsAssumption
  <2>2. \A x \in Int, y \in Nat, z \in {0, 1} : x + y + z \in Int
    OBVIOUS
  <2>3. QED
    BY <2>1, <2>2, Zenon DEF RuneStep
<1>4. PICK a : /\ RuneTrace(a, Int, Len(t) - 1, t)
               /\ FoldLeft(RuneStep, Len(t) - 1, t) = a[Len(t)]
  BY <1>2, <1>3, RuneSteps, Zenon
<1>5. a \in [0..Len(t) -> Int] /\ Len(t) \in 0..Len(t)
  BY <1>2, <1>4 DEF RuneTrace
<1>6. QED
  BY <1>1, <1>4, <1>5

-----------------------------------------------------------------------------
(* The parameters of a rule.                                               *)

\* A parameter: the texts between its "=".
Items == Split(Split(Tokens))

\* A sequence that is not empty has a first and a last element.
LEMMA SplitFacts ==
    ASSUME NEW S, NEW s \in Split(S)
    PROVE  /\ s \in Seq(S) /\ Len(s) \in Nat \ {0} /\ DOMAIN s = 1..Len(s)
           /\ s[1] \in S /\ s[Len(s)] \in S /\ 1 \in DOMAIN s
<1>1. s \in Seq(S) /\ s # <<>>
  BY DEF Split
<1>2. Len(s) \in Nat \ {0} /\ DOMAIN s = 1..Len(s)
  BY <1>1
<1>3. QED
  BY <1>1, <1>2

\* What joining two pieces yields.
LEMMA JoinFacts ==
    ASSUME NEW a \in Items, NEW b \in Items
    PROVE  /\ Join(a, b) \in Items
           /\ Len(Join(a, b)) = Len(a) + Len(b) - 1
           /\ \A j \in 1..(Len(a) - 1) : Join(a, b)[j] = a[j]
           /\ Join(a, b)[Len(a)] = a[Len(a)] \o b[1]
           /\ \A j \in 2..Len(b) : Join(a, b)[Len(a) + j - 1] = b[j]
<1> DEFINE T == Split(Tokens)
           f == SubSeq(a, 1, Len(a) - 1)
           m == <<a[Len(a)] \o b[1]>>
           e == Tail(b)
<1>1. /\ a \in Seq(T) /\ Len(a) \in Nat \ {0} /\ DOMAIN a = 1..Len(a)
      /\ b \in Seq(T) /\ Len(b) \in Nat \ {0} /\ DOMAIN b = 1..Len(b)
      /\ a[Len(a)] \in T /\ b[1] \in T /\ b # <<>>
  BY SplitFacts DEF Items, Split
<1>2. Join(a, b) = (f \o m) \o e
  BY <1>1 DEF Join, Front, Last
<1>3. a[Len(a)] \o b[1] \in T
  <2>1. /\ a[Len(a)] \in Seq(Tokens) /\ b[1] \in Seq(Tokens)
        /\ Len(b[1]) \in Nat \ {0} /\ Len(a[Len(a)]) \in Nat
    BY <1>1, SplitFacts
  <2>2. QED
    BY <2>1, ConcatProperties DEF Split
<1> HIDE DEF T
<1>4. /\ f \in Seq(T) /\ Len(f) = Len(a) - 1
      /\ \A j \in 1..(Len(a) - 1) : f[j] = a[j]
  <2>1. /\ \A j \in 1..(Len(a) - 1) : a[j] \in T
        /\ 1 \in Int /\ Len(a) - 1 \in Int
    BY <1>1
  <2>2. /\ f \in Seq(T)
        /\ Len(f) = IF 1 <= Len(a) - 1 THEN Len(a) - 1 - 1 + 1 ELSE 0
        /\ \A j \in 1..(Len(a) - 1 - 1 + 1) : f[j] = a[1 + j - 1]
    BY <2>1, SubSeqProperties
  <2> HIDE DEF f
  <2>3. Len(f) = Len(a) - 1
    <3>1. \A n \in Nat \ {0} :
             (IF 1 <= n - 1 THEN n - 1 - 1 + 1 ELSE 0) = n - 1
      OBVIOUS
    <3>2. QED
      BY <1>1, <2>2, <3>1, Zenon
  <2>4. ASSUME NEW j \in 1..(Len(a) - 1) PROVE f[j] = a[j]
    <3>1. j \in 1..(Len(a) - 1 - 1 + 1) /\ 1 + j - 1 = j
      BY <1>1
    <3>2. QED
      BY <2>2, <3>1
  <2>5. QED
    BY <2>2, <2>3, <2>4
<1>5. m \in Seq(T) /\ Len(m) = 1 /\ m[1] = a[Len(a)] \o b[1]
  <2>1. \A x \in T : <<x>> \in Seq(T) /\ Len(<<x>>) = 1 /\ <<x>>[1] = x
    OBVIOUS
  <2>2. QED
    BY <1>3, <2>1, Zenon
<1>6. /\ e \in Seq(T) /\ Len(e) = Len(b) - 1
      /\ \A j \in 1..(Len(b) - 1) : e[j] = b[j + 1]
  BY <1>1, HeadTailProperties
<1> DEFINE c == f \o m
           d == c \o e
<1> HIDE DEF f, m, e
<1>7. /\ c \in Seq(T) /\ Len(c) = Len(a)
      /\ \A j \in 1..(Len(a) - 1) : c[j] = a[j]
      /\ c[Len(a)] = m[1]
  <2>1. /\ c \in Seq(T) /\ Len(c) = Len(f) + Len(m)
        /\ \A j \in 1..(Len(f) + Len(m)) :
              c[j] = IF j <= Len(f) THEN f[j] ELSE m[j - Len(f)]
    BY <1>4, <1>5, ConcatProperties
  <2> HIDE DEF c
  <2>2. Len(f) + Len(m) = Len(a) /\ Len(a) - Len(f) = 1 /\ ~(Len(a) <= Len(f))
    BY <1>1, <1>4, <1>5
  <2>3. c[Len(a)] = m[1]
    BY <1>1, <2>1, <2>2
  <2>4. ASSUME NEW j \in 1..(Len(a) - 1) PROVE c[j] = a[j]
    <3>1. j <= Len(f) /\ j \in 1..(Len(f) + Len(m))
      BY <1>1, <1>4, <2>2
    <3>2. QED
      BY <1>4, <2>1, <3>1
  <2>5. QED
    BY <2>1, <2>2, <2>3, <2>4
<1> HIDE DEF c
<1>8. /\ d \in Seq(T)
      /\ Len(d) = Len(c) + Len(e)
      /\ \A j \in 1..(Len(c) + Len(e)) :
            d[j] = IF j <= Len(c) THEN c[j] ELSE e[j - Len(c)]
  <2>1. c \in Seq(T) /\ e \in Seq(T)
    BY <1>6, <1>7
  <2>2. QED
    BY <2>1, ConcatProperties
<1> HIDE DEF d
<1>9. Join(a, b) = d /\ Len(d) = Len(a) + Len(b) - 1 /\ d \in Items
  <2>1. Join(a, b) = d
    BY <1>2 DEF c, d
  <2>2. Len(d) = Len(a) + Len(b) - 1
    BY <1>1, <1>6, <1>7, <1>8
  <2>3. d # <<>>
    BY <1>1, <2>2
  <2>4. QED
    BY <1>8, <2>1, <2>2, <2>3 DEF Items, Split, T
<1>10. ASSUME NEW j \in 1..(Len(a) - 1) PROVE d[j] = a[j]
  <2>1. j <= Len(c) /\ j \in 1..(Len(c) + Len(e))
    BY <1>1, <1>6, <1>7
  <2>2. QED
    BY <1>7, <1>8, <2>1
<1>11. d[Len(a)] = a[Len(a)] \o b[1]
  <2>1. Len(a) <= Len(c) /\ Len(a) \in 1..(Len(c) + Len(e))
    BY <1>1, <1>6, <1>7
  <2>2. QED
    BY <1>5, <1>7, <1>8, <2>1
<1>12. ASSUME NEW j \in 2..Len(b) PROVE d[Len(a) + j - 1] = b[j]
  <2>0. Len(a) + j - 1 \in 1..(Len(c) + Len(e))
    BY <1>1, <1>6, <1>7
  <2>1. PICK q \in 1..(Len(c) + Len(e)) : q = Len(a) + j - 1
    BY <2>0
  <2>2. /\ ~(q <= Len(c)) /\ q - Len(c) = j - 1
        /\ j - 1 \in 1..(Len(b) - 1) /\ (j - 1) + 1 = j
    BY <1>1, <1>7, <2>1
  <2>3. d[q] = e[q - Len(c)]
    BY <1>8, <2>2
  <2>4. QED
    BY <1>6, <2>1, <2>2, <2>3
<1>13. QED
  BY <1>9, <1>10, <1>11, <1>12

\* The pieces between the commas, cut at "=", as texts.
Cut(args) == [j \in DOMAIN args |-> [n \in DOMAIN args[j] |-> <<args[j][n]>>]]

LEMMA CutFacts ==
    ASSUME NEW args \in Seq(Split(Tokens))
    PROVE  /\ Cut(args) \in Seq(Items) /\ Len(Cut(args)) = Len(args)
           /\ \A j \in 1..Len(args) :
                 /\ Cut(args)[j] \in Items
                 /\ Len(Cut(args)[j]) = Len(args[j])
                 /\ \A n \in 1..Len(args[j]) : Cut(args)[j][n] = <<args[j][n]>>
<1>1. Len(args) \in Nat /\ DOMAIN args = 1..Len(args)
  OBVIOUS
<1>2. ASSUME NEW j \in 1..Len(args)
      PROVE  /\ [n \in DOMAIN args[j] |-> <<args[j][n]>>] \in Items
             /\ Len([n \in DOMAIN args[j] |-> <<args[j][n]>>]) = Len(args[j])
             /\ \A n \in 1..Len(args[j]) :
                  [k \in DOMAIN args[j] |-> <<args[j][k]>>][n] = <<args[j][n]>>
  <2> DEFINE p == args[j]
             c == [n \in DOMAIN p |-> <<p[n]>>]
  <2>1. p \in Split(Tokens)
    OBVIOUS
  <2> HIDE DEF p
  <2>2. p \in Seq(Tokens) /\ Len(p) \in Nat \ {0} /\ DOMAIN p = 1..Len(p)
    BY <2>1, SplitFacts
  <2>3. \A x \in Tokens : <<x>> \in Split(Tokens)
    BY DEF Split
  <2>4. \A n \in 1..Len(p) : c[n] = <<p[n]>> /\ c[n] \in Split(Tokens)
    BY <2>2, <2>3
  <2>5. c \in Seq(Split(Tokens)) /\ Len(c) = Len(p)
    <3>1. DOMAIN c = 1..Len(p)
      BY <2>2
    <3> HIDE DEF c
    <3>2. c \in [1..Len(p) -> Split(Tokens)]
      <4>1. c = [n \in 1..Len(p) |-> c[n]]
        BY <3>1 DEF c
      <4>2. QED
        BY <2>4, <4>1
    <3>3. QED
      BY <2>2, <3>2
  <2>6. c # <<>>
    BY <2>2, <2>5
  <2>7. c \in Items
    BY <2>5, <2>6, Zenon DEF Items, Split
  <2>8. QED
    BY <2>4, <2>5, <2>7, Zenon DEF p
<1>3. \A j \in 1..Len(args) :
         Cut(args)[j] = [n \in DOMAIN args[j] |-> <<args[j][n]>>]
  BY <1>1, Zenon DEF Cut
<1>4. Cut(args) \in [1..Len(args) -> Items]
  BY <1>1, <1>2, Zenon DEF Cut
<1>5. Cut(args) \in Seq(Items) /\ Len(Cut(args)) = Len(args)
  BY <1>1, <1>4
<1>6. QED
  BY <1>2, <1>3, <1>5, Zenon

\* The space before a parameter is removed, and nothing else.
LEMMA TrimFacts ==
    ASSUME NEW item \in Items
    PROVE  /\ Trim(item) \in Items /\ Len(Trim(item)) = Len(item)
           /\ \A j \in 2..Len(item) : Trim(item)[j] = item[j]
           /\ Len(Trim(item)[1]) = Len(item[1])
           /\ Trim(item)[1][1].w = item[1][1].w
           /\ Trim(item)[1][1].sp = FALSE
<1> DEFINE t == item[1]
           u == [t EXCEPT ![1] = [t[1] EXCEPT !.sp = FALSE]]
<1>1. /\ item \in Seq(Split(Tokens)) /\ Len(item) \in Nat \ {0}
      /\ DOMAIN item = 1..Len(item) /\ t \in Split(Tokens)
  BY SplitFacts DEF Items
<1>2. Trim(item) = [item EXCEPT ![1] = u]
  BY <1>1 DEF Trim
<1> HIDE DEF t
<1>3. /\ t \in Seq(Tokens) /\ Len(t) \in Nat \ {0}
      /\ DOMAIN t = 1..Len(t) /\ t[1] \in Tokens
  BY <1>1, SplitFacts
<1>4. /\ [t[1] EXCEPT !.sp = FALSE].w = t[1].w
      /\ [t[1] EXCEPT !.sp = FALSE].sp = FALSE
      /\ [t[1] EXCEPT !.sp = FALSE] \in Tokens
  <2>1. \A x \in Tokens, b \in BOOLEAN : [x EXCEPT !.sp = b] \in Tokens
    BY DEF Tokens
  <2>2. QED
    BY <1>3, <2>1 DEF Tokens
<1>5. /\ u \in Seq(Tokens) /\ Len(u) = Len(t)
      /\ u[1].w = t[1].w /\ u[1].sp = FALSE
  <2>1. \A e \in Tokens : /\ [t EXCEPT ![1] = e] \in Seq(Tokens)
                          /\ Len([t EXCEPT ![1] = e]) = Len(t)
                          /\ [t EXCEPT ![1] = e][1] = e
    BY <1>3
  <2>2. QED
    BY <1>4, <2>1, Zenon
<1> HIDE DEF u
<1>6. u \in Split(Tokens)
  BY <1>3, <1>5 DEF Split
<1>7. /\ [item EXCEPT ![1] = u] \in Seq(Split(Tokens))
      /\ Len([item EXCEPT ![1] = u]) = Len(item)
      /\ \A j \in 1..Len(item) :
            [item EXCEPT ![1] = u][j] = IF j = 1 THEN u ELSE item[j]
  BY <1>1, <1>6
<1>8. Trim(item) \in Items /\ Len(Trim(item)) = Len(item)
  BY <1>1, <1>2, <1>7 DEF Items, Split
<1>9. Trim(item)[1] = u /\ \A j \in 2..Len(item) : Trim(item)[j] = item[j]
  BY <1>1, <1>2, <1>7
<1>10. QED
  BY <1>5, <1>8, <1>9 DEF t

\* The parameters of a rule as the loop leaves them.
ParamRecord == [out : {"ok", "syntax", "unexpected"},
                message : Split(Tokens) \cup {NoText},
                value : Split(Tokens) \cup {NoText}]

LEMMA SetParamType ==
    ASSUME NEW p \in ParamRecord, NEW val \in Items
    PROVE  SetParam(p, val) \in ParamRecord
<1> DEFINE item == Trim(val)
<1>1. item \in Items
  BY TrimFacts
<1>2. Len(item) = 2 => item[2] \in Split(Tokens)
  BY <1>1, SplitFacts DEF Items
<1>3. SetParam(p, val) =
        IF p.out # "ok" THEN p
        ELSE IF Len(item) # 2 THEN [p EXCEPT !.out = "syntax"]
        ELSE IF item[1] \in {Text("m"), Text("message")}
          THEN [p EXCEPT !.message = item[2]]
        ELSE IF item[1] \in {Text("v"), Text("value")}
          THEN [p EXCEPT !.value = item[2]]
        ELSE [p EXCEPT !.out = "unexpected"]
  BY Zenon DEF SetParam
<1> HIDE DEF item
<1>4. /\ [p EXCEPT !.out = "syntax"] \in ParamRecord
      /\ [p EXCEPT !.out = "unexpected"] \in ParamRecord
  BY DEF ParamRecord
<1>5. Len(item) = 2 => /\ [p EXCEPT !.message = item[2]] \in ParamRecord
                       /\ [p EXCEPT !.value = item[2]] \in ParamRecord
  BY <1>2 DEF ParamRecord
<1>6. QED
  BY <1>3, <1>4, <1>5

\* The pieces after the second.
LEMMA RestFacts ==
    ASSUME NEW args \in Seq(Split(Tokens)), Len(args) > 2
    PROVE  LET rest == Tail(Tail(Cut(args)))
           IN  /\ rest \in Seq(Items) /\ Len(rest) = Len(args) - 2
               /\ DOMAIN rest = 1..Len(rest)
               /\ \A k \in 1..(Len(args) - 2) : rest[k] = Cut(args)[k + 2]
<1> DEFINE c == Cut(args)
           d == Tail(c)
           e == Tail(d)
<1>1. c \in Seq(Items) /\ Len(c) = Len(args) /\ Len(args) \in Nat /\ c # <<>>
  BY CutFacts
<1> HIDE DEF c
<1>2. /\ d \in Seq(Items) /\ Len(d) = Len(c) - 1
      /\ \A k \in 1..Len(d) : d[k] = c[k + 1]
  BY <1>1, HeadTailProperties
<1>3. d # <<>>
  <2>0. Len(d) = Len(c) - 1
    BY <1>2
  <2>1. Len(d) # 0
    BY <1>1, <2>0
  <2>2. Len(<<>>) = 0
    OBVIOUS
  <2>3. QED
    BY <2>1, <2>2, Zenon
<1> HIDE DEF d
<1>4. /\ e \in Seq(Items) /\ Len(e) = Len(d) - 1
      /\ \A k \in 1..Len(e) : e[k] = d[k + 1]
  BY <1>2, <1>3, HeadTailProperties
<1> HIDE DEF e
<1>5. ASSUME NEW k \in 1..(Len(args) - 2) PROVE e[k] = c[k + 2]
  <2>1. k \in 1..Len(e) /\ k + 1 \in 1..Len(d) /\ (k + 1) + 1 = k + 2
    BY <1>1, <1>2, <1>4
  <2>2. QED
    BY <1>2, <1>4, <2>1
<1>6. e \in Seq(Items) /\ Len(e) = Len(args) - 2 /\ DOMAIN e = 1..Len(e)
  BY <1>1, <1>2, <1>4
<1>7. QED
  BY <1>5, <1>6 DEF c, d, e

\* How the pieces after the second are joined to it.
LEMMA JoinedFacts ==
    ASSUME NEW args \in Seq(Split(Tokens)), Len(args) > 2
    PROVE  \E a : /\ JoinTrace(a, Items, Cut(args)[2], Tail(Tail(Cut(args))))
                  /\ List(args) = <<Cut(args)[1], a[Len(args) - 2]>>
<1> DEFINE c    == Cut(args)
           rest == Tail(Tail(c))
<1>1. /\ c \in Seq(Items) /\ Len(c) = Len(args) /\ Len(args) \in Nat
      /\ \A j \in 1..Len(args) : c[j] \in Items
  BY CutFacts
<1>2. c[2] \in Items /\ c[1] \in Items /\ Head(c) = c[1]
  <2>1. 2 \in 1..Len(args) /\ 1 \in 1..Len(args)
    BY <1>1
  <2> HIDE DEF c
  <2>2. QED
    BY <1>1, <2>1
<1>3. /\ rest \in Seq(Items) /\ Len(rest) = Len(args) - 2
      /\ DOMAIN rest = 1..Len(rest)
  BY RestFacts
<1>4. List(args) = IF Len(c) > 2 THEN <<Head(c), FoldLeft(Join, c[2], rest)>> ELSE c
  BY Zenon DEF List, Cut
<1> HIDE DEF c, rest
<1>5. \A x \in Items : \A k \in 1..Len(rest) : Join(x, rest[k]) \in Items
  <2>1. \A k \in 1..Len(rest) : rest[k] \in Items
    BY <1>3
  <2>2. QED
    BY <2>1, JoinFacts
<1>6. Len(rest) \in Nat
  BY <1>3
<1>7. PICK a : /\ JoinTrace(a, Items, c[2], rest)
               /\ FoldLeft(Join, c[2], rest) = a[Len(rest)]
  BY <1>2, <1>3, <1>5, <1>6, JoinSteps, Zenon
<1>8. List(args) = <<c[1], a[Len(args) - 2]>>
  BY <1>1, <1>2, <1>3, <1>4, <1>7
<1>9. QED
  BY <1>7, <1>8 DEF c, rest

\* The list has at most two parameters.
LEMMA ListFacts ==
    ASSUME NEW args \in Seq(Split(Tokens))
    PROVE  /\ List(args) \in Seq(Items) /\ Len(List(args)) <= 2
           /\ Len(args) <= 2 => List(args) = Cut(args)
           /\ Len(args) > 2 => Len(List(args)) = 2
<1>1. /\ Cut(args) \in Seq(Items) /\ Len(Cut(args)) = Len(args)
      /\ Len(args) \in Nat
  BY CutFacts
<1>2. CASE Len(args) <= 2
  <2>1. List(args) = Cut(args)
    BY <1>1, <1>2 DEF List, Cut
  <2>2. QED
    BY <1>1, <1>2, <2>1
<1>3. CASE Len(args) > 2
  <2>1. PICK a : /\ JoinTrace(a, Items, Cut(args)[2], Tail(Tail(Cut(args))))
                 /\ List(args) = <<Cut(args)[1], a[Len(args) - 2]>>
    BY <1>3, JoinedFacts
  <2>2. a[Len(args) - 2] \in Items
    <3>1. Len(Tail(Tail(Cut(args)))) = Len(args) - 2
      BY <1>3, RestFacts
    <3>2. a \in [0..(Len(args) - 2) -> Items]
      BY <2>1, <3>1 DEF JoinTrace
    <3>3. QED
      BY <1>1, <1>3, <3>2
  <2>3. Cut(args)[1] \in Items
    <3>1. 1 \in 1..Len(args)
      BY <1>1, <1>3
    <3>2. QED
      BY <3>1, CutFacts
  <2>4. \A x, y \in Items : <<x, y>> \in Seq(Items) /\ Len(<<x, y>>) = 2
    OBVIOUS
  <2>5. QED
    BY <1>3, <1>1, <2>1, <2>2, <2>3, <2>4
<1>4. QED
  BY <1>1, <1>2, <1>3

NoParam == [out |-> "ok", message |-> NoText, value |-> NoText]

\* The loop over the parameters ends with a message and a value.
LEMMA ParamFacts ==
    ASSUME NEW args \in Seq(Split(Tokens))
    PROVE  /\ Param(args) \in ParamRecord
           /\ \E a : /\ ParamTrace(a, ParamRecord, NoParam, List(args))
                     /\ Param(args) = a[Len(List(args))]
<1> DEFINE s == List(args)
<1>1. s \in Seq(Items)
  BY ListFacts
<1> HIDE DEF s
<1>2. Len(s) \in Nat /\ DOMAIN s = 1..Len(s) /\ \A k \in 1..Len(s) : s[k] \in Items
  BY <1>1
<1>3. NoParam \in ParamRecord
  BY DEF NoParam, ParamRecord
<1>4. \A x \in ParamRecord : \A k \in 1..Len(s) : SetParam(x, s[k]) \in ParamRecord
  BY <1>2, SetParamType
<1>5. PICK a : /\ ParamTrace(a, ParamRecord, NoParam, s)
               /\ FoldLeft(SetParam, NoParam, s) = a[Len(s)]
  BY <1>2, <1>3, <1>4, ParamSteps, Zenon
<1>6. Param(args) = FoldLeft(SetParam, NoParam, s)
  BY Zenon DEF Param, NoParam, s
<1>7. a[Len(s)] \in ParamRecord
  <2>1. a \in [0..Len(s) -> ParamRecord] /\ Len(s) \in 0..Len(s)
    BY <1>2, <1>5 DEF ParamTrace
  <2>2. QED
    BY <2>1
<1>8. QED
  BY <1>5, <1>6, <1>7 DEF s

\* What the comparisons answer for a number the kind of the field reads.
LEMMA ComparisonTable ==
    ASSUME NEW f \in Fields, NEW p, p.message # NoText, f.kind \in Ordered,
           Reads(f.kind, p.value), Comparable(f, p.value)
    PROVE  LET x == f.num
               n == NumOf(p.value)
           IN  /\ x \in Int /\ n \in Int
               /\ GreaterThan(f, p) = IF x > n THEN "nil" ELSE "message"
               /\ GreaterEqual(f, p) = IF x >= n THEN "nil" ELSE "value"
               /\ LowerEqual(f, p) = IF x <= n THEN "nil" ELSE "message"
               /\ Equal(f, p) = IF x = n THEN "nil" ELSE "message"
               /\ LowerThan(f, p) = IF f.kind = "uint16" THEN "unsupported"
                                    ELSE IF x < n THEN "nil" ELSE "message"
<1> DEFINE x == f.num
           n == NumOf(p.value)
           c == Comparable(f, p.value)
<1>1. x \in Int /\ n \in Int /\ p.value # NoText
  BY ReadsNumber DEF Fields, Comparable
<1>2. /\ isGt(f, p.value) = Answer(c /\ x > n)
      /\ isGe(f, p.value) = Answer(c /\ x >= n)
      /\ isLe(f, p.value) = Answer(c /\ x <= n)
  BY Zenon DEF isGt, isGe, isLe, Compare
<1>3. isEqual(f, p.value) = Answer(c /\ x = n)
  <2>1. f.kind # "string" /\ f.kind # "bool"
    BY DEF Ordered
  <2>2. QED
    BY <2>1, Zenon DEF isEqual, Compare
<1>4. f.kind # "uint16" => isLt(f, p.value) = Answer(c /\ x < n)
  <2>1. f.kind # "uint16" => f.kind \in Ordered \ {"uint16"}
    OBVIOUS
  <2>2. QED
    BY <2>1, Zenon DEF isLt, Compare
<1>5. f.kind = "uint16" => isLt(f, p.value) = Error("unsupported")
  BY DEF isLt, Compare
<1>6. \A b : Accepts(Answer(c /\ b)) = IF b THEN "nil" ELSE "message"
  <2> SUFFICES ASSUME NEW b
               PROVE  Accepts(Answer(c /\ b)) = IF b THEN "nil" ELSE "message"
    OBVIOUS
  <2>1. CASE b
    BY <2>1, AcceptsAnswer
  <2>2. CASE ~b
    BY <2>2, AcceptsAnswer
  <2>3. QED
    BY <2>1, <2>2
<1>7. Accepts(Error("unsupported")) = "unsupported"
  BY DEF Accepts, Error
<1>8. /\ GreaterThan(f, p) = Accepts(isGt(f, p.value))
      /\ LowerEqual(f, p) = Accepts(isLe(f, p.value))
      /\ Equal(f, p) = Accepts(isEqual(f, p.value))
      /\ LowerThan(f, p) = Accepts(isLt(f, p.value))
      /\ GreaterEqual(f, p) = IF Accepts(isGe(f, p.value)) = "message" THEN "value"
                              ELSE Accepts(isGe(f, p.value))
  BY <1>1, Zenon DEF GreaterThan, LowerEqual, Equal, LowerThan, GreaterEqual,
     NeedBoth, NeedMessage
<1> HIDE DEF x, n, c
<1>9. GreaterThan(f, p) = IF x > n THEN "nil" ELSE "message"
  BY <1>2, <1>6, <1>8, Zenon
<1>10. LowerEqual(f, p) = IF x <= n THEN "nil" ELSE "message"
  BY <1>2, <1>6, <1>8, Zenon
<1>11. Equal(f, p) = IF x = n THEN "nil" ELSE "message"
  BY <1>3, <1>6, <1>8, Zenon
<1>12. LowerThan(f, p) = IF f.kind = "uint16" THEN "unsupported"
                         ELSE IF x < n THEN "nil" ELSE "message"
  BY <1>4, <1>5, <1>6, <1>7, <1>8, Zenon
<1>13. GreaterEqual(f, p) = IF x >= n THEN "nil" ELSE "value"
  <2>1. Accepts(isGe(f, p.value)) = IF x >= n THEN "nil" ELSE "message"
    BY <1>2, <1>6, Zenon
  <2>2. QED
    BY <1>8, <2>1
<1>14. QED
  BY <1>1, <1>9, <1>10, <1>11, <1>12, <1>13, Zenon DEF x, n

\* No comparison with a NaN holds.
LEMMA ComparisonOfNaN ==
    ASSUME NEW f \in Fields, NEW p, p.message # NoText, f.kind \in Ordered,
           Reads(f.kind, p.value), ~Comparable(f, p.value)
    PROVE  /\ GreaterThan(f, p) = "message" /\ LowerThan(f, p) = "message"
           /\ LowerEqual(f, p) = "message" /\ Equal(f, p) = "message"
           /\ GreaterEqual(f, p) = "value"
<1>1. f.kind = "float" /\ f.kind \in Ordered \ {"uint16"} /\ p.value # NoText
  BY NaNIsFloat, ReadsNumber DEF Ordered
<1>3. ASSUME NEW kinds, NEW ok, f.kind \in kinds
      PROVE  Accepts(Compare(kinds, f, p.value, ok)) = "message"
  <2>1. Compare(kinds, f, p.value, ok) = Answer(FALSE)
    BY <1>3, Zenon DEF Compare
  <2>2. QED
    BY <2>1, AcceptsAnswer
<1>4. /\ Accepts(isGt(f, p.value)) = "message" /\ Accepts(isLt(f, p.value)) = "message"
      /\ Accepts(isGe(f, p.value)) = "message" /\ Accepts(isLe(f, p.value)) = "message"
      /\ Accepts(isEqual(f, p.value)) = "message"
  BY <1>1, <1>3 DEF isGt, isLt, isGe, isLe, isEqual
<1>5. QED
  BY <1>1, <1>4 DEF GreaterThan, LowerThan, LowerEqual, Equal, GreaterEqual,
     NeedBoth, NeedMessage

\* A value that is not read, or a kind that is not compared, is refused.
LEMMA ComparisonRefuses ==
    ASSUME NEW f, NEW p, ~(f.kind \in Ordered /\ Reads(f.kind, p.value))
    PROVE  GreaterEqual(f, p) # "nil" /\ LowerEqual(f, p) # "nil"
<1>1. /\ isGe(f, p.value).err \in {"parse", "unsupported"}
      /\ isLe(f, p.value).err \in {"parse", "unsupported"}
  BY DEF isGe, isLe, Compare, Error
<1>2. /\ Accepts(isGe(f, p.value)) \in {"parse", "unsupported"}
      /\ Accepts(isLe(f, p.value)) \in {"parse", "unsupported"}
  BY <1>1 DEF Accepts
<1>3. QED
  BY <1>2 DEF GreaterEqual, LowerEqual, NeedBoth, NeedMessage

\* between is ge the first value and le the second.
LEMMA BetweenIsGeLe ==
    ASSUME NEW f \in Fields, NEW p, NEW lo, NEW hi, p.message # NoText,
           p.value # NoText, Len(p.value) = 2,
           lo.message = p.message, lo.value = NoSpaces(p.value[1]),
           hi.message = p.message, hi.value = NoSpaces(p.value[2])
    PROVE  Between(f, p) = "nil" <=>
              GreaterEqual(f, lo) = "nil" /\ LowerEqual(f, hi) = "nil"
<1>1. Between(f, p) = Accepts(isBetween(f, lo.value, hi.value))
  BY Zenon DEF Between, NeedBoth, NeedMessage, Range2
<1>2. CASE f.kind \notin Ordered
  <2>1. isBetween(f, lo.value, hi.value) = Answer(FALSE)
    BY <1>2 DEF isBetween
  <2>2. Accepts(Answer(FALSE)) = "message"
    BY AcceptsAnswer
  <2>3. QED
    BY <1>1, <1>2, <2>1, <2>2, ComparisonRefuses
<1>3. CASE f.kind \in Ordered /\ ~(Reads(f.kind, lo.value) /\ Reads(f.kind, hi.value))
  <2>1. isBetween(f, lo.value, hi.value) = Error("parse")
    BY <1>3 DEF isBetween
  <2>2. Accepts(Error("parse")) = "parse"
    BY DEF Accepts, Error
  <2>3. QED
    BY <1>1, <1>3, <2>1, <2>2, ComparisonRefuses
<1>4. CASE f.kind \in Ordered /\ Reads(f.kind, lo.value) /\ Reads(f.kind, hi.value)
  <2> DEFINE c == Comparable(f, lo.value)
             d == Comparable(f, hi.value)
             b == c /\ d /\ NumOf(lo.value) <= f.num /\ f.num <= NumOf(hi.value)
  <2>1. isBetween(f, lo.value, hi.value) = Answer(b)
    BY <1>4, Zenon DEF isBetween
  <2>2. Accepts(Answer(b)) = IF b THEN "nil" ELSE "message"
    BY AcceptsAnswer, Zenon
  <2>3. (b => Between(f, p) = "nil") /\ (~b => Between(f, p) = "message")
    BY <1>1, <2>1, <2>2, Zenon
  <2>4. c => /\ f.num \in Int /\ NumOf(lo.value) \in Int
             /\ GreaterEqual(f, lo) = IF f.num >= NumOf(lo.value) THEN "nil"
                                                                  ELSE "value"
    BY <1>4, ComparisonTable
  <2>5. d => /\ f.num \in Int /\ NumOf(hi.value) \in Int
             /\ LowerEqual(f, hi) = IF f.num <= NumOf(hi.value) THEN "nil"
                                                                ELSE "message"
    BY <1>4, ComparisonTable
  <2>6. (~c => GreaterEqual(f, lo) = "value") /\ (~d => LowerEqual(f, hi) = "message")
    BY <1>4, ComparisonOfNaN
  <2> HIDE DEF c, d
  <2>7. QED
    BY <2>3, <2>4, <2>5, <2>6
<1>5. QED
  BY <1>2, <1>3, <1>4

\* contains accepts only a field that equals one of the items.
LEMMA ContainsFinds ==
    ASSUME NEW f \in Fields, NEW m, m # NoText, NEW v \in Split(Tokens),
           ContainsItem(f, [message |-> m, value |-> v]) = "nil"
    PROVE  \E j \in DOMAIN v :
              \/ Equal(f, [message |-> m, value |-> <<v[j]>>]) = "nil"
              \/ Equal(f, [message |-> m, value |-> NoSpaces(v[j])]) = "nil"
              \/ f.text = NoText /\ <<v[j]>> = NoText
<1>1. ASSUME NEW u
      PROVE  /\ [message |-> m, value |-> u].message = m
             /\ [message |-> m, value |-> u].value = u
  OBVIOUS
<1>2. isContains(f, v).err = "none" /\ isContains(f, v).ok
  <2>1. Accepts(isContains(f, v)) = "nil"
    BY <1>1 DEF ContainsItem, NeedBoth, NeedMessage
  <2>2. QED
    BY <2>1, ComparisonErrors DEF Accepts, Accept
<1> DEFINE stops == {j \in DOMAIN v :
                        LET item == NoSpaces(v[j])
                        IN  \/ ~Reads(f.kind, item)
                            \/ Comparable(f, item) /\ f.num = NumOf(item)}
           first == NoSpaces(v[Min(stops)])
<1>3. isContains(f, v) =
        IF f.kind = "string" THEN Answer(\E j \in DOMAIN v : f.text = <<v[j]>>)
        ELSE IF f.kind \notin Ordered THEN Error("unsupported")
        ELSE IF stops # {}
          THEN IF Reads(f.kind, first) THEN Answer(TRUE) ELSE Error("parse")
        ELSE IF f.kind \in {"uint", "uint16"} THEN Error("unsupported")
        ELSE Answer(FALSE)
  BY Zenon DEF isContains
<1>4. CASE f.kind = "string"
  <2>1. Answer(\E j \in DOMAIN v : f.text = <<v[j]>>).ok
          = \E j \in DOMAIN v : f.text = <<v[j]>>
    BY Zenon DEF Answer
  <2>2. PICK j \in DOMAIN v : f.text = <<v[j]>>
    BY <1>2, <1>3, <1>4, <2>1, Zenon
  <2>3. CASE <<v[j]>> = NoText
    BY <2>2, <2>3
  <2>4. CASE <<v[j]>> # NoText
    <3>1. Accepts(isEqual(f, <<v[j]>>)) = "nil"
      BY <1>4, <2>2, AcceptsAnswer DEF isEqual
    <3>2. Equal(f, [message |-> m, value |-> <<v[j]>>]) = "nil"
      BY <1>1, <2>4, <3>1 DEF Equal, NeedBoth, NeedMessage
    <3>3. QED
      BY <3>2
  <2>5. QED
    BY <2>3, <2>4
<1>5. CASE f.kind # "string"
  <2>1. ~Answer(FALSE).ok /\ Error("unsupported").err # "none"
        /\ Error("parse").err # "none"
    BY DEF Answer, Error
  <2>2. f.kind \in Ordered /\ stops # {} /\ Reads(f.kind, first)
    BY <1>2, <1>3, <1>5, <2>1, Zenon
  <2>3. stops \in SUBSET Nat
    BY SplitFacts
  <2> HIDE DEF first
  <2>4. Min(stops) \in stops
    <3> HIDE DEF stops
    <3>1. QED
      BY <2>2, <2>3, MinIsLeast
  <2>5. PICK j \in DOMAIN v : /\ first = NoSpaces(v[j]) /\ Comparable(f, first)
                              /\ f.num = NumOf(first)
    BY <2>2, <2>4, Zenon DEF first
  <2> DEFINE q == [message |-> m, value |-> first]
  <2>6. q.message = m /\ q.value = first
    OBVIOUS
  <2>7. Equal(f, q) = "nil"
    <3> HIDE DEF q
    <3>1. Equal(f, q) = IF f.num = NumOf(q.value) THEN "nil" ELSE "message"
      BY <2>2, <2>5, <2>6, ComparisonTable
    <3>2. QED
      BY <2>5, <2>6, <3>1
  <2>8. QED
    BY <2>5, <2>7
<1>6. QED
  BY <1>4, <1>5

\* The rules on the length of a string.
LEMMA LengthsAgree ==
    ASSUME NEW f \in Fields, NEW p, p.message # NoText, f.kind = "string",
           IsInt(p.value), RuneCount(f.text) \in Int
    PROVE  {MinLength(f, p), MaxLength(f, p)} = {"message"}
              <=> RuneCount(f.text) * Scale = NumOf(p.value)
<1> DEFINE n == RuneCount(f.text)
           k == NumOf(p.value)
<1>1. n \in Int /\ k \in Int /\ n * Scale \in Int
  <2>1. k \in Int
    BY ValidatorsAssumption DEF IsInt, IsNum, NumOf
  <2>2. QED
    BY <2>1 DEF Scale
<1>2. /\ MinLength(f, p) = IF n * Scale > k THEN "nil" ELSE "message"
      /\ MaxLength(f, p) = IF n * Scale < k THEN "nil" ELSE "message"
  BY Zenon DEF MinLength, MaxLength, LengthRule, NeedMessage, Accept
<1> HIDE DEF n, k
<1>3. PICK z \in Int : z = n * Scale
  BY <1>1
<1>4. {MinLength(f, p), MaxLength(f, p)} = {"message"} <=> z = k
  BY <1>1, <1>2, <1>3
<1>5. QED
  BY <1>3, <1>4 DEF n, k

\* The comparisons agree with each other for every struct, value and kind.
THEOREM ComparisonsConsistent == Spec => []ComparisonsAgree
<1>1. ASSUME ValidateInv, Complete PROVE ComparisonsAgree
  <2> DEFINE f == st[i]
             g == Given
             m == Param(Piece.args).message
  <2>1. /\ i \in DOMAIN st /\ r \in DOMAIN st[i].tag /\ f \in Fields
        /\ Position /\ st \in Structs
    <3>1. Position /\ AtPiece
      BY <1>1 DEF ValidateInv, Complete, Runs
    <3>2. i \in DOMAIN st /\ r \in DOMAIN st[i].tag
      BY <3>1, PieceExists
    <3>3. st # <<>>
      BY <3>2
    <3>4. QED
      BY <3>1, <3>2, <3>3, StructTypes DEF Position
  <2>2. m # NoText /\ g # NoText
    BY <1>1 DEF Complete
  <2>3. g \in Split(Tokens)
    <3>1. st[i].tag \in Seq([key : STRING, args : Seq(Split(Tokens))])
      BY <2>1 DEF Fields
    <3>2. Piece \in [key : STRING, args : Seq(Split(Tokens))]
      <4>1. DOMAIN st[i].tag = 1..Len(st[i].tag)
        BY <2>1, StructTypes
      <4>2. QED
        BY <2>1, <3>1, <4>1, ElementOfSeq DEF Piece
    <3>3. Piece.args \in Seq(Split(Tokens))
      BY <3>2
    <3>4. Param(Piece.args) \in ParamRecord
      BY <3>3, ParamFacts
    <3>5. QED
      BY <2>2, <3>4 DEF ParamRecord, Given
  <2>4. RuneCount(f.text) \in Int
    <3>1. f.text \in Seq(Tokens)
      BY <2>1 DEF Fields, Split
    <3>2. \A j \in DOMAIN f.text : f.text[j].w \in DOMAIN Runes
      BY <2>1, ValidatorsAssumption
    <3>3. QED
      BY <3>1, <3>2, RuneCountInt
  <2>5. \A v : With(v) = [message |-> m, value |-> v]
    BY DEF With
  <2>6. \A v : With(v).message = m /\ With(v).value = v
    BY <2>5
  <2>7. /\ \A v : At("gt", v) = GreaterThan(f, With(v))
        /\ \A v : At("ge", v) = GreaterEqual(f, With(v))
        /\ \A v : At("lt", v) = LowerThan(f, With(v))
        /\ \A v : At("le", v) = LowerEqual(f, With(v))
        /\ \A v : At("eq", v) = Equal(f, With(v))
        /\ \A v : At("between", v) = Between(f, With(v))
        /\ \A v : At("contains", v) = ContainsItem(f, With(v))
        /\ \A v : At("required", v) = Required(f, With(v))
        /\ \A v : At("max_length", v) = MaxLength(f, With(v))
        /\ \A v : At("min_length", v) = MinLength(f, With(v))
    BY RuleOf DEF At
  <2> HIDE DEF f, g, m
  <2>8. ASSUME f.kind \in Ordered, Reads(f.kind, g)
        PROVE  /\ At("ge", g) = "nil" <=> At("gt", g) = "nil" \/ At("eq", g) = "nil"
               /\ IF Comparable(f, g)
                    THEN /\ At("le", g) = "nil" <=> At("gt", g) = "message"
                         /\ At("lt", g) = "nil"
                              <=> At("ge", g) = "value" /\ f.kind # "uint16"
                    ELSE /\ {At(fn, g) : fn \in {"gt", "lt", "le", "eq"}} = {"message"}
                         /\ At("ge", g) = "value"
    <3> DEFINE p == With(g)
               x == f.num
               n == NumOf(p.value)
    <3>1. p.message # NoText /\ Reads(f.kind, p.value)
      BY <2>2, <2>6, <2>8
    <3> HIDE DEF p
    <3>2. f \in Fields
      BY <2>1 DEF f
    <3>3. CASE Comparable(f, g)
      <4>1. /\ x \in Int /\ n \in Int
            /\ GreaterThan(f, p) = IF x > n THEN "nil" ELSE "message"
            /\ GreaterEqual(f, p) = IF x >= n THEN "nil" ELSE "value"
            /\ LowerEqual(f, p) = IF x <= n THEN "nil" ELSE "message"
            /\ Equal(f, p) = IF x = n THEN "nil" ELSE "message"
            /\ LowerThan(f, p) = IF f.kind = "uint16" THEN "unsupported"
                                  ELSE IF x < n THEN "nil" ELSE "message"
        BY <2>6, <2>8, <3>1, <3>2, <3>3, ComparisonTable DEF p
      <4> HIDE DEF x, n
      <4>2. QED
        BY <2>7, <3>3, <4>1 DEF p
    <3>4. CASE ~Comparable(f, g)
      <4>1. /\ GreaterThan(f, p) = "message" /\ LowerThan(f, p) = "message"
            /\ LowerEqual(f, p) = "message" /\ Equal(f, p) = "message"
            /\ GreaterEqual(f, p) = "value"
        BY <2>6, <2>8, <3>1, <3>2, <3>4, ComparisonOfNaN DEF p
      <4>2. /\ At("gt", g) = "message" /\ At("lt", g) = "message"
            /\ At("le", g) = "message" /\ At("eq", g) = "message"
            /\ At("ge", g) = "value"
        BY <2>7, <4>1 DEF p
      <4>3. {At(fn, g) : fn \in {"gt", "lt", "le", "eq"}} = {"message"}
        BY <4>2
      <4>4. QED
        BY <3>4, <4>2, <4>3
    <3>5. QED
      BY <3>3, <3>4
  <2>9. Len(g) = 2 =>
          (At("between", g) = "nil"
             <=> /\ At("ge", NoSpaces(g[1])) = "nil"
                 /\ At("le", NoSpaces(g[2])) = "nil")
    <3>1. f \in Fields
      BY <2>1 DEF f
    <3> DEFINE p  == With(g)
               lo == With(NoSpaces(g[1]))
               hi == With(NoSpaces(g[2]))
    <3>2. /\ p.message = m /\ p.value = g
          /\ lo.message = m /\ lo.value = NoSpaces(g[1])
          /\ hi.message = m /\ hi.value = NoSpaces(g[2])
      BY <2>6
    <3> HIDE DEF p, lo, hi
    <3>3. Len(g) = 2 =>
            (Between(f, p) = "nil" <=> /\ GreaterEqual(f, lo) = "nil"
                                       /\ LowerEqual(f, hi) = "nil")
      BY <2>2, <3>1, <3>2, BetweenIsGeLe
    <3>4. QED
      BY <2>7, <3>3 DEF p, lo, hi
  <2>10. ASSUME At("contains", g) = "nil"
         PROVE  \E j \in DOMAIN g :
                  \/ "nil" \in {At("eq", <<g[j]>>), At("eq", NoSpaces(g[j]))}
                  \/ f.text = NoText /\ <<g[j]>> = NoText
    <3>1. f \in Fields
      BY <2>1 DEF f
    <3>2. ContainsItem(f, [message |-> m, value |-> g]) = "nil"
      BY <2>5, <2>7, <2>10
    <3>3. PICK j \in DOMAIN g :
              \/ Equal(f, [message |-> m, value |-> <<g[j]>>]) = "nil"
              \/ Equal(f, [message |-> m, value |-> NoSpaces(g[j])]) = "nil"
              \/ f.text = NoText /\ <<g[j]>> = NoText
      BY <2>2, <2>3, <3>1, <3>2, ContainsFinds, Zenon
    <3>4. QED
      BY <2>5, <2>7, <3>3
  <2>11. At("required", g) = At("max_length", g)
    BY <2>7 DEF Required, MaxLength
  <2>12. f.kind = "string" /\ IsInt(g) =>
          ({At("min_length", g), At("max_length", g)} = {"message"}
             <=> RuneCount(f.text) * Scale = NumOf(g))
    <3>1. f \in Fields
      BY <2>1 DEF f
    <3>2. QED
      BY <2>2, <2>4, <2>6, <2>7, <3>1, LengthsAgree
  <2>13. QED
    BY <2>8, <2>9, <2>10, <2>11, <2>12, Zenon DEF ComparisonsAgree, f, g
<1>2. ValidateInv => ComparisonsAgree
  BY <1>1 DEF ComparisonsAgree
<1>3. QED
  BY <1>2, ValidateHolds, PTL

-----------------------------------------------------------------------------
(* A list of parameters is read as it was written.                         *)

\* Part 2 of piece from, and the k pieces after it.
Segment(args, from, k) ==
    <<args[from][2]>> \o [j \in 1..k |-> args[from + j][1]]

LEMMA SegmentFacts ==
    ASSUME NEW args \in Seq(Split(Tokens)), NEW from \in 1..Len(args),
           Len(args[from]) = 2, NEW k \in 0..(Len(args) - from)
    PROVE  /\ Segment(args, from, k) \in Seq(Tokens)
           /\ Len(Segment(args, from, k)) = k + 1
           /\ Segment(args, from, k)[1] = args[from][2]
           /\ \A q \in 1..k : Segment(args, from, k)[q + 1] = args[from + q][1]
<1> DEFINE h == <<args[from][2]>>
           t == [j \in 1..k |-> args[from + j][1]]
           s == h \o t
<1>1. Len(args) \in Nat /\ from \in Nat /\ k \in Nat
  OBVIOUS
<1>2. args[from] \in Seq(Tokens) /\ args[from][2] \in Tokens
  <2>1. args[from] \in Split(Tokens)
    OBVIOUS
  <2>2. args[from] \in Seq(Tokens)
    BY <2>1 DEF Split
  <2>3. QED
    BY <2>2
<1>3. h \in Seq(Tokens) /\ Len(h) = 1 /\ h[1] = args[from][2]
  <2>1. \A x \in Tokens : <<x>> \in Seq(Tokens) /\ Len(<<x>>) = 1 /\ <<x>>[1] = x
    OBVIOUS
  <2>2. QED
    BY <1>2, <2>1, Zenon
<1>4. t \in [1..k -> Tokens]
  <2>1. ASSUME NEW j \in 1..k PROVE args[from + j][1] \in Tokens
    <3>1. from + j \in 1..Len(args)
      BY <1>1
    <3>2. args[from + j] \in Split(Tokens)
      BY <3>1
    <3>3. QED
      BY <3>2, SplitFacts
  <2>2. QED
    BY <2>1
<1>5. t \in Seq(Tokens) /\ Len(t) = k
  <2>1. \A z \in [1..k -> Tokens] : z \in Seq(Tokens) /\ Len(z) = k
    BY <1>1
  <2>2. QED
    BY <1>4, <2>1, Zenon
<1>6. \A q \in 1..k : t[q] = args[from + q][1]
  OBVIOUS
<1> HIDE DEF h, t
<1>7. /\ s \in Seq(Tokens) /\ Len(s) = Len(h) + Len(t)
      /\ \A q \in 1..(Len(h) + Len(t)) :
            s[q] = IF q <= Len(h) THEN h[q] ELSE t[q - Len(h)]
  BY <1>3, <1>5, ConcatProperties
<1>8. Segment(args, from, k) = s
  BY DEF Segment, h, t
<1> HIDE DEF s
<1>9. Len(s) = k + 1
  BY <1>1, <1>3, <1>5, <1>7
<1>10. s[1] = args[from][2]
  BY <1>1, <1>3, <1>5, <1>7
<1>11. ASSUME NEW q \in 1..k PROVE s[q + 1] = args[from + q][1]
  <2>1. PICK z \in 1..(Len(h) + Len(t)) : z = q + 1
    <3>1. q + 1 \in 1..(Len(h) + Len(t))
      BY <1>1, <1>3, <1>5
    <3>2. QED
      BY <3>1
  <2>2. ~(z <= Len(h)) /\ z - Len(h) = q
    BY <1>1, <1>3, <2>1
  <2>3. s[z] = t[z - Len(h)]
    BY <1>7, <2>2
  <2>4. QED
    BY <1>6, <2>1, <2>2, <2>3
<1>12. QED
  BY <1>7, <1>8, <1>9, <1>10, <1>11

\* One more piece.
LEMMA SegmentStep ==
    ASSUME NEW args \in Seq(Split(Tokens)), NEW from \in 1..Len(args),
           Len(args[from]) = 2, NEW k \in 1..(Len(args) - from)
    PROVE  Segment(args, from, k)
             = Segment(args, from, k - 1) \o <<args[from + k][1]>>
<1> DEFINE s == Segment(args, from, k)
           u == Segment(args, from, k - 1)
           x == args[from + k][1]
           v == u \o <<x>>
<1>1. Len(args) \in Nat /\ from \in Nat /\ k \in Nat
  OBVIOUS
<1>2. k \in 0..(Len(args) - from) /\ k - 1 \in 0..(Len(args) - from)
  BY <1>1
<1>3. /\ s \in Seq(Tokens) /\ Len(s) = k + 1 /\ s[1] = args[from][2]
      /\ \A q \in 1..k : s[q + 1] = args[from + q][1]
  BY <1>2, SegmentFacts
<1>4. /\ u \in Seq(Tokens) /\ Len(u) = k - 1 + 1 /\ u[1] = args[from][2]
      /\ \A q \in 1..(k - 1) : u[q + 1] = args[from + q][1]
  BY <1>2, SegmentFacts
<1>5. x \in Tokens
  <2>1. from + k \in 1..Len(args)
    BY <1>1
  <2>2. args[from + k] \in Split(Tokens)
    BY <2>1
  <2>3. QED
    BY <2>2, SplitFacts
<1> HIDE DEF s, u
<1>6. <<x>> \in Seq(Tokens) /\ Len(<<x>>) = 1 /\ <<x>>[1] = x
  <2>1. \A y \in Tokens : <<y>> \in Seq(Tokens) /\ Len(<<y>>) = 1 /\ <<y>>[1] = y
    OBVIOUS
  <2>2. QED
    BY <1>5, <2>1, Zenon
<1> DEFINE w == <<x>>
<1>7. w \in Seq(Tokens) /\ Len(w) = 1 /\ w[1] = x
  BY <1>6
<1> HIDE DEF x, w
<1>8. /\ u \o w \in Seq(Tokens) /\ Len(u \o w) = Len(u) + Len(w)
      /\ \A q \in 1..(Len(u) + Len(w)) :
            (u \o w)[q] = IF q <= Len(u) THEN u[q] ELSE w[q - Len(u)]
  BY <1>4, <1>7, ConcatProperties
<1> DEFINE y == u \o w
<1>9. /\ y \in Seq(Tokens) /\ Len(y) = k + 1
      /\ \A q \in 1..(k + 1) : y[q] = IF q <= k THEN u[q] ELSE w[q - k]
  <2>1. Len(u) = k /\ Len(u) + Len(w) = k + 1
    BY <1>1, <1>4, <1>7
  <2>2. QED
    BY <1>8, <2>1
<1> HIDE DEF y
<1>10. ASSUME NEW q \in 1..(k + 1) PROVE s[q] = y[q]
  <2>1. CASE q = 1
    <3>1. 1 \in 1..(k + 1) /\ 1 <= k
      BY <1>1
    <3>2. QED
      BY <1>3, <1>4, <1>9, <2>1, <3>1
  <2>2. CASE q > 1 /\ q <= k
    <3>1. q - 1 \in 1..k /\ q - 1 \in 1..(k - 1) /\ (q - 1) + 1 = q
      BY <1>1, <2>2
    <3>2. s[q] = args[from + (q - 1)][1] /\ u[q] = args[from + (q - 1)][1]
      BY <1>3, <1>4, <3>1
    <3>3. QED
      BY <1>9, <2>2, <3>2
  <2>3. CASE q = k + 1
    <3>1. k \in 1..k /\ ~(q <= k) /\ q - k = 1
      BY <1>1, <2>3
    <3>2. s[q] = x
      BY <1>3, <2>3, <3>1 DEF x
    <3>3. y[q] = w[1]
      BY <1>9, <3>1
    <3>4. QED
      BY <1>7, <3>2, <3>3
  <2>4. QED
    BY <1>1, <2>1, <2>2, <2>3
<1>11. s = y
  BY <1>3, <1>9, <1>10, SeqEqual
<1>12. QED
  BY <1>11 DEF s, y, u, w, x

LEMMA SegmentOne ==
    ASSUME NEW args \in Seq(Split(Tokens)), NEW from \in 1..Len(args),
           Len(args[from]) = 2
    PROVE  Segment(args, from, 0) = <<args[from][2]>>
<1> DEFINE s == Segment(args, from, 0)
           x == args[from][2]
<1>1. 0 \in 0..(Len(args) - from)
  OBVIOUS
<1>2. s \in Seq(Tokens) /\ Len(s) = 0 + 1 /\ s[1] = x
  BY <1>1, SegmentFacts
<1> HIDE DEF s, x
<1>3. s = <<x>>
  BY <1>2
<1>4. QED
  BY <1>3 DEF s, x

\* x is the second parameter of a list when k pieces were joined to the second
\* piece: if it has one "=" and one token before it, the "=" is the one of the
\* second piece.
Shape(args, x, k) ==
    Len(x) = 2 /\ Len(x[1]) = 1 =>
        /\ Len(args[2]) = 2 /\ \A j \in 1..k : Len(args[j + 2]) = 1
        /\ x[1] = <<args[2][1]>> /\ x[2] = Segment(args, 2, k)

LEMMA ShapeStart ==
    ASSUME NEW args \in Seq(Split(Tokens)), Len(args) >= 2
    PROVE  Shape(args, Cut(args)[2], 0)
<1> DEFINE x == Cut(args)[2]
<1>1. 2 \in 1..Len(args)
  OBVIOUS
<1>2. /\ Len(x) = Len(args[2])
      /\ \A n \in 1..Len(args[2]) : x[n] = <<args[2][n]>>
  BY <1>1, CutFacts
<1> HIDE DEF x
<1>3. ASSUME Len(args[2]) = 2
      PROVE  x[1] = <<args[2][1]>> /\ x[2] = Segment(args, 2, 0)
  <2>1. 1 \in 1..Len(args[2]) /\ 2 \in 1..Len(args[2])
    BY <1>3
  <2>2. x[1] = <<args[2][1]>> /\ x[2] = <<args[2][2]>>
    BY <1>2, <2>1
  <2>3. QED
    BY <1>1, <1>3, <2>2, SegmentOne
<1>4. \A j \in 1..0 : Len(args[j + 2]) = 1
  OBVIOUS
<1>5. QED
  BY <1>2, <1>3, <1>4 DEF Shape, x

LEMMA ShapeStep ==
    ASSUME NEW args \in Seq(Split(Tokens)), NEW k \in 1..(Len(args) - 2),
           NEW x \in Items, Shape(args, x, k - 1)
    PROVE  Shape(args, Join(x, Cut(args)[k + 2]), k)
<1> DEFINE b == Cut(args)[k + 2]
           y == Join(x, b)
<1>1. Len(args) \in Nat /\ k \in Nat /\ k + 2 \in 1..Len(args) /\ 2 \in 1..Len(args)
  OBVIOUS
<1>2. /\ b \in Items /\ Len(b) = Len(args[k + 2])
      /\ \A n \in 1..Len(args[k + 2]) : b[n] = <<args[k + 2][n]>>
  BY <1>1, CutFacts
<1> HIDE DEF b
<1>3. /\ Len(y) = Len(x) + Len(b) - 1
      /\ \A j \in 1..(Len(x) - 1) : y[j] = x[j]
      /\ y[Len(x)] = x[Len(x)] \o b[1]
      /\ \A j \in 2..Len(b) : y[Len(x) + j - 1] = b[j]
  BY <1>2, JoinFacts
<1> HIDE DEF y
<1>4. /\ Len(x) \in Nat \ {0} /\ Len(b) \in Nat \ {0}
      /\ x[1] \in Split(Tokens) /\ b[1] \in Split(Tokens)
  BY <1>2, SplitFacts DEF Items
<1>5. ASSUME Len(y) = 2, Len(y[1]) = 1
      PROVE  /\ Len(args[2]) = 2 /\ \A j \in 1..k : Len(args[j + 2]) = 1
             /\ y[1] = <<args[2][1]>> /\ y[2] = Segment(args, 2, k)
  <2>1. Len(x) # 1
    <3> SUFFICES ASSUME Len(x) = 1 PROVE FALSE
      OBVIOUS
    <3>1. y[1] = x[1] \o b[1]
      BY <1>3
    <3>2. /\ x[1] \in Seq(Tokens) /\ Len(x[1]) \in Nat \ {0}
          /\ b[1] \in Seq(Tokens) /\ Len(b[1]) \in Nat \ {0}
      BY <1>4, SplitFacts
    <3>3. Len(x[1] \o b[1]) = Len(x[1]) + Len(b[1])
      BY <3>2, ConcatProperties
    <3>4. QED
      BY <1>5, <3>1, <3>2, <3>3
  <2>2. Len(x) = 2 /\ Len(b) = 1
    <3>1. \A p, q \in Nat \ {0} : p + q - 1 = 2 /\ p # 1 => p = 2 /\ q = 1
      OBVIOUS
    <3>2. Len(x) + Len(b) - 1 = 2
      BY <1>3, <1>5
    <3>3. QED
      BY <1>4, <2>1, <3>1, <3>2, Zenon
  <2>3. y[1] = x[1] /\ y[2] = x[2] \o b[1]
    <3>1. 1 \in 1..(Len(x) - 1)
      BY <2>2
    <3>2. QED
      BY <1>3, <2>2, <3>1
  <2>4. /\ Len(args[2]) = 2 /\ \A j \in 1..(k - 1) : Len(args[j + 2]) = 1
        /\ x[1] = <<args[2][1]>> /\ x[2] = Segment(args, 2, k - 1)
    BY <1>5, <2>2, <2>3 DEF Shape
  <2>5. Len(args[k + 2]) = 1 /\ b[1] = <<args[k + 2][1]>>
    <3>1. Len(args[k + 2]) = 1
      BY <1>2, <2>2
    <3>2. 1 \in 1..Len(args[k + 2])
      BY <3>1
    <3>3. QED
      BY <1>2, <3>1, <3>2
  <2>6. \A j \in 1..k : Len(args[j + 2]) = 1
    <3>1. \A j \in 1..k : j \in 1..(k - 1) \/ j = k
      BY <1>1
    <3>2. QED
      BY <2>4, <2>5, <3>1
  <2>7. Segment(args, 2, k) = Segment(args, 2, k - 1) \o <<args[2 + k][1]>>
    BY <1>1, <2>4, SegmentStep
  <2>8. 2 + k = k + 2
    BY <1>1
  <2>9. y[2] = Segment(args, 2, k)
    BY <2>3, <2>4, <2>5, <2>7, <2>8
  <2>10. QED
    BY <2>3, <2>4, <2>6, <2>9
<1>6. QED
  BY <1>5 DEF Shape, y, b

\* The parameters a list that is not refused can have.
LEMMA ListShape ==
    ASSUME NEW args \in Seq(Split(Tokens)), Len(args) >= 2
    PROVE  /\ Len(List(args)) = 2 /\ List(args)[1] = Cut(args)[1]
           /\ Shape(args, List(args)[2], Len(args) - 2)
<1> DEFINE n == Len(args) - 2
           c == Cut(args)
<1>1. n \in Nat /\ c \in Seq(Items) /\ Len(c) = Len(args)
  BY CutFacts
<1>2. CASE Len(args) <= 2
  <2>1. List(args) = c
    BY <1>2, ListFacts
  <2>2. n = 0 /\ Len(c) = 2
    BY <1>1, <1>2
  <2>3. Shape(args, c[2], 0)
    BY ShapeStart
  <2>4. QED
    BY <2>1, <2>2, <2>3
<1>3. CASE Len(args) > 2
  <2> DEFINE rest == Tail(Tail(Cut(args)))
  <2>1. PICK a : /\ JoinTrace(a, Items, Cut(args)[2], rest)
                 /\ List(args) = <<Cut(args)[1], a[Len(args) - 2]>>
    BY <1>3, JoinedFacts
  <2>2. Len(rest) = n /\ \A k \in 1..n : rest[k] = Cut(args)[k + 2]
    BY <1>3, RestFacts
  <2> HIDE DEF rest
  <2>3. /\ a \in [0..n -> Items] /\ a[0] = Cut(args)[2]
        /\ \A k \in 1..n : a[k] = Join(a[k - 1], Cut(args)[k + 2])
    BY <2>1, <2>2 DEF JoinTrace
  <2> DEFINE S == {k \in 0..n : Shape(args, a[k], k)}
  <2>4. 0 \in S
    <3>1. Shape(args, Cut(args)[2], 0)
      BY ShapeStart
    <3>2. 0 \in 0..n
      BY <1>1
    <3>3. QED
      BY <2>3, <3>1, <3>2
  <2>5. ASSUME NEW k \in 1..n, k - 1 \in S PROVE k \in S
    <3>1. Shape(args, a[k - 1], k - 1) /\ k \in 1..(Len(args) - 2)
      BY <2>5
    <3>2. a[k - 1] \in Items
      <4>1. k - 1 \in 0..n
        BY <1>1
      <4>2. QED
        BY <2>3, <4>1
    <3>3. Shape(args, Join(a[k - 1], Cut(args)[k + 2]), k)
      BY <3>1, <3>2, ShapeStep
    <3>4. k \in 0..n
      BY <1>1
    <3>5. QED
      BY <2>3, <3>3, <3>4
  <2> HIDE DEF S, n
  <2>6. n \in S
    <3>1. n \in 0..n
      BY <1>1
    <3>2. QED
      BY <1>1, <2>4, <2>5, <3>1, UpTo
  <2>7. Shape(args, a[n], n)
    BY <2>6 DEF S
  <2> DEFINE y == a[n]
             x == Cut(args)[1]
  <2>8. List(args) = <<x, y>>
    BY <2>1 DEF n
  <2> HIDE DEF x, y
  <2>9. Len(List(args)) = 2 /\ List(args)[1] = x /\ List(args)[2] = y
    BY <2>8
  <2>10. QED
    BY <2>7, <2>9 DEF x, y, n
<1>4. QED
  BY <1>2, <1>3

MNames == {"m", "message"}
VNames == {"v", "value"}

\* A parameter that is accepted has a name and one "=".
LEMMA SetParamOk ==
    ASSUME NEW p \in ParamRecord, NEW val \in Items, SetParam(p, val).out = "ok"
    PROVE  /\ p.out = "ok" /\ Len(val) = 2 /\ Len(val[1]) = 1
           /\ val[1][1].w \in MNames \cup VNames
           /\ SetParam(p, val).message
                = IF val[1][1].w \in MNames THEN val[2] ELSE p.message
           /\ SetParam(p, val).value
                = IF val[1][1].w \in VNames THEN val[2] ELSE p.value
<1> DEFINE item == Trim(val)
           q == SetParam(p, val)
<1>1. /\ Len(item) = Len(val) /\ Len(item[1]) = Len(val[1])
      /\ item[1][1].w = val[1][1].w
      /\ Len(val) = 2 => item[2] = val[2]
  <2>1. Len(val) = 2 => 2 \in 2..Len(val)
    OBVIOUS
  <2>2. QED
    BY <2>1, TrimFacts
<1>2. q =
        IF p.out # "ok" THEN p
        ELSE IF Len(item) # 2 THEN [p EXCEPT !.out = "syntax"]
        ELSE IF item[1] \in {Text("m"), Text("message")}
          THEN [p EXCEPT !.message = item[2]]
        ELSE IF item[1] \in {Text("v"), Text("value")}
          THEN [p EXCEPT !.value = item[2]]
        ELSE [p EXCEPT !.out = "unexpected"]
  BY Zenon DEF SetParam
<1> HIDE DEF item
<1>3. /\ [p EXCEPT !.out = "syntax"].out # "ok"
      /\ [p EXCEPT !.out = "unexpected"].out # "ok"
  BY DEF ParamRecord
<1>4. p.out = "ok" /\ Len(item) = 2
  BY <1>2, <1>3
<1>5. \A w : Len(Text(w)) = 1 /\ Text(w)[1].w = w
  BY DEF Text, Token
<1>6. CASE item[1] \in {Text("m"), Text("message")}
  <2>1. q = [p EXCEPT !.message = item[2]]
    BY <1>2, <1>4, <1>6
  <2>2. Len(item[1]) = 1 /\ item[1][1].w \in {"m", "message"}
    BY <1>5, <1>6
  <2>3. q.message = item[2] /\ q.value = p.value
    BY <2>1 DEF ParamRecord
  <2> HIDE DEF q
  <2>4. item[1][1].w \in MNames /\ item[1][1].w \notin VNames
    BY <2>2 DEF MNames, VNames
  <2>5. QED
    BY <1>1, <1>4, <2>2, <2>3, <2>4 DEF q
<1>7. CASE /\ item[1] \notin {Text("m"), Text("message")}
           /\ item[1] \in {Text("v"), Text("value")}
  <2>1. q = [p EXCEPT !.value = item[2]]
    BY <1>2, <1>4, <1>7
  <2>2. Len(item[1]) = 1 /\ item[1][1].w \in {"v", "value"}
    BY <1>5, <1>7
  <2>3. q.value = item[2] /\ q.message = p.message
    BY <2>1 DEF ParamRecord
  <2> HIDE DEF q
  <2>4. item[1][1].w \in VNames /\ item[1][1].w \notin MNames
    BY <2>2 DEF MNames, VNames
  <2>5. QED
    BY <1>1, <1>4, <2>2, <2>3, <2>4 DEF q
<1>8. QED
  BY <1>2, <1>3, <1>4, <1>6, <1>7

\* Piece from mentions one of names, and no later piece does.
LastMention(args, names, from) ==
    /\ Len(args[from]) = 2 /\ args[from][1].w \in names
    /\ \A j \in 1..Len(args) : j > from =>
          ~(Len(args[j]) = 2 /\ args[j][1].w \in names)

LEMMA WrittenLast ==
    ASSUME NEW args \in Seq(Split(Tokens)), NEW names, NEW from \in 1..Len(args),
           LastMention(args, names, from),
           NEW k \in 0..(Len(args) - from),
           \A j \in 1..k : Len(args[from + j]) = 1,
           from + k < Len(args) => Len(args[from + k + 1]) > 1
    PROVE  Written(args, names) = Segment(args, from, k)
<1> DEFINE at   == {j \in DOMAIN args : Len(args[j]) = 2 /\ args[j][1].w \in names}
           next == {j \in DOMAIN args : j > Max(at) /\ Len(args[j]) > 1}
           to   == IF next = {} THEN Len(args) ELSE Min(next) - 1
<1>1. Len(args) \in Nat /\ DOMAIN args = 1..Len(args) /\ k \in Nat /\ from \in Nat
  OBVIOUS
<1>0. \A a, b, n \in Nat :
          /\ a + b = n => n - a = b
          /\ b \in 0..(n - a) => a + b = n \/ a + b < n
  OBVIOUS
<1>2. Written(args, names) =
        IF at = {} THEN NoText
        ELSE <<args[Max(at)][2]>> \o [j \in 1..(to - Max(at)) |-> args[Max(at) + j][1]]
  BY Zenon DEF Written
<1>3. from \in at /\ at \in SUBSET (1..Len(args))
  BY <1>1 DEF LastMention
<1>4. Max(at) = from
  <2>1. Max(at) \in at /\ Max(at) >= from
    BY <1>1, <1>3, MaxIsGreatest
  <2>2. \A j \in at : j <= from
    BY <1>1 DEF LastMention
  <2>3. QED
    BY <1>1, <1>3, <2>1, <2>2
<1> HIDE DEF at
<1>5. to - from = k
  <2>1. \A j \in next : j \in 1..Len(args) /\ j > from + k
    <3> SUFFICES ASSUME NEW j \in next, j <= from + k PROVE FALSE
      BY <1>1
    <3>1. j \in 1..Len(args) /\ j > from /\ Len(args[j]) > 1
      BY <1>1, <1>4
    <3>2. PICK q \in 1..k : from + q = j
      <4>1. j - from \in 1..k /\ from + (j - from) = j
        BY <1>1, <3>1
      <4>2. QED
        BY <4>1
    <3>3. Len(args[j]) = 1
      BY <3>2, Zenon
    <3>4. ~(1 > 1)
      OBVIOUS
    <3>5. QED
      BY <3>1, <3>3, <3>4, Zenon
  <2>2. CASE from + k = Len(args)
    <3>1. next = {}
      BY <1>1, <2>1, <2>2
    <3>2. to = Len(args)
      BY <3>1
    <3>3. Len(args) - from = k
      BY <1>1, <1>0, <2>2, Zenon
    <3> HIDE DEF to
    <3>4. QED
      BY <3>2, <3>3, Zenon
  <2>3. CASE from + k < Len(args)
    <3>1. from + k + 1 \in next
      BY <1>1, <1>4, <2>3
    <3>2. next \in SUBSET Nat
      BY <1>1
    <3> HIDE DEF next
    <3>3. Min(next) \in next /\ Min(next) <= from + k + 1
      BY <3>1, <3>2, MinIsLeast
    <3>4. Min(next) = from + k + 1
      BY <1>1, <2>1, <3>3
    <3>5. to = from + k + 1 - 1
      BY <3>1, <3>4
    <3>6. (from + k + 1 - 1) - from = k
      BY <1>1
    <3> HIDE DEF to
    <3>7. QED
      BY <3>5, <3>6, Zenon
  <2>4. from + k = Len(args) \/ from + k < Len(args)
    BY <1>1, <1>0, Zenon
  <2> HIDE DEF to, next
  <2>5. QED
    BY <2>2, <2>3, <2>4, Zenon
<1>6. QED
  BY <1>2, <1>3, <1>4, <1>5 DEF Segment

LEMMA WrittenNone ==
    ASSUME NEW args \in Seq(Split(Tokens)), NEW names,
           \A j \in 1..Len(args) : ~(Len(args[j]) = 2 /\ args[j][1].w \in names)
    PROVE  Written(args, names) = NoText
<1> DEFINE at   == {j \in DOMAIN args : Len(args[j]) = 2 /\ args[j][1].w \in names}
           next == {j \in DOMAIN args : j > Max(at) /\ Len(args[j]) > 1}
           to   == IF next = {} THEN Len(args) ELSE Min(next) - 1
<1>1. Written(args, names) =
        IF at = {} THEN NoText
        ELSE <<args[Max(at)][2]>> \o [j \in 1..(to - Max(at)) |-> args[Max(at) + j][1]]
  BY Zenon DEF Written
<1>2. DOMAIN args = 1..Len(args)
  OBVIOUS
<1>3. at = {}
  BY <1>2, Zenon
<1>4. QED
  BY <1>1, <1>3, Zenon

LEMMA WrittenOne ==
    ASSUME NEW args \in Seq(Split(Tokens)), NEW names, Len(args) = 1,
           Len(args[1]) = 2
    PROVE  Written(args, names)
             = IF args[1][1].w \in names THEN <<args[1][2]>> ELSE NoText
<1>1. CASE args[1][1].w \in names
  <2>1. LastMention(args, names, 1)
    BY <1>1 DEF LastMention
  <2>2. /\ 1 \in 1..Len(args) /\ 0 \in 0..(Len(args) - 1) /\ ~(1 + 0 < Len(args))
        /\ \A j \in 1..0 : Len(args[1 + j]) = 1
    OBVIOUS
  <2>3. Written(args, names) = Segment(args, 1, 0)
    BY <2>1, <2>2, WrittenLast
  <2>4. QED
    BY <1>1, <2>2, <2>3, SegmentOne
<1>2. CASE args[1][1].w \notin names
  <2>1. \A j \in 1..Len(args) : ~(Len(args[j]) = 2 /\ args[j][1].w \in names)
    BY <1>2
  <2>2. QED
    BY <1>2, <2>1, WrittenNone
<1>3. QED
  BY <1>1, <1>2

LEMMA WrittenTwo ==
    ASSUME NEW args \in Seq(Split(Tokens)), NEW names, Len(args) >= 2,
           Len(args[1]) = 2, Len(args[2]) = 2,
           \A j \in 1..(Len(args) - 2) : Len(args[j + 2]) = 1
    PROVE  Written(args, names)
             = IF args[2][1].w \in names THEN Segment(args, 2, Len(args) - 2)
               ELSE IF args[1][1].w \in names THEN <<args[1][2]>> ELSE NoText
<1> DEFINE n == Len(args)
<1>0. n \in Nat /\ n >= 2 /\ 1 \in 1..n /\ 2 \in 1..n
  OBVIOUS
<1>1. \A j \in 1..n : j = 1 \/ j = 2 \/ Len(args[j]) = 1
  <2> SUFFICES ASSUME NEW j \in 1..n, j # 1, j # 2 PROVE Len(args[j]) = 1
    OBVIOUS
  <2>1. PICK q \in 1..(Len(args) - 2) : q + 2 = j
    <3>1. j - 2 \in 1..(Len(args) - 2) /\ (j - 2) + 2 = j
      BY <1>0
    <3>2. QED
      BY <3>1
  <2>2. QED
    BY <2>1, Zenon
<1>2. CASE args[2][1].w \in names
  <2>1. LastMention(args, names, 2)
    <3>1. \A j \in 1..n : j > 2 => Len(args[j]) # 2
      <4>1. \A j \in 1..n : j > 2 => Len(args[j]) = 1
        BY <1>0, <1>1
      <4>2. 1 # 2
        OBVIOUS
      <4>3. QED
        BY <4>1, <4>2, Zenon
    <3>2. QED
      BY <1>2, <3>1, Zenon DEF LastMention
  <2>2. n - 2 \in 0..(n - 2) /\ ~(2 + (n - 2) < n)
    BY <1>0
  <2>3. \A j \in 1..(n - 2) : Len(args[2 + j]) = 1
    <3>1. \A j \in 1..(n - 2) : 2 + j = j + 2
      BY <1>0
    <3>2. QED
      BY <3>1
  <2>4. Written(args, names) = Segment(args, 2, n - 2)
    BY <1>0, <2>1, <2>2, <2>3, WrittenLast
  <2>5. QED
    BY <1>2, <2>4
<1>3. CASE args[2][1].w \notin names /\ args[1][1].w \in names
  <2>1. LastMention(args, names, 1)
    <3>1. \A j \in 1..n : j > 1 => j = 2 \/ Len(args[j]) = 1
      BY <1>0, <1>1
    <3>2. QED
      BY <1>3, <3>1 DEF LastMention
  <2>2. 0 \in 0..(n - 1) /\ \A j \in 1..0 : Len(args[1 + j]) = 1
    BY <1>0
  <2>3. 1 + 0 + 1 = 2 /\ Len(args[2]) > 1
    OBVIOUS
  <2>4. Len(args[1 + 0 + 1]) > 1
    BY <2>3
  <2>5. Written(args, names) = Segment(args, 1, 0)
    BY <1>0, <2>1, <2>2, <2>4, WrittenLast
  <2>6. QED
    BY <1>0, <1>3, <2>5, SegmentOne
<1>4. CASE args[2][1].w \notin names /\ args[1][1].w \notin names
  <2>0. 1 # 2
    OBVIOUS
  <2>1. \A j \in 1..Len(args) : ~(Len(args[j]) = 2 /\ args[j][1].w \in names)
    BY <1>1, <1>4, <2>0, Zenon
  <2>2. QED
    BY <1>4, <2>1, WrittenNone
<1>5. QED
  BY <1>2, <1>3, <1>4

\* The first parameter of a list.
LEMMA FirstItem ==
    ASSUME NEW args \in Seq(Split(Tokens)), Len(args) >= 1
    PROVE  LET x == Cut(args)[1]
           IN  /\ x \in Items /\ Len(x) = Len(args[1])
               /\ Len(x) = 2 => /\ x[1][1].w = args[1][1].w
                                /\ x[2] = <<args[1][2]>>
<1> DEFINE x == Cut(args)[1]
<1>1. 1 \in 1..Len(args)
  OBVIOUS
<1>2. /\ x \in Items /\ Len(x) = Len(args[1])
      /\ \A n \in 1..Len(args[1]) : x[n] = <<args[1][n]>>
  BY <1>1, CutFacts
<1> HIDE DEF x
<1>3. ASSUME Len(x) = 2
      PROVE  x[1] = <<args[1][1]>> /\ x[2] = <<args[1][2]>>
  <2>1. 1 \in 1..Len(args[1]) /\ 2 \in 1..Len(args[1])
    BY <1>2, <1>3
  <2>2. QED
    BY <1>2, <2>1
<1>4. \A y : <<y>>[1] = y
  OBVIOUS
<1>5. QED
  BY <1>2, <1>3, <1>4 DEF x

\* A list that is accepted is read as written.
LEMMA ParamWritten ==
    ASSUME NEW args \in Seq(Split(Tokens)), Param(args).out = "ok"
    PROVE  /\ Param(args).message = Written(args, MNames)
           /\ Param(args).value = Written(args, VNames)
<1> DEFINE s == List(args)
           c == Cut(args)[1]
<1>1. PICK a : ParamTrace(a, ParamRecord, NoParam, s) /\ Param(args) = a[Len(s)]
  BY ParamFacts
<1>2. s \in Seq(Items) /\ Len(args) \in Nat
  BY ListFacts
<1>3. /\ a \in [0..Len(s) -> ParamRecord] /\ a[0] = NoParam
      /\ \A k \in 1..Len(s) : a[k] = SetParam(a[k - 1], s[k])
  BY <1>1 DEF ParamTrace
<1>4. NoParam \in ParamRecord /\ NoParam.message = NoText /\ NoParam.value = NoText
  BY DEF NoParam, ParamRecord
<1>5. CASE Len(args) = 0
  <2>1. s = Cut(args) /\ Len(Cut(args)) = 0
    <3>1. Len(args) <= 2
      BY <1>5
    <3>2. QED
      BY <1>5, <3>1, ListFacts, CutFacts, Zenon
  <2>2. Param(args) = NoParam
    BY <1>1, <1>3, <2>1
  <2>3. \A names : Written(args, names) = NoText
    <3>1. \A j \in 1..Len(args) : FALSE
      BY <1>5
    <3>2. QED
      BY <3>1, WrittenNone, Zenon
  <2>4. QED
    BY <1>4, <2>2, <2>3
<1>6. CASE Len(args) = 1
  <2>1. s = Cut(args) /\ Len(s) = 1
    BY <1>6, ListFacts, CutFacts
  <2>2. /\ c \in Items /\ Len(c) = Len(args[1])
        /\ Len(c) = 2 => c[1][1].w = args[1][1].w /\ c[2] = <<args[1][2]>>
    BY <1>6, FirstItem
  <2> HIDE DEF s, c
  <2>3. Param(args) = SetParam(NoParam, c)
    <3>1. 1 \in 1..Len(s) /\ 1 - 1 = 0 /\ s[1] = c
      BY <2>1 DEF c
    <3>2. a[1] = SetParam(a[0], s[1])
      BY <1>3, <3>1
    <3>3. QED
      BY <1>1, <1>3, <2>1, <3>1, <3>2
  <2>4. SetParam(NoParam, c).out = "ok"
    BY <2>3
  <2>5. /\ Len(c) = 2
        /\ Param(args).message
             = IF c[1][1].w \in MNames THEN c[2] ELSE NoParam.message
        /\ Param(args).value = IF c[1][1].w \in VNames THEN c[2] ELSE NoParam.value
    BY <1>4, <2>2, <2>3, <2>4, SetParamOk
  <2>6. \A names : Written(args, names)
                     = IF args[1][1].w \in names THEN <<args[1][2]>> ELSE NoText
    BY <1>6, <2>2, <2>5, WrittenOne
  <2>7. QED
    BY <1>4, <2>2, <2>5, <2>6
<1>7. CASE Len(args) >= 2
  <2> DEFINE d == s[2]
  <2>1. Len(s) = 2 /\ s[1] = c /\ Shape(args, d, Len(args) - 2) /\ d \in Items
    BY <1>2, <1>7, ListShape
  <2>2. /\ c \in Items /\ Len(c) = Len(args[1])
        /\ Len(c) = 2 => c[1][1].w = args[1][1].w /\ c[2] = <<args[1][2]>>
    BY <1>7, FirstItem
  <2> HIDE DEF s, c
  <2>3. a[1] = SetParam(NoParam, c) /\ Param(args) = SetParam(a[1], d)
        /\ a[1] \in ParamRecord
    <3>1. /\ 1 \in 1..Len(s) /\ 1 - 1 = 0 /\ 2 \in 1..Len(s) /\ 2 - 1 = 1
          /\ 1 \in 0..Len(s)
      BY <2>1
    <3>2. a[1] = SetParam(a[0], s[1]) /\ a[2] = SetParam(a[1], s[2])
      BY <1>3, <3>1
    <3>3. QED
      BY <1>1, <1>3, <2>1, <3>1, <3>2
  <2> HIDE DEF d
  <2>4. SetParam(a[1], d).out = "ok"
    BY <2>3
  <2>5. /\ a[1].out = "ok" /\ Len(d) = 2 /\ Len(d[1]) = 1
        /\ Param(args).message
             = IF d[1][1].w \in MNames THEN d[2] ELSE a[1].message
        /\ Param(args).value = IF d[1][1].w \in VNames THEN d[2] ELSE a[1].value
    BY <2>1, <2>3, <2>4, SetParamOk
  <2>6. SetParam(NoParam, c).out = "ok"
    BY <2>3, <2>5
  <2>7. /\ Len(c) = 2
        /\ a[1].message = IF c[1][1].w \in MNames THEN c[2] ELSE NoParam.message
        /\ a[1].value = IF c[1][1].w \in VNames THEN c[2] ELSE NoParam.value
    BY <1>4, <2>2, <2>3, <2>6, SetParamOk
  <2>8. /\ Len(args[2]) = 2
        /\ \A j \in 1..(Len(args) - 2) : Len(args[j + 2]) = 1
        /\ d[1] = <<args[2][1]>> /\ d[2] = Segment(args, 2, Len(args) - 2)
    BY <2>1, <2>5 DEF Shape
  <2>9. d[1][1] = args[2][1]
    <3> DEFINE y == args[2][1]
               z == d[1]
    <3>1. z = <<y>>
      BY <2>8
    <3> HIDE DEF y, z
    <3>2. z[1] = y
      BY <3>1
    <3>3. QED
      BY <3>2 DEF y, z
  <2>10. \A names : Written(args, names)
             = IF args[2][1].w \in names THEN Segment(args, 2, Len(args) - 2)
               ELSE IF args[1][1].w \in names THEN <<args[1][2]>> ELSE NoText
    BY <1>7, <2>2, <2>7, <2>8, WrittenTwo
  <2>11. QED
    BY <1>4, <2>2, <2>5, <2>7, <2>8, <2>9, <2>10
<1>8. Len(args) = 0 \/ Len(args) = 1 \/ Len(args) >= 2
  <2>1. \A n \in Nat : n = 0 \/ n = 1 \/ n >= 2
    OBVIOUS
  <2>2. QED
    BY <1>2, <2>1, Zenon
<1>9. QED
  BY <1>5, <1>6, <1>7, <1>8, Zenon

\* A list of parameters that Validate does not refuse is read as it was written,
\* for every list: what joining the pieces after the second comma again does to
\* it is shown by induction over the pieces.
THEOREM ParametersAsWritten == Spec => []ParamsAsWritten
<1>1. ASSUME ValidateInv, Runs PROVE ParamsAsWritten
  <2>1. Piece.args \in Seq(Split(Tokens))
    <3>1. Position /\ AtPiece
      BY <1>1 DEF ValidateInv, Runs
    <3>2. i \in DOMAIN st /\ r \in DOMAIN st[i].tag
      BY <3>1, PieceExists
    <3>3. st # <<>>
      BY <3>2
    <3>4. st \in Structs /\ st[i] \in Fields
      BY <3>1, <3>2, <3>3, StructTypes DEF Position
    <3>5. st[i].tag \in Seq([key : STRING, args : Seq(Split(Tokens))])
      BY <3>4 DEF Fields
    <3>6. DOMAIN st[i].tag = 1..Len(st[i].tag)
      BY <3>2, <3>4, StructTypes
    <3>7. Piece \in [key : STRING, args : Seq(Split(Tokens))]
      BY <3>2, <3>5, <3>6, ElementOfSeq DEF Piece
    <3>8. QED
      BY <3>7
  <2>2. Param(Piece.args).out = "ok"
    BY <1>1 DEF Runs
  <2>3. /\ Param(Piece.args).message = Written(Piece.args, MNames)
        /\ Param(Piece.args).value = Written(Piece.args, VNames)
    BY <2>1, <2>2, ParamWritten
  <2>4. QED
    BY <2>3, Zenon DEF ParamsAsWritten, Given, MNames, VNames
<1>2. ValidateInv => ParamsAsWritten
  BY <1>1 DEF ParamsAsWritten
<1>3. QED
  BY <1>2, ValidateHolds, PTL

-----------------------------------------------------------------------------
(* Data: the calls of the handlers on the body of a request.               *)

\* What the state of a request can be.
Bodies == {"full", "rest", "drained"}
Forms  == {"nil", "body", "some", "partial", "query"}

HttpTypeOK ==
    /\ req \in Request
    /\ body \in Bodies /\ had \in Bodies
    /\ form \in Forms
    /\ multi \in {"nil", "body", "some"}
    /\ calls \in Nat
    /\ decoded \in {"no", "some", "whole"} /\ failed \in BOOLEAN
    /\ phase \in {"idle", "check", "done"}
    /\ phase = "idle" => via = "none"

\* A form that can be parsed is left without some of its body, or without a
\* reader for it, only by a call that gave the body to a decoder.
FormGoesMissing ==
    /\ req.media = "form" /\ req.post
    /\ form \in {"query", "some"} \/ (form = "nil" /\ body # "full")

\* How the request got into its state: a decoder leaves no full body, and none
\* when it had all of it, a partial form was reported once, and a form goes
\* missing only in a decoder.
HttpInv ==
    /\ decoded # "no" => body # "full"
    /\ decoded = "whole" => body = "drained"
    /\ form = "partial" => failed /\ calls > 0
    /\ multi = "some" => body # "full"
    /\ FormGoesMissing => decoded # "no"

\* What a binder of the type of the body has bound, when the call found it as
\* found: the exceptions of DataIsComplete.
BoundFrom ==
    \/ bound \in {"body", "error", "partial"}
    \/ bound = "some" /\ req.media \in {"json", "xml"} /\ req.more
    \/ /\ bound \in {"query", "some"} /\ had # "full"
       /\ req.media = "form" => decoded # "no"

\* What Data and the binders have bound in the call in progress.
BoundInv ==
    phase # "idle" =>
        /\ bound = "partial" => failed /\ calls > 1
        /\ via = "data" /\ bound = "error" =>
              phase = "done" /\ result.out = "error"
        /\ via = "data" /\ req.media \in Medias /\ req.contains = {req.media}
              /\ ~(req.media = "form" /\ ~req.post)
              => BoundFrom

DataInv == HttpTypeOK /\ HttpInv /\ BoundInv

-----------------------------------------------------------------------------
(* parser.go.                                                              *)

\* A header that names one type gets the parser of that type.
LEMMA ParserOfOne ==
    ASSUME NEW q, NEW m \in Medias, q.contains = {m}
    PROVE  Parser(q) = m
<1> DEFINE match == {j \in DOMAIN DefaultParsers :
                        DefaultParsers[j] \in q.contains}
<1>1. /\ DOMAIN DefaultParsers = 1..4
      /\ DefaultParsers[1] = "json" /\ DefaultParsers[2] = "form"
      /\ DefaultParsers[3] = "multipart" /\ DefaultParsers[4] = "xml"
  BY DEF DefaultParsers
<1>2. \E j \in 1..4 : match = {j} /\ DefaultParsers[j] = m
  <2>1. CASE m = "json"
    <3>1. match = {1}
      BY <1>1, <2>1
    <3>2. QED
      BY <1>1, <2>1, <3>1
  <2>2. CASE m = "form"
    <3>1. match = {2}
      BY <1>1, <2>2
    <3>2. QED
      BY <1>1, <2>2, <3>1
  <2>3. CASE m = "multipart"
    <3>1. match = {3}
      BY <1>1, <2>3
    <3>2. QED
      BY <1>1, <2>3, <3>1
  <2>4. CASE m = "xml"
    <3>1. match = {4}
      BY <1>1, <2>4
    <3>2. QED
      BY <1>1, <2>4, <3>1
  <2>5. QED
    BY <2>1, <2>2, <2>3, <2>4 DEF Medias
<1>3. Parser(q) = IF match = {} THEN "query" ELSE DefaultParsers[Min(match)]
  BY Zenon DEF Parser
<1> HIDE DEF match
<1>4. PICK j \in 1..4 : match = {j} /\ DefaultParsers[j] = m
  BY <1>2
<1>5. Min({j}) = j
  BY DEF Min
<1>6. QED
  BY <1>3, <1>4, <1>5

-----------------------------------------------------------------------------
(* The binders.                                                            *)

\* A reader that goes on where another stopped leaves no more than it found.
Shorter(b) ==
    /\ b \in Bodies
    /\ body # "full" => b # "full"
    /\ body = "drained" => b = "drained"

\* What ParseForm leaves: a partial form has been reported now or before, and
\* nothing of the body is missing unless a decoder has had it.
LEMMA ParseFormResult ==
    ASSUME HttpTypeOK, HttpInv, NEW f \in FormsAfter
    PROVE  /\ f \in Forms \ {"nil"}
           /\ f = "partial" => ParseFormFails(f) \/ form = "partial"
           /\ req.media = "form" /\ req.post /\ f \in {"query", "some"}
                => decoded # "no" /\ body # "full"
           /\ \A b \in BodiesAfterForm : Shorter(b)
<1>1. form \in Forms /\ body \in Bodies
  BY DEF HttpTypeOK
<1>2. f \in Forms \ {"nil"}
  BY <1>1 DEF FormsAfter, Forms
<1>3. f = "partial" => ParseFormFails(f) \/ form = "partial"
  BY DEF ParseFormFails, FormsAfter
<1>4. ASSUME req.media = "form", req.post, f \in {"query", "some"}
      PROVE  decoded # "no" /\ body # "full"
  <2>1. ASSUME form = "nil" PROVE body # "full"
    BY <1>4, <2>1 DEF FormsAfter, ParsesBody
  <2>2. form # "nil" => form = f
    BY DEF FormsAfter
  <2>3. FormGoesMissing
    BY <1>4, <2>1, <2>2 DEF FormGoesMissing
  <2>4. QED
    BY <2>3 DEF HttpInv
<1>5. \A b \in BodiesAfterForm : Shorter(b)
  BY <1>1 DEF BodiesAfterForm, Left, Shorter, Bodies
<1>6. QED
  BY <1>2, <1>3, <1>4, <1>5

\* A call of ParseForm, alone or in ParseMultipartForm, which may add the body
\* of a multipart request.
LEMMA FormParsed ==
    ASSUME HttpTypeOK, HttpInv, NEW f \in FormsAfter, calls' = calls + 1,
           req' = req, decoded' = decoded,
           failed' = (failed \/ ParseFormFails(f)),
           form' = f \/ (req.media = "multipart" /\ form' \in {"body", "some"}),
           Shorter(body'), multi' = "some" => body' # "full"
    PROVE  /\ HttpInv'
           /\ failed' \in BOOLEAN
           /\ form' \in Forms
           /\ f = "partial" /\ ~ParseFormFails(f) => failed' /\ calls' > 1
<1>1. calls \in Nat /\ calls' \in Nat /\ calls' > 0 /\ (calls > 0 => calls' > 1)
  BY DEF HttpTypeOK
<1>2. /\ failed' \in BOOLEAN
      /\ failed => failed'
      /\ ParseFormFails(f) => failed'
  BY Zenon
<1>3. form = "partial" => failed /\ calls > 0
  BY DEF HttpInv
<1>4. /\ decoded' # "no" => body' # "full"
      /\ decoded' = "whole" => body' = "drained"
  BY DEF HttpInv, Shorter
<1>5. form' = "partial" => failed' /\ calls' > 0
  BY <1>1, <1>2, <1>3, ParseFormResult
<1>6. FormGoesMissing' => decoded' # "no"
  <2>1. form' # "nil"
    BY ParseFormResult
  <2>2. ASSUME FormGoesMissing' PROVE f \in {"query", "some"} /\ req.media = "form" /\ req.post
    BY <2>1, <2>2 DEF FormGoesMissing
  <2>3. QED
    BY <2>2, ParseFormResult
<1>7. f = "partial" /\ ~ParseFormFails(f) => failed' /\ calls' > 1
  BY <1>1, <1>2, <1>3, ParseFormResult
<1>8. form' \in Forms
  BY ParseFormResult DEF Forms
<1>9. QED
  BY <1>2, <1>4, <1>5, <1>6, <1>7, <1>8 DEF HttpInv

\* A call of a binder, counted.
BinderDone ==
    /\ body \in Bodies /\ had \in Bodies
    /\ form \in Forms /\ multi \in {"nil", "body", "some"}
    /\ decoded \in {"no", "some", "whole"} /\ failed \in BOOLEAN
    /\ HttpInv
    /\ bound = "partial" => failed /\ calls > 1

\* What one call of a binder leaves of the request and binds.
LEMMA BindWithResult ==
    ASSUME HttpTypeOK, HttpInv, NEW p, BindWith(p),
           calls' = calls + 1, had' = body, req' = req
    PROVE  /\ BinderDone'
           /\ p \in Medias /\ p = req.media /\ ~(p = "form" /\ ~req.post)
                => BoundFrom'
<1>0. /\ calls \in Nat /\ body \in Bodies /\ form \in Forms
      /\ multi \in {"nil", "body", "some"} /\ failed \in BOOLEAN
      /\ decoded \in {"no", "some", "whole"}
  BY DEF HttpTypeOK
<1>1. CASE p \in {"json", "xml"} /\ Decode(p)
  <2>1. /\ bound' \in Found(p) /\ body' \in Left(bound' = "body")
        /\ decoded' = Decoded
        /\ form' = form /\ multi' = multi /\ failed' = failed
    BY <1>1 DEF Decode
  <2>2. bound' \in {"error", "body", "some"}
    BY <2>1 DEF Found
  <2>3. /\ body' \in {"rest", "drained"}
        /\ body = "drained" \/ bound' = "body" => body' = "drained"
    BY <2>1 DEF Left
  <2>4. /\ decoded' \in {"some", "whole"}
        /\ decoded' = "whole" => bound' = "body" \/ decoded = "whole"
    BY <1>0, <2>1 DEF Decoded
  <2>5. HttpInv'
    BY <1>0, <2>1, <2>3, <2>4 DEF HttpInv, FormGoesMissing
  <2>6. BinderDone'
    BY <1>0, <2>1, <2>2, <2>3, <2>4, <2>5 DEF BinderDone, Bodies
  <2>7. p = req.media => BoundFrom'
    <3>1. bound' = "some" /\ p = req.media => body # "full" \/ req.more
      BY <1>0, <2>1 DEF Found, Bodies
    <3>2. QED
      BY <1>1, <2>2, <3>1 DEF BoundFrom
  <2>8. QED
    BY <2>6, <2>7
<1>2. CASE p = "form" /\ BindForm
  <2> DEFINE f == form'
  <2>1. /\ f \in FormsAfter /\ body' \in BodiesAfterForm
        /\ failed' = (failed \/ ParseFormFails(f))
        /\ bound' = IF ParseFormFails(f) THEN "error" ELSE f
        /\ multi' = multi /\ decoded' = decoded
    BY <1>2 DEF BindForm
  <2>2. Shorter(body')
    BY <2>1, ParseFormResult
  <2>3. multi' = "some" => body' # "full"
    BY <2>1, <2>2 DEF Shorter, HttpInv
  <2>4. /\ HttpInv' /\ failed' \in BOOLEAN /\ form' \in Forms
        /\ f = "partial" /\ ~ParseFormFails(f) => failed' /\ calls' > 1
    BY <2>1, <2>2, <2>3, FormParsed
  <2>5. bound' = "partial" => f = "partial" /\ ~ParseFormFails(f)
    BY <2>1
  <2>6. BinderDone'
    BY <1>0, <2>1, <2>2, <2>4, <2>5 DEF BinderDone, Shorter
  <2>7. req.media = "form" /\ req.post => BoundFrom'
    <3>1. bound' \in {"error", "body", "some", "partial", "query"}
      BY <2>1, ParseFormResult DEF Forms
    <3>2. ASSUME req.media = "form", req.post, bound' \in {"query", "some"}
          PROVE  decoded # "no" /\ body # "full"
      <4>1. f \in {"query", "some"}
        BY <2>1, <3>2
      <4>2. QED
        BY <2>1, <3>2, <4>1, ParseFormResult
    <3>3. QED
      BY <2>1, <3>1, <3>2 DEF BoundFrom
  <2>8. QED
    BY <1>2, <2>6, <2>7
<1>3. CASE p = "multipart" /\ BindMultipartForm
  <2> DEFINE reads == multi = "nil" /\ req.media = "multipart"
  <2>1. PICK f \in FormsAfter :
          /\ failed' = (failed \/ ParseFormFails(f))
          /\ form' = IF reads /\ multi' # "nil" /\ f = "query" THEN multi' ELSE f
          /\ bound' = IF multi' = "nil" \/ ParseFormFails(f) THEN "error" ELSE multi'
    BY <1>3, Zenon DEF BindMultipartForm
  <2>2. /\ multi' \in IF ~reads THEN {multi}
                     ELSE IF body = "rest" THEN {"nil", "some"}
                     ELSE IF body = "full" /\ req.good THEN {"body"} ELSE {"nil"}
        /\ body' \in IF reads THEN Left(multi' = "body" /\ ~req.more)
                             ELSE BodiesAfterForm
        /\ decoded' = decoded
    BY <1>3 DEF BindMultipartForm
  <2>3. /\ multi' \in {"nil", "body", "some"}
        /\ multi' = "some" => body # "full"
    BY <1>0, <2>2 DEF HttpInv
  <2>4. Shorter(body')
    <3>1. ASSUME reads PROVE Shorter(body')
      BY <1>0, <2>2, <3>1 DEF Left, Shorter, Bodies
    <3>2. ASSUME ~reads PROVE Shorter(body')
      BY <2>1, <2>2, <3>2, ParseFormResult
    <3>3. QED
      BY <3>1, <3>2
  <2>5. multi' = "some" => body' # "full"
    BY <2>3, <2>4 DEF Shorter
  <2>6. form' = f \/ (req.media = "multipart" /\ form' \in {"body", "some"})
    BY <2>1, <2>3
  <2>7. /\ HttpInv' /\ failed' \in BOOLEAN /\ form' \in Forms
    BY <2>1, <2>2, <2>4, <2>5, <2>6, FormParsed
  <2>8. bound' \in {"error", "body", "some"} /\ (bound' = "some" => multi' = "some")
    BY <2>1, <2>3
  <2>9. BinderDone'
    BY <1>0, <2>2, <2>3, <2>4, <2>7, <2>8 DEF BinderDone, Shorter
  <2>10. req.media = "multipart" => BoundFrom'
    BY <2>3, <2>8 DEF BoundFrom
  <2>11. QED
    BY <1>3, <2>9, <2>10
<1>4. CASE p = "query" /\ BindQuery
  <2>1. /\ bound' = "query"
        /\ UNCHANGED <<body, form, multi, decoded, failed>>
    BY <1>4 DEF BindQuery
  <2>2. HttpInv'
    BY <1>0, <2>1 DEF HttpInv, FormGoesMissing
  <2>3. QED
    BY <1>0, <1>4, <2>1, <2>2 DEF BinderDone, Medias
<1>5. QED
  BY <1>1, <1>2, <1>3, <1>4 DEF BindWith

-----------------------------------------------------------------------------
(* The invariant.                                                          *)

\* A request starts unread.
LEMMA DataStart == DataInit => DataInv
<1> SUFFICES ASSUME DataInit PROVE DataInv
  OBVIOUS
<1>1. HttpTypeOK
  BY DataAssumption DEF DataInit, Init, HttpTypeOK, Bodies, Forms
<1>2. HttpInv /\ BoundInv
  BY DEF DataInit, Init, HttpInv, BoundInv, FormGoesMissing
<1>3. QED
  BY <1>1, <1>2 DEF DataInv

\* Context.Data.
LEMMA CallDataStep ==
    ASSUME DataInv, CallData
    PROVE  DataInv'
<1>1. /\ HttpTypeOK /\ HttpInv /\ BindWith(Parser(req))
      /\ calls' = calls + 1 /\ had' = body /\ req' = req /\ via' = "data"
  BY DEF DataInv, CallData
<1>2. \/ bound' # "error" /\ phase' = "check"
      \/ phase' = "done" /\ result' = Failed
  BY DEF CallData, Validate, Stop
<1>3. Failed.out = "error"
  BY DEF Failed, Ok
<1>4. ASSUME req.media \in Medias, req.contains = {req.media}
      PROVE  Parser(req) = req.media
  BY <1>4, ParserOfOne
<1>5. /\ BinderDone'
      /\ Parser(req) \in Medias /\ Parser(req) = req.media
           /\ ~(Parser(req) = "form" /\ ~req.post)
           => BoundFrom'
  BY <1>1, BindWithResult
<1>6. HttpTypeOK'
  BY <1>1, <1>2, <1>5 DEF HttpTypeOK, BinderDone
<1>7. BoundInv'
  BY <1>1, <1>2, <1>3, <1>4, <1>5 DEF BoundInv, BinderDone
<1>8. QED
  BY <1>5, <1>6, <1>7 DEF DataInv, BinderDone

\* A binder called by a handler.
LEMMA CallBindStep ==
    ASSUME DataInv, NEW p, CallBind(p)
    PROVE  DataInv'
<1>1. /\ HttpTypeOK /\ HttpInv /\ BindWith(p)
      /\ calls' = calls + 1 /\ had' = body /\ req' = req /\ via' = "bind"
  BY DEF DataInv, CallBind
<1>2. phase' = "done"
  BY DEF CallBind, Stop
<1>3. BinderDone'
  BY <1>1, BindWithResult
<1>4. HttpTypeOK'
  BY <1>1, <1>2, <1>3 DEF HttpTypeOK, BinderDone
<1>5. BoundInv'
  BY <1>1, <1>3 DEF BoundInv, BinderDone
<1>6. QED
  BY <1>3, <1>4, <1>5 DEF DataInv, BinderDone

\* Context.From parses the form and drops the error.
LEMMA FromStep ==
    ASSUME DataInv, From
    PROVE  DataInv'
<1>1. /\ HttpTypeOK /\ HttpInv /\ phase = "idle"
      /\ calls' = calls + 1 /\ form' \in FormsAfter /\ body' \in BodiesAfterForm
      /\ failed' = (failed \/ ParseFormFails(form'))
      /\ UNCHANGED <<phase, via, req, multi, had, decoded>>
  BY DEF DataInv, From, MayCall, vars
<1>2. Shorter(body')
  BY <1>1, ParseFormResult
<1>3. multi' = "some" => body' # "full"
  BY <1>1, <1>2 DEF Shorter, HttpInv
<1>4. HttpInv' /\ failed' \in BOOLEAN /\ form' \in Forms
  BY <1>1, <1>2, <1>3, FormParsed
<1>5. HttpTypeOK'
  BY <1>1, <1>2, <1>4 DEF HttpTypeOK, Shorter
<1>6. BoundInv'
  BY <1>1 DEF BoundInv
<1>7. QED
  BY <1>4, <1>5, <1>6 DEF DataInv

\* A step of Validate leaves the request alone and does not begin in "done".
LEMMA CheckStep ==
    ASSUME DataInv, Check, UNCHANGED <<reading, http, via, bound, hist>>
    PROVE  DataInv'
<1>1. phase = "check" /\ phase' \in {"check", "done"}
  BY DEF Check, NextField, SkipPiece, UnknownRule, BadParam, RuleAccepts,
     RuleRefuses, RulePanics, EndLoop, AtPiece, Runs, Stop
<1>2. UNCHANGED <<req, body, form, multi, calls, had, decoded, failed, via, bound>>
  BY DEF http, hist
<1>3. HttpTypeOK' /\ HttpInv'
  BY <1>1, <1>2 DEF DataInv, HttpTypeOK, HttpInv, FormGoesMissing
<1>4. BoundInv'
  BY <1>1, <1>2 DEF DataInv, BoundInv, BoundFrom
<1>5. QED
  BY <1>3, <1>4 DEF DataInv

\* Every step of the handlers of a request preserves DataInv.
LEMMA DataStep == DataInv /\ [DataNext]_dvars => DataInv'
<1> SUFFICES ASSUME DataInv, [DataNext]_dvars PROVE DataInv'
  OBVIOUS
<1>1. CASE UNCHANGED dvars
  BY <1>1 DEF DataInv, HttpTypeOK, HttpInv, FormGoesMissing, BoundInv, BoundFrom, dvars,
     vars, http, hist
<1>2. CASE CallValue
  BY <1>2 DEF DataInv, HttpTypeOK, HttpInv, FormGoesMissing, BoundInv, BoundFrom,
     CallValue, vars, http, hist
<1>3. CASE CallReturns
  BY <1>3 DEF DataInv, HttpTypeOK, HttpInv, FormGoesMissing, BoundInv, BoundFrom,
     CallReturns, Return, http, hist
<1>4. QED
  BY <1>1, <1>2, <1>3, CallDataStep, CallBindStep, FromStep, CheckStep
  DEF DataNext

LEMMA DataHolds == DataSpec => []DataInv
BY DataStart, DataStep, PTL DEF DataSpec

-----------------------------------------------------------------------------
(* Theorems.                                                               *)

\* Nothing is bound from a form that was not parsed without an error, except
\* after an earlier call has met that error.
THEOREM PartialFormIsOld == DataSpec => []PartialOnlyAfterError
<1>1. DataInv => PartialOnlyAfterError
  BY DEF DataInv, BoundInv, PartialOnlyAfterError
<1>2. QED
  BY <1>1, DataHolds, PTL

\* Data returning nil has bound the struct from the whole body, outside the
\* five exceptions that DataIsComplete lists.
THEOREM DataBindsWholeBody == DataSpec => []DataIsComplete
<1>1. DataInv => DataIsComplete
  BY DEF DataInv, HttpTypeOK, BoundInv, BoundFrom, DataIsComplete, Returned
<1>2. QED
  BY <1>1, DataHolds, PTL

\* After a decoder has read of a JSON or XML body no call of Data sees the
\* whole of it, and when the decoder had all of it every one fails.
THEOREM BodyIsDecodedOnce == DataSpec => DecodedOnce
<1> DEFINE Once == /\ phase = "idle" /\ decoded # "no" /\ via' = "data"
                   /\ req.contains \in {{"json"}, {"xml"}}
                   => /\ bound' # "body"
                      /\ decoded = "whole" => bound' = "error"
<1>1. DataInv /\ [DataNext]_dvars => [Once]_dvars
  <2> SUFFICES ASSUME DataInv, DataNext, phase = "idle", decoded # "no",
                      via' = "data", req.contains \in {{"json"}, {"xml"}}
               PROVE  /\ bound' # "body"
                      /\ decoded = "whole" => bound' = "error"
    OBVIOUS
  <2>1. CallData
    BY DEF DataInv, HttpTypeOK, DataNext, CallBind, From, CallValue, Check,
       NextField, SkipPiece, UnknownRule, BadParam, RuleAccepts, RuleRefuses,
       RulePanics, EndLoop, AtPiece, Runs, CallReturns
  <2>2. Parser(req) \in {"json", "xml"}
    BY ParserOfOne DEF Medias
  <2>3. Decode(Parser(req))
    BY <2>1, <2>2 DEF CallData, BindWith
  <2>4. /\ body # "full" /\ body \in Bodies
        /\ decoded = "whole" => body = "drained"
    BY DEF DataInv, HttpInv, HttpTypeOK
  <2>5. QED
    BY <2>3, <2>4 DEF Decode, Found, Bodies
<1>2. QED
  BY <1>1, DataHolds, PTL DEF DataSpec, DecodedOnce

\* What a handler reads of a request is what was sent, or says that it is not:
\* no conversion wraps around, no default hides an error, and the ways to
\* read a parameter agree.
THEOREM ReadingIsWhatWasSent == DataSpec => []ReadingsSound
<1>1. DataInit => ReadingInv
  BY DEF DataInit, ReadingInv
<1>2. ReadingInv => ReadingsSound
  <2>1. ASSUME reading = NoReading PROVE ReadingsSound
    <3>1. reading.acc.kind = "none"
      BY <2>1 DEF NoReading
    <3>2. QED
      BY <3>1 DEF ReadingsSound, NoWrapAround, DefaultForBadOnly,
         ReadersAgree, Converted
  <2>2. QED
    BY <2>1, ConversionSound, ParameterSound DEF ReadingInv, ReadingsSound
<1>3. QED
  BY <1>1, <1>2, ReadingStep, PTL DEF DataSpec
=============================================================================
