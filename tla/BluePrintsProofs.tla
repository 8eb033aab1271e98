-------------------------- MODULE BluePrintsProofs --------------------------
(* Proofs about BluePrints for every finite set of blueprints, every list  *)
(* of methods and any number of set-up calls.                              *)
EXTENDS BluePrints, FoldProofs, SequenceTheorems, FiniteSetTheorems

-----------------------------------------------------------------------------
(* The inductive invariant.                                                *)

Parts  == Paths \cup {"s", "s/", "*static"}
Slices == [arr : Nat, len : Nat]
Nodes  == [path : Seq(Parts), handles : Slices, blueprint : BPs,
           given : Seq(Nat), mw : Nat]
Routes == [path : Seq(Parts), handles : Seq(Nat), blueprint : BPs,
           given : Seq(Nat), mw : Nat]
Arrays == Seq(Seq(Nat))
Trees  == [BPs -> [MethodSet -> Seq(Nodes)]]

Types ==
    /\ arrays \in Arrays /\ middleware \in [BPs -> Slices]
    /\ prefix \in [BPs -> Seq(Parts)] /\ parent \in [BPs -> BPs \cup {NoBP}]
    /\ own \in [BPs -> BOOLEAN] /\ own[Root]
    /\ methodsTree \in Trees
    /\ router \in [MethodSet -> Seq(Routes)] /\ done \in [MethodSet -> Nat]
    /\ pc \in {"setup", "illegal", "init", "panic", "start", "serve"}
    /\ ops \in Nat /\ runs \in Nat /\ included \in [BPs -> Nat]
    /\ spare \in BOOLEAN

\* s is nil or part of an array of a.
SliceOK(a, s) == \/ s.arr = 0 /\ s.len = 0
                 \/ s.arr \in DOMAIN a /\ s.len <= Len(a[s.arr])

\* An append of something to s moves it to a new array.
Full(a, s) == s.arr = 0 \/ s.len = Len(a[s.arr])

\* The arrays hold what the slices of middleware and of the routes refer to.
Held(a, tree) ==
    /\ \A b \in BPs : SliceOK(a, middleware[b])
    /\ \A b \in BPs, m \in MethodSet : \A i \in DOMAIN tree[b][m] :
          SliceOK(a, tree[b][m][i].handles)

\* The handlers of a route are the ones it was given.
Kept(a, tree) ==
    /\ \A b \in BPs : Full(a, middleware[b])
    /\ \A b \in BPs, m \in MethodSet : \A i \in DOMAIN tree[b][m] :
          Content(a, tree[b][m][i].handles) = tree[b][m][i].given

WellMade(tree) ==
    \A b \in BPs, m \in MethodSet : \A i \in DOMAIN tree[b][m] :
        tree[b][m][i].given # <<>>

\* c is the engine's blueprint or, if it was included once only, its child.
UnderRoot(c) ==
    c = Root \/ (included[c] > 0 /\ (included[c] = 1 => parent[c] = Root))

Adopted(tree) ==
    \A m \in MethodSet : \A i \in DOMAIN tree[Root][m] :
        UnderRoot(tree[Root][m][i].blueprint)

\* The router holds only routes of the engine's blueprint, and ends with the
\* done ones the running init inserted, in their order.
InsertedAs(tree, routes, n, at, run) ==
    /\ \A i \in DOMAIN routes : \E j \in DOMAIN tree : routes[i].path = tree[j].path
    /\ run = 0 => routes = <<>>
    /\ at \in {"init", "start", "serve"} =>
          /\ n <= Len(tree) /\ n <= Len(routes)
          /\ run = 1 => n = Len(routes)
          /\ \A i \in 1..n : routes[Len(routes) - n + i].path = tree[i].path
    /\ at \in {"start", "serve"} => n = Len(tree)

InsertedFor(m) ==
    /\ InsertedAs(methodsTree[Root][m], router[m], done[m], pc, runs)
    /\ \A i \in DOMAIN router[m] : UnderRoot(router[m][i].blueprint)

Inserted ==
    /\ \A m \in MethodSet : InsertedFor(m)
    /\ runs = 0 => pc \in {"setup", "illegal"}

BluePrintsInv ==
    /\ Types /\ Held(arrays, methodsTree) /\ WellMade(methodsTree)
    /\ Adopted(methodsTree) /\ Inserted
    /\ ~spare => Kept(arrays, methodsTree)
    /\ ChainAsRegistered

-----------------------------------------------------------------------------
(* Slices.                                                                 *)

\* What a slice reads.
LEMMA ContentFacts ==
    ASSUME NEW a \in Arrays, NEW s \in Slices, SliceOK(a, s)
    PROVE  /\ Content(a, s) \in Seq(Nat) /\ Len(Content(a, s)) = s.len
           /\ \A k \in 1..s.len : Content(a, s)[k] = a[s.arr][k]
<1>0. s.arr \in Nat /\ s.len \in Nat
  BY DEF Slices
<1>1. CASE s.arr = 0
  <2>1. Content(a, s) = <<>> /\ s.len = 0
    <3>1. 0 \notin DOMAIN a
      BY DEF Arrays
    <3>2. QED
      BY <1>1, <3>1 DEF Content, SliceOK
  <2>2. QED
    BY <2>1
<1>2. CASE s.arr # 0
  <2> DEFINE t == a[s.arr]
             c == SubSeq(t, 1, s.len)
  <2>1. t \in Seq(Nat) /\ s.len <= Len(t) /\ Len(t) \in Nat
    BY <1>2 DEF SliceOK, Arrays
  <2>2. Content(a, s) = c
    BY <1>2 DEF Content
  <2> HIDE DEF t
  <2>3. \A k \in 1..s.len : t[k] \in Nat
    BY <1>0, <2>1
  <2>4. /\ c \in Seq(Nat)
        /\ Len(c) = IF 1 <= s.len THEN s.len - 1 + 1 ELSE 0
        /\ \A k \in 1..(s.len - 1 + 1) : c[k] = t[1 + k - 1]
    BY <1>0, <2>1, <2>3, SubSeqProperties
  <2> HIDE DEF c
  <2>5. Len(c) = s.len
    BY <1>0, <2>4
  <2>6. \A k \in 1..s.len : c[k] = t[k]
    <3>1. s.len - 1 + 1 = s.len /\ \A k \in 1..s.len : 1 + k - 1 = k
      BY <1>0
    <3>2. QED
      BY <2>4, <3>1
  <2>7. QED
    BY <2>2, <2>4, <2>5, <2>6 DEF t
<1>3. QED
  BY <1>1, <1>2

LEMMA GrowCapFits ==
    ASSUME NEW old \in Nat, NEW need \in Nat
    PROVE  GrowCap(old, need) \in Nat /\ need <= GrowCap(old, need)
<1> DEFINE want == IF need > 2 * old THEN need ELSE 2 * old
<1>1. want \in Nat /\ need <= want
  OBVIOUS
<1>2. GrowCap(old, need) = IF want <= 4 THEN want ELSE want + (want % 2)
  BY DEF GrowCap
<1> HIDE DEF want
<1>3. want % 2 \in Nat
  BY <1>1
<1>4. QED
  BY <1>1, <1>2, <1>3

\* The arrays of b are those of a, with the same lengths, and maybe more.
Longer(a, b) ==
    /\ Len(a) <= Len(b)
    /\ \A k \in DOMAIN a : Len(b[k]) = Len(a[k])

Same(a, b) ==
    /\ Len(a) <= Len(b)
    /\ \A k \in DOMAIN a : b[k] = a[k]

\* What append returns.
Appended(a, s, xs, new) ==
    /\ new.arrays \in Arrays /\ new.slice \in Slices
    /\ SliceOK(new.arrays, new.slice)
    /\ new.slice.len = s.len + Len(xs)
    /\ Content(new.arrays, new.slice) = Content(a, s) \o xs
    /\ Longer(a, new.arrays)
    /\ Full(a, s) /\ xs # <<>> => Same(a, new.arrays)

\* append in place.
LEMMA AppendInPlace ==
    ASSUME NEW a \in Arrays, NEW s \in Slices, SliceOK(a, s), NEW xs \in Seq(Nat),
           s.len + Len(xs) <= Cap(a, s)
    PROVE  Appended(a, s, xs, AppendSlice(a, s, xs))
<1> DEFINE len == s.len + Len(xs)
           all == Content(a, s) \o xs
           new == [arrays |-> [a EXCEPT ![s.arr] = all \o SubSeq(@, len + 1, Len(@))],
                   slice |-> [arr |-> s.arr, len |-> len]]
<1>0. s.arr \in Nat /\ s.len \in Nat /\ Len(xs) \in Nat /\ len \in Nat
  BY DEF Slices
<1>1. AppendSlice(a, s, xs) = new
  BY DEF AppendSlice
<1>2. all \in Seq(Nat) /\ Len(all) = len
  <2>1. Content(a, s) \in Seq(Nat) /\ Len(Content(a, s)) = s.len
    BY ContentFacts
  <2>2. QED
    BY <2>1, ConcatProperties
<1>3. CASE s.arr = 0
  <2>1. 0 \notin DOMAIN a
    BY DEF Arrays
  <2>2. s.len = 0 /\ Cap(a, s) = 0
    BY <1>3, <2>1 DEF SliceOK, Cap
  <2>3. len = 0 /\ xs = <<>>
    BY <1>0, <2>2
  <2>4. new.arrays = a /\ new.slice = s
    BY <1>3, <2>1, <2>2, <2>3 DEF Slices, Arrays
  <2>5. Content(a, s) = <<>> /\ Content(a, s) \o xs = <<>>
    BY <1>3, <2>3 DEF Content
  <2> HIDE DEF new
  <2>6. Longer(a, a)
    BY DEF Longer, Arrays
  <2>7. QED
    BY <1>0, <1>1, <2>3, <2>4, <2>5, <2>6 DEF Appended
<1>4. CASE s.arr # 0
  <2> DEFINE t == a[s.arr]
             e == SubSeq(t, len + 1, Len(t))
             u == all \o e
             n == [a EXCEPT ![s.arr] = u]
             z == [arr |-> s.arr, len |-> len]
  <2>1. s.arr \in DOMAIN a /\ t \in Seq(Nat) /\ Len(t) \in Nat /\ Len(t) = Cap(a, s)
    BY <1>4 DEF SliceOK, Arrays, Cap
  <2>2. new.arrays = n /\ new.slice = z
    BY <2>1 DEF Arrays
  <2>3. z \in Slices /\ z.arr = s.arr /\ z.len = len
    BY <1>0 DEF Slices
  <2> HIDE DEF t, new, z, all
  <2>4. e \in Seq(Nat) /\ Len(e) = Len(t) - len
    <3>1. \A k \in (len + 1)..Len(t) : t[k] \in Nat
      BY <1>0, <2>1, SMTT(30)
    <3>2. /\ e \in Seq(Nat)
          /\ Len(e) = IF len + 1 <= Len(t) THEN Len(t) - (len + 1) + 1 ELSE 0
      BY <1>0, <2>1, <3>1, SubSeqProperties, SMTT(30)
    <3> HIDE DEF e
    <3>3. QED
      BY <1>0, <2>1, <3>2, SMTT(30)
  <2> HIDE DEF e, len
  <2>5. /\ u \in Seq(Nat) /\ Len(u) = Len(t)
        /\ \A k \in 1..len : u[k] = all[k]
    <3>1. /\ u \in Seq(Nat) /\ Len(u) = Len(all) + Len(e)
          /\ \A k \in 1..(Len(all) + Len(e)) :
                u[k] = IF k <= Len(all) THEN all[k] ELSE e[k - Len(all)]
      BY <1>2, <2>4, ConcatProperties
    <3> HIDE DEF u
    <3>2. Len(all) + Len(e) = Len(t) /\ len <= Len(t)
      BY <1>0, <1>2, <2>1, <2>4 DEF len
    <3>3. \A k \in 1..len : k \in 1..(Len(all) + Len(e)) /\ k <= Len(all)
      BY <1>0, <1>2, <2>1, <3>2
    <3>4. QED
      BY <3>1, <3>2, <3>3
  <2> HIDE DEF u
  <2>6. /\ n \in Arrays /\ Len(n) = Len(a) /\ n[s.arr] = u
        /\ \A k \in DOMAIN a : k # s.arr => n[k] = a[k]
        /\ DOMAIN n = DOMAIN a
    BY <2>1, <2>5 DEF Arrays
  <2> HIDE DEF n
  <2>7. len <= Len(t)
    BY <2>1 DEF len
  <2>8. SliceOK(n, z)
    BY <2>1, <2>3, <2>5, <2>6, <2>7 DEF SliceOK
  <2>9. Content(n, z) = all
    <3>1. /\ Content(n, z) \in Seq(Nat) /\ Len(Content(n, z)) = len
          /\ \A k \in 1..len : Content(n, z)[k] = u[k]
      BY <2>3, <2>6, <2>8, ContentFacts, SMTT(30)
    <3>2. QED
      BY <1>2, <2>5, <3>1, SeqEqual
  <2>10. Longer(a, n)
    <3>1. Len(a) \in Nat
      BY DEF Arrays
    <3>2. QED
      BY <2>5, <2>6, <3>1 DEF Longer, t
  <2>11. ~(Full(a, s) /\ xs # <<>>)
    <3> SUFFICES ASSUME Full(a, s), xs # <<>> PROVE FALSE
      OBVIOUS
    <3>1. s.len = Len(t)
      BY <1>4 DEF Full, t
    <3>2. Len(xs) # 0
      OBVIOUS
    <3>3. QED
      BY <1>0, <2>7, <3>1, <3>2 DEF len
  <2>12. QED
    BY <1>1, <2>2, <2>3, <2>6, <2>8, <2>9, <2>10, <2>11 DEF Appended, all, len
<1>5. QED
  BY <1>3, <1>4

\* append in a new array.
LEMMA AppendNew ==
    ASSUME NEW a \in Arrays, NEW s \in Slices, SliceOK(a, s), NEW xs \in Seq(Nat),
           ~(s.len + Len(xs) <= Cap(a, s))
    PROVE  Appended(a, s, xs, AppendSlice(a, s, xs))
<1> DEFINE len == s.len + Len(xs)
           all == Content(a, s) \o xs
           g == GrowCap(Cap(a, s), len)
           u == [i \in 1..g |-> IF i <= len THEN all[i] ELSE 0]
           n == Append(a, u)
           z == [arr |-> Len(a) + 1, len |-> len]
<1>0. /\ s.arr \in Nat /\ s.len \in Nat /\ Len(xs) \in Nat /\ len \in Nat
      /\ Len(a) \in Nat /\ DOMAIN a = 1..Len(a)
  BY DEF Slices, Arrays
<1>1. AppendSlice(a, s, xs) = [arrays |-> n, slice |-> z]
  BY DEF AppendSlice
<1>2. all \in Seq(Nat) /\ Len(all) = len
  <2>1. Content(a, s) \in Seq(Nat) /\ Len(Content(a, s)) = s.len
    BY ContentFacts
  <2>2. QED
    BY <2>1, ConcatProperties
<1>3. Cap(a, s) \in Nat
  BY <1>0 DEF Cap, Arrays, SliceOK
<1>4. g \in Nat /\ len <= g
  BY <1>0, <1>3, GrowCapFits
<1> HIDE DEF g
<1>5. /\ u \in Seq(Nat) /\ Len(u) = g
      /\ \A k \in 1..len : u[k] = all[k]
  <2> HIDE DEF len, all
  <2>1. \A k \in 1..len : all[k] \in Nat
    BY <1>2
  <2>2. u \in [1..g -> Nat]
    BY <1>0, <1>4, <2>1
  <2>3. \A v \in [1..g -> Nat] : v \in Seq(Nat) /\ Len(v) = g
    BY <1>4
  <2>4. \A k \in 1..len : k \in 1..g /\ k <= len
    BY <1>0, <1>4
  <2>5. \A k \in 1..len : u[k] = all[k]
    BY <2>4
  <2>6. QED
    BY <2>2, <2>3, <2>5, Zenon
<1> HIDE DEF u
<1>6. /\ n \in Arrays /\ Len(n) = Len(a) + 1 /\ n[Len(a) + 1] = u
      /\ \A k \in 1..Len(a) : n[k] = a[k]
      /\ DOMAIN n = 1..(Len(a) + 1)
  BY <1>0, <1>5 DEF Arrays
<1> HIDE DEF n
<1>7. z \in Slices /\ z.arr = Len(a) + 1 /\ z.len = len
  BY <1>0 DEF Slices
<1> HIDE DEF z, all, len
<1>8. SliceOK(n, z)
  <2>1. Len(a) + 1 \in DOMAIN n
    BY <1>0, <1>6
  <2>2. QED
    BY <1>4, <1>5, <1>6, <1>7, <2>1 DEF SliceOK
<1>9. Content(n, z) = all
  <2>1. /\ Content(n, z) \in Seq(Nat) /\ Len(Content(n, z)) = len
        /\ \A k \in 1..len : Content(n, z)[k] = u[k]
    BY <1>6, <1>7, <1>8, ContentFacts, SMTT(30)
  <2>2. QED
    BY <1>2, <1>5, <2>1, SeqEqual
<1>10. Same(a, n) /\ Longer(a, n)
  BY <1>0, <1>6 DEF Same, Longer
<1>11. QED
  BY <1>1, <1>6, <1>7, <1>8, <1>9, <1>10 DEF Appended, all, len

LEMMA AppendFacts ==
    ASSUME NEW a \in Arrays, NEW s \in Slices, SliceOK(a, s), NEW xs \in Seq(Nat)
    PROVE  Appended(a, s, xs, AppendSlice(a, s, xs))
  BY AppendInPlace, AppendNew

\* A slice refers to the same part of arrays that only got longer.
LEMMA LongerKeeps ==
    ASSUME NEW a \in Arrays, NEW b \in Arrays, NEW s \in Slices,
           SliceOK(a, s), Longer(a, b)
    PROVE  SliceOK(b, s)
<1>1. CASE s.arr = 0 /\ s.len = 0
  BY <1>1 DEF SliceOK
<1>2. CASE s.arr \in DOMAIN a /\ s.len <= Len(a[s.arr])
  <2>1. s.arr \in DOMAIN b
    BY <1>2 DEF Longer, Arrays
  <2>2. Len(b[s.arr]) = Len(a[s.arr])
    BY <1>2 DEF Longer
  <2>3. QED
    BY <1>2, <2>1, <2>2 DEF SliceOK
<1>3. QED
  BY <1>1, <1>2 DEF SliceOK

LEMMA SameKeeps ==
    ASSUME NEW a \in Arrays, NEW b \in Arrays, NEW s \in Slices,
           SliceOK(a, s), Same(a, b)
    PROVE  /\ Content(b, s) = Content(a, s)
           /\ Full(a, s) => Full(b, s)
<1>1. CASE s.arr = 0
  BY <1>1 DEF Content, Full
<1>2. CASE s.arr # 0
  <2>1. b[s.arr] = a[s.arr]
    BY <1>2 DEF Same, SliceOK
  <2>2. QED
    BY <1>2, <2>1 DEF Content, Full
<1>3. QED
  BY <1>1, <1>2

-----------------------------------------------------------------------------
(* Registering a route.                                                    *)

\* tree2 is tree with nodes added to blueprint b.
Extended(tree, tree2) ==
    \A c \in BPs, m \in MethodSet :
        /\ Len(tree[c][m]) <= Len(tree2[c][m])
        /\ \A i \in DOMAIN tree[c][m] : tree2[c][m][i] = tree[c][m][i]

\* Node i of blueprint c is an old one of tree, or x in blueprint b.
OldOr(tree, tree2, b, x) ==
    \A c \in BPs, m \in MethodSet : \A i \in DOMAIN tree2[c][m] :
        \/ i \in DOMAIN tree[c][m] /\ tree2[c][m][i] = tree[c][m][i]
        \/ c = b /\ tree2[c][m][i] = x

LEMMA RegisterFacts ==
    ASSUME NEW tree \in Trees, NEW b \in BPs, NEW method, NEW node \in Nodes
    PROVE  LET new == register(tree, b, method, node)
           IN  new \in Trees /\ Extended(tree, new) /\ OldOr(tree, new, b, node)
<1> DEFINE new == register(tree, b, method, node)
           row == [m \in MethodSet |-> IF method \in {m, ALLMethod}
                      THEN Append(tree[b][m], node) ELSE tree[b][m]]
<1>1. new = [tree EXCEPT ![b] = row]
  BY DEF register, Trees
<1>2. \A c \in BPs, m \in MethodSet : tree[c][m] \in Seq(Nodes)
  BY DEF Trees
<1>3. \A s \in Seq(Nodes) :
        /\ Append(s, node) \in Seq(Nodes) /\ Len(s) \in Nat
        /\ Len(Append(s, node)) = Len(s) + 1 /\ DOMAIN s = 1..Len(s)
        /\ DOMAIN Append(s, node) = 1..(Len(s) + 1)
        /\ \A i \in 1..Len(s) : Append(s, node)[i] = s[i]
        /\ Append(s, node)[Len(s) + 1] = node
  OBVIOUS
<1>4. row \in [MethodSet -> Seq(Nodes)]
  BY <1>2, <1>3
<1>5. \A m \in MethodSet : row[m] = tree[b][m] \/ row[m] = Append(tree[b][m], node)
  OBVIOUS
<1> HIDE DEF row
<1>6. /\ new \in Trees /\ new[b] = row
      /\ \A c \in BPs : c # b => new[c] = tree[c]
  BY <1>1, <1>4 DEF Trees
<1> HIDE DEF new
<1>7. ASSUME NEW c \in BPs, NEW m \in MethodSet
      PROVE  /\ Len(tree[c][m]) <= Len(new[c][m])
             /\ \A i \in DOMAIN tree[c][m] : new[c][m][i] = tree[c][m][i]
             /\ \A i \in DOMAIN new[c][m] :
                  \/ i \in DOMAIN tree[c][m] /\ new[c][m][i] = tree[c][m][i]
                  \/ c = b /\ new[c][m][i] = node
  <2> DEFINE s == tree[c][m]
  <2>1. s \in Seq(Nodes) /\ Len(s) \in Nat /\ DOMAIN s = 1..Len(s)
    BY <1>2
  <2>2. new[c][m] = s \/ (c = b /\ new[c][m] = Append(s, node))
    BY <1>5, <1>6
  <2> HIDE DEF s
  <2>3. CASE new[c][m] = s
    BY <2>1, <2>3 DEF s
  <2>4. CASE c = b /\ new[c][m] = Append(s, node)
    <3> DEFINE t == Append(s, node)
    <3>1. /\ Len(t) = Len(s) + 1 /\ DOMAIN t = 1..(Len(s) + 1)
          /\ \A i \in 1..Len(s) : t[i] = s[i]
          /\ t[Len(s) + 1] = node
      BY <1>3, <2>1
    <3> HIDE DEF t
    <3>2. \A i \in DOMAIN t : i \in 1..Len(s) \/ i = Len(s) + 1
      BY <2>1, <3>1
    <3>3. /\ Len(s) <= Len(t) /\ \A i \in DOMAIN s : t[i] = s[i]
          /\ \A i \in DOMAIN t : (i \in DOMAIN s /\ t[i] = s[i]) \/ t[i] = node
      BY <2>1, <3>1, <3>2
    <3>4. QED
      BY <2>4, <3>3 DEF s, t
  <2>5. QED
    BY <2>2, <2>3, <2>4
<1>8. QED
  BY <1>6, <1>7 DEF Extended, OldOr, new

\* The arrays and trees the invariant allows as long as only routes are added.
Good(x) ==
    /\ Held(x.arrays, x.tree) /\ WellMade(x.tree) /\ Adopted(x.tree)
    /\ Extended(methodsTree, x.tree)
    /\ ~spare => Kept(x.arrays, x.tree)

States == {x \in [arrays : Arrays, tree : Trees] : Good(x)}

\* Handle keeps them.
LEMMA HandleGood ==
    ASSUME Types, NEW x \in States, NEW b \in BPs, NEW method,
           NEW path \in Seq(Parts),
           NEW hs \in Seq(Nat), hs # <<>>
    PROVE  HandleOn(x, b, method, path, hs) \in States
<1> DEFINE app  == AppendSlice(x.arrays, middleware[b], hs)
           a    == app.arrays
           node == [path |-> prefix[b] \o path, handles |-> app.slice,
                    blueprint |-> b, mw |-> middleware[b].len,
                    given |-> Content(x.arrays, middleware[b]) \o hs]
           tree == register(x.tree, b, method, node)
           y    == [arrays |-> a, tree |-> tree]
<1>1. HandleOn(x, b, method, path, hs) = y
  BY DEF HandleOn
<1>2. /\ x.arrays \in Arrays /\ x.tree \in Trees
      /\ Held(x.arrays, x.tree) /\ WellMade(x.tree) /\ Adopted(x.tree)
      /\ Extended(methodsTree, x.tree)
      /\ ~spare => Kept(x.arrays, x.tree)
  BY DEF States, Good
<1>3. /\ middleware[b] \in Slices /\ prefix[b] \in Seq(Parts)
      /\ SliceOK(x.arrays, middleware[b])
      /\ \A c \in BPs : middleware[c] \in Slices /\ SliceOK(x.arrays, middleware[c])
  BY <1>2 DEF Types, Held
<1>4. Appended(x.arrays, middleware[b], hs, app)
  BY <1>2, <1>3, AppendFacts
<1> HIDE DEF app
<1>5. /\ a \in Arrays /\ app.slice \in Slices /\ SliceOK(a, app.slice)
      /\ Content(a, app.slice) = Content(x.arrays, middleware[b]) \o hs
      /\ Longer(x.arrays, a)
      /\ Full(x.arrays, middleware[b]) => Same(x.arrays, a)
  BY <1>4 DEF Appended
<1>6. prefix[b] \o path \in Seq(Parts) /\ middleware[b].len \in Nat
  BY <1>3 DEF Slices
<1>7. /\ Content(x.arrays, middleware[b]) \o hs \in Seq(Nat)
      /\ Content(x.arrays, middleware[b]) \o hs # <<>>
  <2>1. Content(x.arrays, middleware[b]) \in Seq(Nat)
    BY <1>2, <1>3, ContentFacts
  <2>2. QED
    BY <2>1
<1> HIDE DEF a
<1>8. /\ node \in Nodes /\ node.path = prefix[b] \o path
      /\ node.handles = app.slice /\ node.blueprint = b
      /\ node.given = Content(x.arrays, middleware[b]) \o hs
  BY <1>5, <1>6, <1>7 DEF Nodes
<1> HIDE DEF node
<1>9. tree \in Trees /\ Extended(x.tree, tree) /\ OldOr(x.tree, tree, b, node)
  BY <1>2, <1>8, RegisterFacts
<1> HIDE DEF tree
<1>10. \A c \in BPs, m \in MethodSet :
          /\ x.tree[c][m] \in Seq(Nodes) /\ tree[c][m] \in Seq(Nodes)
          /\ \A i \in DOMAIN x.tree[c][m] : x.tree[c][m][i].handles \in Slices
  <2>1. \A c \in BPs, m \in MethodSet :
          x.tree[c][m] \in Seq(Nodes) /\ tree[c][m] \in Seq(Nodes)
    BY <1>2, <1>9 DEF Trees
  <2>2. \A s \in Seq(Nodes) : \A i \in DOMAIN s : s[i].handles \in Slices
    <3>1. \A s \in Seq(Nodes) : \A i \in DOMAIN s : s[i] \in Nodes
      OBVIOUS
    <3>2. \A z \in Nodes : z.handles \in Slices
      BY DEF Nodes
    <3>3. QED
      BY <3>1, <3>2
  <2>3. QED
    BY <2>1, <2>2
<1>11. Held(a, tree)
  <2>1. \A c \in BPs : SliceOK(a, middleware[c])
    BY <1>2, <1>3, <1>5, LongerKeeps
  <2>2. ASSUME NEW c \in BPs, NEW m \in MethodSet, NEW i \in DOMAIN tree[c][m]
        PROVE  SliceOK(a, tree[c][m][i].handles)
    <3>1. CASE i \in DOMAIN x.tree[c][m] /\ tree[c][m][i] = x.tree[c][m][i]
      <4>1. SliceOK(x.arrays, x.tree[c][m][i].handles)
        BY <1>2, <3>1 DEF Held
      <4>2. SliceOK(a, x.tree[c][m][i].handles)
        BY <1>2, <1>5, <1>10, <3>1, <4>1, LongerKeeps
      <4>3. QED
        BY <3>1, <4>2
    <3>2. CASE tree[c][m][i] = node
      BY <1>5, <1>8, <3>2
    <3>3. QED
      BY <1>9, <3>1, <3>2 DEF OldOr
  <2>3. QED
    BY <2>1, <2>2 DEF Held
<1>12. WellMade(tree)
  <2>1. ASSUME NEW c \in BPs, NEW m \in MethodSet, NEW i \in DOMAIN tree[c][m]
        PROVE  tree[c][m][i].given # <<>>
    <3>1. CASE i \in DOMAIN x.tree[c][m] /\ tree[c][m][i] = x.tree[c][m][i]
      BY <1>2, <3>1 DEF WellMade
    <3>2. CASE tree[c][m][i] = node
      BY <1>7, <1>8, <3>2
    <3>3. QED
      BY <1>9, <3>1, <3>2 DEF OldOr
  <2>2. QED
    BY <2>1 DEF WellMade
<1>13. Adopted(tree)
  <2>1. ASSUME NEW m \in MethodSet, NEW i \in DOMAIN tree[Root][m]
        PROVE  UnderRoot(tree[Root][m][i].blueprint)
    <3>0. Root \in BPs
      BY BluePrintsAssumption
    <3>1. CASE i \in DOMAIN x.tree[Root][m] /\ tree[Root][m][i] = x.tree[Root][m][i]
      BY <1>2, <3>1 DEF Adopted
    <3>2. CASE Root = b /\ tree[Root][m][i] = node
      BY <1>8, <3>2 DEF UnderRoot
    <3>3. QED
      BY <1>9, <3>0, <3>1, <3>2 DEF OldOr
  <2>2. QED
    BY <2>1 DEF Adopted
<1>14. Extended(methodsTree, tree)
  <2>1. ASSUME NEW c \in BPs, NEW m \in MethodSet
        PROVE  /\ Len(methodsTree[c][m]) <= Len(tree[c][m])
               /\ \A i \in DOMAIN methodsTree[c][m] :
                     tree[c][m][i] = methodsTree[c][m][i]
    <3> DEFINE s == methodsTree[c][m]
               t == x.tree[c][m]
               u == tree[c][m]
    <3>1. s \in Seq(Nodes) /\ t \in Seq(Nodes) /\ u \in Seq(Nodes)
      BY <1>10 DEF Types, Trees
    <3>2. /\ Len(s) <= Len(t) /\ \A i \in DOMAIN s : t[i] = s[i]
          /\ Len(t) <= Len(u) /\ \A i \in DOMAIN t : u[i] = t[i]
      <4>1. Extended(methodsTree, x.tree) /\ Extended(x.tree, tree)
        BY <1>2, <1>9
      <4>2. QED
        BY <4>1, Zenon DEF Extended
    <3> HIDE DEF s, t, u
    <3>3. Len(s) \in Nat /\ Len(t) \in Nat /\ Len(u) \in Nat
          /\ DOMAIN s = 1..Len(s) /\ DOMAIN t = 1..Len(t)
      BY <3>1
    <3>4. Len(s) <= Len(u) /\ \A i \in DOMAIN s : i \in DOMAIN t
      BY <3>2, <3>3
    <3>5. \A i \in DOMAIN s : u[i] = s[i]
      BY <3>2, <3>4
    <3>6. QED
      BY <3>4, <3>5 DEF s, t, u
  <2>2. QED
    BY <2>1 DEF Extended
<1>15. ~spare => Kept(a, tree)
  <2> SUFFICES ASSUME ~spare PROVE Kept(a, tree)
    OBVIOUS
  <2>1. Kept(x.arrays, x.tree) /\ Same(x.arrays, a)
    <3>1. Kept(x.arrays, x.tree)
      BY <1>2
    <3>2. Full(x.arrays, middleware[b])
      BY <3>1 DEF Kept
    <3>3. QED
      BY <1>5, <3>1, <3>2
  <2>2. \A c \in BPs : Full(a, middleware[c])
    BY <1>2, <1>3, <1>5, <2>1, SameKeeps DEF Kept
  <2>3. ASSUME NEW c \in BPs, NEW m \in MethodSet, NEW i \in DOMAIN tree[c][m]
        PROVE  Content(a, tree[c][m][i].handles) = tree[c][m][i].given
    <3>1. CASE i \in DOMAIN x.tree[c][m] /\ tree[c][m][i] = x.tree[c][m][i]
      <4>1. SliceOK(x.arrays, x.tree[c][m][i].handles)
        BY <1>2, <3>1 DEF Held
      <4>2. Content(a, x.tree[c][m][i].handles)
              = Content(x.arrays, x.tree[c][m][i].handles)
        BY <1>2, <1>5, <1>10, <2>1, <3>1, <4>1, SameKeeps
      <4>3. QED
        BY <2>1, <3>1, <4>2 DEF Kept
    <3>2. CASE tree[c][m][i] = node
      BY <1>5, <1>8, <3>2
    <3>3. QED
      BY <1>9, <3>1, <3>2 DEF OldOr
  <2>4. QED
    BY <2>2, <2>3 DEF Kept
<1>16. y \in [arrays : Arrays, tree : Trees] /\ y.arrays = a /\ y.tree = tree
  BY <1>5, <1>9
<1> HIDE DEF y
<1>17. QED
  BY <1>1, <1>11, <1>12, <1>13, <1>14, <1>15, <1>16 DEF States, Good

AnyState(b, p) ==
    FoldLeft(LAMBDA st, m : HandleOn(st, b, m, <<p>>, Fresh(1)), Now, Methods)

\* ANY stays inside a set that every Handle stays inside.
LEMMA AnyInside ==
    ASSUME NEW A, NEW b, NEW p, Now \in A,
           \A x \in A : \A k \in 1..Len(Methods) :
               HandleOn(x, b, Methods[k], <<p>>, Fresh(1)) \in A
    PROVE  AnyState(b, p) \in A
<1> DEFINE n    == Len(Methods)
           s    == Methods
           base == Now
           hs   == Fresh(1)
           it   == CHOOSE g : g = [t \in SUBSET (DOMAIN s) |->
                     IF t = {} THEN base
                     ELSE HandleOn(g[t \ {Max(t)}], b, s[Max(t)], <<p>>, hs)]
<1>1. AnyState(b, p) = it[DOMAIN s]
  BY Zenon DEF AnyState, FoldLeft, MapThenFoldSet, it
<1>2. n \in Nat /\ DOMAIN s = 1..n
  BY BluePrintsAssumption
<1> HIDE DEF n, it, s, base, hs
<1>3. \A x \in A : \A k \in 1..n : HandleOn(x, b, s[k], <<p>>, hs) \in A
  BY DEF n, s, hs
<1>4. base \in A
  BY DEF base
<1>5. PICK op \in [A \X (1..n) -> A] :
         op = [x \in A \X (1..n) |-> HandleOn(x[1], b, s[x[2]], <<p>>, hs)]
  BY <1>3
<1>6. \A x \in A : \A k \in 1..n : op[<<x, k>>] = HandleOn(x, b, s[k], <<p>>, hs)
  BY <1>5
<1>7. PICK g : Iterates(g, A, base, op, n)
  BY <1>2, <1>4, IterExists
<1>8. g = [t \in SUBSET (DOMAIN s) |->
             IF t = {} THEN base
             ELSE HandleOn(g[t \ {Max(t)}], b, s[Max(t)], <<p>>, hs)]
  <2>1. /\ g \in [SUBSET (1..n) -> A]
        /\ \A t \in SUBSET (1..n) :
             g[t] = IF t = {} THEN base ELSE op[<<g[t \ {Max(t)}], Max(t)>>]
    BY <1>7, Zenon DEF Iterates
  <2>2. \A t \in SUBSET (1..n) : t # {} =>
           g[t \ {Max(t)}] \in A /\ Max(t) \in 1..n
    BY <1>2, <1>4, <1>7, IterInside
  <2>3. \A t \in SUBSET (1..n) :
          g[t] = IF t = {} THEN base
                 ELSE HandleOn(g[t \ {Max(t)}], b, s[Max(t)], <<p>>, hs)
    BY <1>6, <2>1, <2>2, Zenon
  <2>4. QED
    BY <1>2, <2>1, <2>3
<1>9. it = [t \in SUBSET (DOMAIN s) |->
             IF t = {} THEN base
             ELSE HandleOn(it[t \ {Max(t)}], b, s[Max(t)], <<p>>, hs)]
  BY <1>8, Zenon DEF it
<1>10. Follows(it, A, base, op, n)
  <2>1. it[{}] = base
    BY <1>9
  <2>2. ASSUME NEW k \in 1..n, it[1..(k - 1)] \in A
        PROVE  it[1..k] = op[<<it[1..(k - 1)], k>>]
    <3>0. k \in Nat \ {0}
      BY <1>2
    <3>1. 1..k # {} /\ Max(1..k) = k /\ (1..k) \ {k} = 1..(k - 1)
      BY <3>0, Prefix
    <3>2. 1..k \in SUBSET (DOMAIN s)
      BY <1>2
    <3>3. it[1..k] = HandleOn(it[(1..k) \ {Max(1..k)}], b, s[Max(1..k)], <<p>>, hs)
      BY <1>9, <3>1, <3>2, Zenon
    <3>4. it[1..k] = HandleOn(it[1..(k - 1)], b, s[k], <<p>>, hs)
      BY <3>1, <3>3
    <3>5. QED
      BY <1>6, <2>2, <3>4, Zenon
  <2>3. QED
    BY <2>1, <2>2, Zenon DEF Follows
<1>11. PICK a : Trace(a, A, base, op, n, it[1..n])
  BY <1>2, <1>4, <1>10, TraceOf
<1>12. a \in [0..n -> A] /\ a[n] = it[1..n] /\ n \in 0..n
  BY <1>2, <1>11 DEF Trace
<1>13. it[1..n] \in A
  BY <1>12
<1>14. QED
  BY <1>1, <1>2, <1>13

-----------------------------------------------------------------------------
(* Set-up calls.                                                           *)

LEMMA ExtendedSame == ASSUME NEW tree \in Trees PROVE Extended(tree, tree)
<1>1. \A c \in BPs, m \in MethodSet : Len(tree[c][m]) \in Nat
  BY DEF Trees
<1>2. QED
  BY <1>1 DEF Extended

LEMMA NowGood == ASSUME BluePrintsInv PROVE Now \in States
<1>1. Now \in [arrays : Arrays, tree : Trees]
      /\ Now.arrays = arrays /\ Now.tree = methodsTree
  BY DEF Now, BluePrintsInv, Types
<1>2. Extended(methodsTree, methodsTree)
  BY ExtendedSame DEF BluePrintsInv, Types
<1>3. QED
  BY <1>1, <1>2 DEF States, Good, BluePrintsInv

\* While the program sets the engine up, the router stays as it is.
LEMMA SetUpInserted ==
    ASSUME BluePrintsInv, pc = "setup", pc' = "setup", router' = router,
           runs' = runs, methodsTree' \in Trees,
           Extended(methodsTree, methodsTree'),
           \A c \in BPs : UnderRoot(c) => UnderRoot(c)'
    PROVE  Inserted' /\ ChainAsRegistered'
<1>1. ChainAsRegistered'
  BY DEF ChainAsRegistered
<1>2. ASSUME NEW m \in MethodSet PROVE InsertedFor(m)'
  <2> DEFINE s == methodsTree[Root][m]
             t == methodsTree'[Root][m]
             q == router[m]
  <2>0. Root \in BPs
    BY BluePrintsAssumption
  <2>1. /\ Len(s) <= Len(t) /\ \A i \in DOMAIN s : t[i] = s[i]
    BY <2>0, Zenon DEF Extended
  <2>2. s \in Seq(Nodes) /\ t \in Seq(Nodes) /\ q \in Seq(Routes)
    BY <2>0 DEF BluePrintsInv, Types, Trees
  <2>3. /\ runs = 0 => q = <<>>
        /\ \A i \in DOMAIN q : /\ \E j \in DOMAIN s : q[i].path = s[j].path
                              /\ UnderRoot(q[i].blueprint)
    BY DEF BluePrintsInv, Inserted, InsertedFor, InsertedAs
  <2>4. \A i \in DOMAIN q : q[i].blueprint \in BPs
    <3>1. \A i \in DOMAIN q : q[i] \in Routes
      BY <2>2
    <3>2. \A z \in Routes : z.blueprint \in BPs
      BY DEF Routes
    <3>3. QED
      BY <3>1, <3>2
  <2>5. \A i \in DOMAIN s : i \in DOMAIN t /\ t[i] = s[i]
    <3> HIDE DEF s, t, q
    <3>1. QED
      BY <2>1, <2>2
  <2>6. \A i \in DOMAIN q : \E j \in DOMAIN t : q[i].path = t[j].path
    <3> HIDE DEF s, t, q
    <3>1. QED
      BY <2>3, <2>5
  <2>7. \A i \in DOMAIN q : UnderRoot(q[i].blueprint)'
    BY <2>3, <2>4
  <2>8. QED
    BY <2>3, <2>6, <2>7 DEF InsertedFor, InsertedAs
<1>3. QED
  BY <1>1, <1>2 DEF Inserted

\* A step that only adds routes.
LEMMA RoutedStep ==
    ASSUME BluePrintsInv, SetUp, NEW x \in States, Routed(x)
    PROVE  BluePrintsInv'
<1>1. /\ arrays' = x.arrays /\ methodsTree' = x.tree /\ middleware' = middleware
      /\ prefix' = prefix /\ parent' = parent /\ own' = own
      /\ included' = included /\ spare' = spare
  BY DEF Routed
<1>2. /\ pc = "setup" /\ pc' = pc /\ ops' = ops + 1 /\ router' = router
      /\ done' = done /\ runs' = runs /\ interceptors' = interceptors
  BY DEF SetUp, engine
<1>3. /\ x.arrays \in Arrays /\ x.tree \in Trees
      /\ Held(x.arrays, x.tree) /\ WellMade(x.tree) /\ Adopted(x.tree)
      /\ Extended(methodsTree, x.tree)
      /\ ~spare => Kept(x.arrays, x.tree)
  BY DEF States, Good
<1>4. Types'
  BY <1>1, <1>2, <1>3, SMTT(30) DEF BluePrintsInv, Types
<1>5. Held(arrays, methodsTree)' /\ WellMade(methodsTree)'
  BY <1>1, <1>3 DEF Held, WellMade, SliceOK
<1>6. \A c : UnderRoot(c) => UnderRoot(c)'
  BY <1>1 DEF UnderRoot
<1>7. Adopted(methodsTree)'
  BY <1>1, <1>3, <1>6, SMTT(30) DEF Adopted
<1>8. (~spare => Kept(arrays, methodsTree))'
  BY <1>1, <1>3 DEF Kept, Full, Content
<1>9. Inserted' /\ ChainAsRegistered'
  <2>1. methodsTree' \in Trees /\ Extended(methodsTree, methodsTree')
    BY <1>1, <1>3
  <2>2. pc' = "setup" /\ runs' = runs /\ router' = router /\ pc = "setup"
    BY <1>2
  <2>3. QED
    BY <1>6, <2>1, <2>2, SetUpInserted
<1>10. QED
  BY <1>4, <1>5, <1>7, <1>8, <1>9 DEF BluePrintsInv

\* The numbers of new handlers.
LEMMA FreshFacts ==
    ASSUME BluePrintsInv, NEW k \in 1..3
    PROVE  Fresh(k) \in Seq(Nat) /\ Fresh(k) # <<>> /\ Len(Fresh(k)) = k
<1>1. \A v \in [1..k -> Nat] : v \in Seq(Nat) /\ Len(v) = k /\ v # <<>>
  OBVIOUS
<1>2. Fresh(k) \in [1..k -> Nat]
  BY DEF Fresh, BluePrintsInv, Types
<1>3. QED
  BY <1>1, <1>2

LEMMA OnePart ==
    ASSUME NEW p \in Paths
    PROVE  <<p>> \in Seq(Parts)
  BY DEF Parts

LEMMA StaticPart ==
    ASSUME NEW url \in {"s", "s/"}
    PROVE  <<url, "*static">> \in Seq(Parts)
  BY DEF Parts

LEMMA HandleStep ==
    ASSUME BluePrintsInv, NEW b \in BPs, NEW m, NEW p \in Paths, Handle(b, m, p)
    PROVE  BluePrintsInv'
<1>1. 1 \in 1..3 /\ Types
  BY DEF BluePrintsInv
<1>2. HandleOn(Now, b, m, <<p>>, Fresh(1)) \in States
  BY <1>1, NowGood, FreshFacts, OnePart, HandleGood
<1>3. QED
  BY <1>2, RoutedStep DEF Handle

\* Both closures RAW registers are handlers.
LEMMA RawHandlers ==
    ASSUME BluePrintsInv
    PROVE  RawHandlerFuncGroup(Fresh(2)) \in Seq(Nat)
           /\ RawHandlerFuncGroup(Fresh(2)) # <<>>
<1> DEFINE hs == Fresh(2)
           rs == RawHandlerFuncGroup(hs)
<1>1. 2 \in 1..3
  OBVIOUS
<1>2. hs \in Seq(Nat) /\ hs # <<>> /\ Len(hs) = 2
  BY <1>1, FreshFacts
<1> HIDE DEF hs
<1>3. hs[Len(hs)] \in Nat /\ DOMAIN hs = 1..2
  <2>1. DOMAIN hs = 1..Len(hs) /\ Len(hs) \in 1..Len(hs)
    BY <1>2
  <2>2. hs[Len(hs)] \in Nat
    BY <1>2, <2>1, ElementOfSeq
  <2>3. QED
    BY <1>2, <2>1, <2>2, Zenon
<1>4. rs \in [1..2 -> Nat]
  BY <1>3 DEF RawHandlerFuncGroup, Last
<1>5. \A n \in Nat : \A v \in [1..n -> Nat] : v \in Seq(Nat) /\ Len(v) = n
  OBVIOUS
<1>6. rs \in Seq(Nat) /\ Len(rs) = 2
  BY <1>4, <1>5
<1>7. Len(<<>>) # 2
  OBVIOUS
<1> HIDE DEF rs
<1>8. rs \in Seq(Nat) /\ rs # <<>>
  BY <1>6, <1>7, Zenon
<1>9. QED
  BY <1>8 DEF rs, hs

LEMMA RawStep ==
    ASSUME BluePrintsInv, NEW b \in BPs, NEW m, NEW p \in Paths, RAW(b, m, p)
    PROVE  BluePrintsInv'
<1> DEFINE rs == RawHandlerFuncGroup(Fresh(2))
<1>1. rs \in Seq(Nat) /\ rs # <<>> /\ Types
  BY RawHandlers DEF BluePrintsInv
<1> HIDE DEF rs
<1>2. HandleOn(Now, b, m, <<p>>, rs) \in States
  BY <1>1, NowGood, OnePart, HandleGood
<1>3. QED
  BY <1>2, RoutedStep DEF RAW, rs

LEMMA AnyStep ==
    ASSUME BluePrintsInv, NEW b \in BPs, NEW p \in Paths, ANY(b, p)
    PROVE  BluePrintsInv'
<1>1. 1 \in 1..3 /\ Types
  BY DEF BluePrintsInv
<1>2. \A x \in States : \A k \in 1..Len(Methods) :
         HandleOn(x, b, Methods[k], <<p>>, Fresh(1)) \in States
  BY <1>1, FreshFacts, OnePart, HandleGood
<1>3. AnyState(b, p) \in States
  BY <1>2, NowGood, AnyInside
<1>4. SetUp /\ Routed(AnyState(b, p))
  BY Zenon DEF ANY, AnyState
<1>5. QED
  BY <1>3, <1>4, RoutedStep

LEMMA StaticStep ==
    ASSUME BluePrintsInv, NEW b \in BPs, NEW url \in {"s", "s/"}, Static(b, url)
    PROVE  BluePrintsInv'
<1>1. 1 \in 1..3 /\ Types
  BY DEF BluePrintsInv
<1>2. HandleOn(Now, b, "GET", <<url, "*static">>, Fresh(1)) \in States
  BY <1>1, NowGood, FreshFacts, StaticPart, HandleGood
<1>3. QED
  BY <1>2, RoutedStep DEF Static

\* Arrays that only got longer hold what they held; if the old ones are still
\* the same, routes keep their handlers.
LEMMA ArraysGrow ==
    ASSUME Types, NEW a \in Arrays, Held(arrays, methodsTree), Longer(arrays, a),
           ~spare => Kept(arrays, methodsTree) /\ Same(arrays, a)
    PROVE  /\ Held(a, methodsTree)
           /\ ~spare => /\ Kept(a, methodsTree)
                        /\ \A b \in BPs : Content(a, middleware[b])
                                            = Content(arrays, middleware[b])
<1>1. \A b \in BPs : middleware[b] \in Slices /\ SliceOK(arrays, middleware[b])
  BY DEF Types, Held
<1>2. arrays \in Arrays
  BY DEF Types
<1>3. ASSUME NEW b \in BPs, NEW m \in MethodSet, NEW i \in DOMAIN methodsTree[b][m]
      PROVE  /\ methodsTree[b][m][i].handles \in Slices
             /\ SliceOK(arrays, methodsTree[b][m][i].handles)
  <2>1. methodsTree[b][m] \in Seq(Nodes)
    BY DEF Types, Trees
  <2>2. methodsTree[b][m][i] \in Nodes
    BY <2>1
  <2>3. QED
    BY <2>2 DEF Nodes, Held
<1>4. Held(a, methodsTree)
  BY <1>1, <1>2, <1>3, LongerKeeps DEF Held
<1>5. ASSUME ~spare
      PROVE  /\ Kept(a, methodsTree)
             /\ \A b \in BPs :
                  Content(a, middleware[b]) = Content(arrays, middleware[b])
  <2>1. Kept(arrays, methodsTree) /\ Same(arrays, a)
    BY <1>5
  <2>2. \A b \in BPs :
          /\ Full(a, middleware[b])
          /\ Content(a, middleware[b]) = Content(arrays, middleware[b])
    BY <1>1, <1>2, <2>1, SameKeeps DEF Kept
  <2>3. \A b \in BPs, m \in MethodSet : \A i \in DOMAIN methodsTree[b][m] :
          Content(a, methodsTree[b][m][i].handles)
            = Content(arrays, methodsTree[b][m][i].handles)
    BY <1>2, <1>3, <2>1, SameKeeps
  <2>4. QED
    BY <2>1, <2>2, <2>3 DEF Kept
<1>6. QED
  BY <1>4, <1>5

LEMMA UseStep ==
    ASSUME BluePrintsInv, NEW b \in BPs, NEW k \in Sizes, Use(b, k)
    PROVE  BluePrintsInv'
<1> DEFINE app == AppendSlice(arrays, middleware[b], Fresh(k))
           a   == app.arrays
<1>1. /\ SetUp /\ arrays' = a
      /\ middleware' = [middleware EXCEPT ![b] = app.slice]
      /\ spare' = (spare \/ app.slice.len < Cap(a, app.slice))
      /\ prefix' = prefix /\ parent' = parent /\ own' = own
      /\ methodsTree' = methodsTree /\ included' = included
  BY DEF Use
<1>2. /\ pc = "setup" /\ pc' = pc /\ ops' = ops + 1 /\ router' = router
      /\ done' = done /\ runs' = runs /\ interceptors' = interceptors
  BY <1>1 DEF SetUp, engine
<1>3. Types /\ Held(arrays, methodsTree)
  BY DEF BluePrintsInv
<1>4. Fresh(k) \in Seq(Nat) /\ Fresh(k) # <<>>
  BY FreshFacts, BluePrintsAssumption
<1>5. Appended(arrays, middleware[b], Fresh(k), app)
  BY <1>3, <1>4, AppendFacts DEF Types, Held
<1> HIDE DEF app
<1>6. /\ a \in Arrays /\ app.slice \in Slices /\ SliceOK(a, app.slice)
      /\ Longer(arrays, a)
      /\ Full(arrays, middleware[b]) => Same(arrays, a)
  BY <1>4, <1>5 DEF Appended
<1>7. ~spare => Kept(arrays, methodsTree) /\ Same(arrays, a)
  BY <1>6 DEF BluePrintsInv, Kept
<1> HIDE DEF a
<1>8. /\ Held(a, methodsTree)
      /\ ~spare => Kept(a, methodsTree)
  BY <1>3, <1>6, <1>7, ArraysGrow
<1>9. \A c \in BPs : middleware'[c] = IF c = b THEN app.slice ELSE middleware[c]
  BY <1>1, <1>3 DEF Types
<1>10. middleware' \in [BPs -> Slices]
  BY <1>1, <1>3, <1>6 DEF Types
<1>11. Types'
  <2>1. arrays' \in Arrays /\ spare' \in BOOLEAN
    BY <1>1, <1>6
  <2>2. QED
    BY <1>1, <1>2, <1>3, <1>10, <2>1 DEF Types
<1>12. Held(arrays, methodsTree)'
  BY <1>1, <1>6, <1>8, <1>9 DEF Held
<1>13. (~spare => Kept(arrays, methodsTree))'
  <2> SUFFICES ASSUME ~spare' PROVE Kept(arrays, methodsTree)'
    OBVIOUS
  <2>1. ~spare /\ ~(app.slice.len < Cap(a, app.slice))
    BY <1>1
  <2>2. Kept(a, methodsTree)
    BY <1>8, <2>1
  <2>3. Full(a, app.slice)
    <3>1. CASE app.slice.arr = 0
      BY <3>1 DEF Full
    <3>2. CASE app.slice.arr # 0
      <4>1. /\ app.slice.len <= Len(a[app.slice.arr])
            /\ Len(a[app.slice.arr]) \in Nat /\ app.slice.len \in Nat
        BY <1>6, <3>2 DEF SliceOK, Arrays, Slices
      <4>2. ~(app.slice.len < Len(a[app.slice.arr]))
        BY <2>1, <3>2 DEF Cap
      <4>3. QED
        BY <4>1, <4>2 DEF Full
    <3>3. QED
      BY <3>1, <3>2
  <2>4. QED
    BY <1>1, <1>9, <2>2, <2>3 DEF Kept
<1>14. WellMade(methodsTree)'
  BY <1>1 DEF BluePrintsInv, WellMade
<1>15. \A c : UnderRoot(c) => UnderRoot(c)'
  BY <1>1 DEF UnderRoot
<1>16. Adopted(methodsTree)'
  BY <1>1, <1>15 DEF BluePrintsInv, Adopted
<1>17. Inserted' /\ ChainAsRegistered'
  <2>1. methodsTree' \in Trees /\ Extended(methodsTree, methodsTree')
    BY <1>1, <1>3, ExtendedSame DEF Types
  <2>2. QED
    BY <1>2, <1>15, <2>1, SetUpInserted
<1>18. QED
  BY <1>11, <1>12, <1>13, <1>14, <1>16, <1>17 DEF BluePrintsInv

\* Nothing the routes and slices depend on changes.
Frame ==
    /\ arrays' = arrays /\ middleware' = middleware /\ methodsTree' = methodsTree
    /\ parent' = parent /\ included' = included /\ spare' = spare

LEMMA FrameKeeps ==
    ASSUME BluePrintsInv, Frame
    PROVE  /\ Held(arrays, methodsTree)' /\ WellMade(methodsTree)'
           /\ Adopted(methodsTree)' /\ (~spare => Kept(arrays, methodsTree))'
           /\ \A c : UnderRoot(c) => UnderRoot(c)'
<1>1. \A c : UnderRoot(c) => UnderRoot(c)'
  BY DEF UnderRoot, Frame
<1>2. Held(arrays, methodsTree)' /\ WellMade(methodsTree)'
  BY DEF BluePrintsInv, Held, WellMade, Frame
<1>3. Adopted(methodsTree)'
  BY <1>1 DEF BluePrintsInv, Adopted, Frame
<1>4. (~spare => Kept(arrays, methodsTree))'
  BY DEF BluePrintsInv, Kept, Frame
<1>5. QED
  BY <1>1, <1>2, <1>3, <1>4

\* Set-up calls that touch neither routes nor slices.
LEMMA QuietStep ==
    ASSUME BluePrintsInv, Frame, pc = "setup", pc' = pc, router' = router,
           runs' = runs, done' = done, ops' \in Nat,
           prefix' \in [BPs -> Seq(Parts)], own' \in [BPs -> BOOLEAN], own'[Root]
    PROVE  BluePrintsInv'
<1>1. Types'
  BY DEF BluePrintsInv, Types, Frame
<1>2. Inserted' /\ ChainAsRegistered'
  <2>1. methodsTree' \in Trees /\ Extended(methodsTree, methodsTree')
    BY ExtendedSame DEF BluePrintsInv, Types, Frame
  <2>2. QED
    BY <2>1, FrameKeeps, SetUpInserted
<1>3. QED
  BY <1>1, <1>2, FrameKeeps DEF BluePrintsInv

LEMMA PrefixStep ==
    ASSUME BluePrintsInv, NEW b \in BPs, NEW p \in Paths, SetPrefix(b, p)
    PROVE  BluePrintsInv'
<1>1. <<p>> \in Seq(Parts)
  BY OnePart
<1>2. prefix' \in [BPs -> Seq(Parts)]
  BY <1>1 DEF SetPrefix, BluePrintsInv, Types
<1>3. /\ Frame /\ pc = "setup" /\ pc' = pc /\ router' = router /\ runs' = runs
      /\ done' = done /\ own' = own /\ ops' = ops + 1
  BY DEF SetPrefix, SetUp, engine, Frame
<1>4. ops' \in Nat /\ own' \in [BPs -> BOOLEAN] /\ own'[Root]
  BY <1>3 DEF BluePrintsInv, Types
<1>5. QED
  BY <1>2, <1>3, <1>4, QuietStep

LEMMA ComponentStep ==
    ASSUME BluePrintsInv, NEW b \in BPs, SetComponent(b)
    PROVE  BluePrintsInv'
<1>1. own' \in [BPs -> BOOLEAN] /\ own'[Root]
  BY BluePrintsAssumption DEF SetComponent, BluePrintsInv, Types
<1>2. /\ Frame /\ pc = "setup" /\ pc' = pc /\ router' = router /\ runs' = runs
      /\ done' = done /\ prefix' = prefix /\ ops' = ops + 1
  BY DEF SetComponent, SetUp, engine, Frame
<1>3. ops' \in Nat /\ prefix' \in [BPs -> Seq(Parts)]
  BY <1>2 DEF BluePrintsInv, Types
<1>4. QED
  BY <1>1, <1>2, <1>3, QuietStep

LEMMA BindStep == BluePrintsInv /\ Bind => BluePrintsInv'
<1> SUFFICES ASSUME BluePrintsInv, Bind PROVE BluePrintsInv'
  OBVIOUS
<1>1. /\ Frame /\ pc = "setup" /\ pc' = pc /\ router' = router /\ runs' = runs
      /\ done' = done /\ prefix' = prefix /\ own' = own /\ ops' = ops + 1
  BY DEF Bind, SetUp, engine, bps, Frame
<1>2. /\ ops' \in Nat /\ prefix' \in [BPs -> Seq(Parts)]
      /\ own' \in [BPs -> BOOLEAN] /\ own'[Root]
  BY <1>1 DEF BluePrintsInv, Types
<1>3. QED
  BY <1>1, <1>2, QuietStep

LEMMA InterceptorStep ==
    ASSUME BluePrintsInv, NEW k \in Sizes, AddInterceptors(k)
    PROVE  BluePrintsInv'
<1>1. /\ Frame /\ pc = "setup" /\ pc' = pc /\ router' = router /\ runs' = runs
      /\ done' = done /\ prefix' = prefix /\ own' = own /\ ops' = ops + 1
  BY DEF AddInterceptors, bps, Frame
<1>2. /\ ops' \in Nat /\ prefix' \in [BPs -> Seq(Parts)]
      /\ own' \in [BPs -> BOOLEAN] /\ own'[Root]
  BY <1>1 DEF BluePrintsInv, Types
<1>3. QED
  BY <1>1, <1>2, QuietStep

\* Steps of the program and of ListenAndServe between the inserts.
LEMMA ControlStep ==
    ASSUME BluePrintsInv,
           \/ BindIllegal \/ ListenAndServe \/ RunStarters
           \/ StarterFails \/ StartersDone \/ UNCHANGED vars
    PROVE  BluePrintsInv'
<1>1. /\ Frame /\ router' = router /\ prefix' = prefix /\ own' = own /\ ops' = ops
  BY DEF BindIllegal, ListenAndServe, RunStarters, StarterFails, StartersDone,
         vars, engine, bps, Frame
<1>2. Types'
  BY <1>1 DEF BindIllegal, ListenAndServe, RunStarters, StarterFails, StartersDone,
              vars, engine, bps, Frame, BluePrintsInv, Types
<1>3. \A m \in MethodSet :
        /\ Len(router[m]) \in Nat /\ Len(methodsTree[Root][m]) \in Nat
        /\ done[m] \in Nat
  BY BluePrintsAssumption DEF BluePrintsInv, Types, Trees
<1>4. \A m \in MethodSet : \A i \in DOMAIN router[m] :
        /\ \E j \in DOMAIN methodsTree[Root][m] :
              router[m][i].path = methodsTree[Root][m][j].path
        /\ UnderRoot(router[m][i].blueprint)'
  BY FrameKeeps, <1>1 DEF BluePrintsInv, Inserted, InsertedFor, InsertedAs
<1>5. Inserted'
  <2>1. CASE BindIllegal \/ StarterFails
    <3>1. runs' = runs /\ pc' \in {"illegal", "setup"} /\ (runs = 0 => pc # "start")
      BY <2>1 DEF BindIllegal, StarterFails, BluePrintsInv, Inserted
    <3>2. \A m \in MethodSet : InsertedFor(m)'
      BY <1>1, <1>4, <3>1 DEF BluePrintsInv, Inserted, InsertedFor, InsertedAs, Frame
    <3>3. QED
      BY <3>1, <3>2 DEF Inserted
  <2>2. CASE ListenAndServe
    <3>1. /\ pc = "setup" /\ pc' = "init" /\ runs' = runs + 1 /\ runs \in Nat
          /\ \A m \in MethodSet : done'[m] = 0
      BY <2>2 DEF ListenAndServe, BluePrintsInv, Types
    <3>2. runs' = 1 => \A m \in MethodSet : Len(router[m]) = 0
      BY <3>1 DEF BluePrintsInv, Inserted, InsertedFor, InsertedAs
    <3>3. runs' # 0
      BY <3>1
    <3>4. \A m \in MethodSet : InsertedFor(m)'
      BY <1>1, <1>3, <1>4, <3>1, <3>2, <3>3 DEF InsertedFor, InsertedAs, Frame
    <3>5. QED
      BY <3>3, <3>4 DEF Inserted
  <2>3. CASE RunStarters \/ StartersDone \/ UNCHANGED vars
    <3>1. /\ runs' = runs /\ done' = done /\ (runs = 0 => pc' \in {"setup", "illegal"})
          /\ pc' \in {"init", "start", "serve"} => pc \in {"init", "start", "serve"}
          /\ pc' \in {"start", "serve"} =>
                \/ \A m \in MethodSet : done[m] = Len(methodsTree[Root][m])
                \/ pc \in {"start", "serve"}
      BY <2>3 DEF RunStarters, StartersDone, vars, engine, BluePrintsInv, Inserted
    <3>2. \A m \in MethodSet : InsertedFor(m)'
      BY <1>1, <1>4, <3>1 DEF BluePrintsInv, Inserted, InsertedFor, InsertedAs, Frame
    <3>3. QED
      BY <3>1, <3>2 DEF Inserted
  <2>4. QED
    BY <2>1, <2>2, <2>3
<1>6. ChainAsRegistered'
  <2>1. CASE ListenAndServe
    <3>1. /\ pc = "setup" /\ pc' = "init" /\ runs' = runs + 1 /\ runs \in Nat
      BY <2>1 DEF ListenAndServe, BluePrintsInv, Types
    <3>2. runs' = 1 => \A m \in MethodSet : router[m] = <<>>
      BY <3>1 DEF BluePrintsInv, Inserted, InsertedFor, InsertedAs
    <3>3. QED
      BY <1>1, <3>2 DEF ChainAsRegistered
  <2>2. CASE RunStarters \/ StartersDone \/ UNCHANGED vars
    <3>1. /\ runs' = runs
          /\ pc' \in {"init", "start", "serve"} => pc \in {"init", "start", "serve"}
      BY <2>2 DEF RunStarters, StartersDone, vars, engine
    <3>2. QED
      BY <1>1, <3>1 DEF BluePrintsInv, ChainAsRegistered, Frame
  <2>3. CASE BindIllegal \/ StarterFails
    BY <2>3 DEF BindIllegal, StarterFails, ChainAsRegistered
  <2>4. QED
    BY <2>1, <2>2, <2>3
<1>7. QED
  BY <1>1, <1>2, <1>5, <1>6, FrameKeeps DEF BluePrintsInv

-----------------------------------------------------------------------------
(* Include.                                                                *)

\* The nodes of the branch as b gets them.
Copies(branch, p, m) ==
    [i \in DOMAIN methodsTree[branch][m] |->
        [methodsTree[branch][m][i] EXCEPT !.path = <<p>> \o @,
                                          !.blueprint = branch]]

\* x is a copy of node y.
CopyOf(x, y, branch, p) ==
    /\ x \in Nodes /\ x.path = <<p>> \o y.path /\ x.blueprint = branch
    /\ x.handles = y.handles /\ x.given = y.given /\ x.mw = y.mw

LEMMA CopiesFacts ==
    ASSUME Types, WellMade(methodsTree), NEW branch \in BPs, NEW p \in Paths,
           NEW m \in MethodSet
    PROVE  LET c == Copies(branch, p, m)
           IN  /\ c \in Seq(Nodes)
               /\ DOMAIN c = DOMAIN methodsTree[branch][m]
               /\ \A i \in DOMAIN c :
                     CopyOf(c[i], methodsTree[branch][m][i], branch, p)
<1> DEFINE s == methodsTree[branch][m]
           c == Copies(branch, p, m)
<1>1. s \in Seq(Nodes) /\ Len(s) \in Nat /\ DOMAIN s = 1..Len(s)
  BY DEF Types, Trees
<1>2. <<p>> \in Seq(Parts)
  BY OnePart
<1>3. c = [i \in DOMAIN s |-> [s[i] EXCEPT !.path = <<p>> \o @, !.blueprint = branch]]
  BY DEF Copies
<1> HIDE DEF s, c
<1>4. ASSUME NEW y \in Nodes
      PROVE  CopyOf([y EXCEPT !.path = <<p>> \o @, !.blueprint = branch], y, branch, p)
  <2> DEFINE q == <<p>> \o y.path
  <2>1. q \in Seq(Parts)
    BY <1>2 DEF Nodes
  <2> HIDE DEF q
  <2>2. /\ [y EXCEPT !.path = q, !.blueprint = branch] \in Nodes
        /\ [y EXCEPT !.path = q, !.blueprint = branch].path = q
        /\ [y EXCEPT !.path = q, !.blueprint = branch].blueprint = branch
        /\ [y EXCEPT !.path = q, !.blueprint = branch].handles = y.handles
        /\ [y EXCEPT !.path = q, !.blueprint = branch].given = y.given
        /\ [y EXCEPT !.path = q, !.blueprint = branch].mw = y.mw
    BY <2>1 DEF Nodes
  <2>3. QED
    BY <2>2 DEF CopyOf, q, Nodes
<1>5. \A i \in 1..Len(s) : s[i] \in Nodes
  BY <1>1
<1>6. DOMAIN c = 1..Len(s) /\ \A i \in 1..Len(s) : CopyOf(c[i], s[i], branch, p)
  BY <1>1, <1>3, <1>4, <1>5
<1>7. c \in [1..Len(s) -> Nodes]
  <2>1. \A i \in 1..Len(s) : c[i] \in Nodes
    BY <1>6 DEF CopyOf
  <2>2. c = [i \in 1..Len(s) |-> c[i]]
    BY <1>1, <1>3
  <2>3. QED
    BY <2>1, <2>2
<1>8. c \in Seq(Nodes)
  BY <1>1, <1>7
<1>9. QED
  BY <1>1, <1>6, <1>8 DEF s, c

\* Every node is an old one or, in b, the copy of a node of the branch.
LEMMA IncludedTree ==
    ASSUME Types, WellMade(methodsTree), NEW b \in BPs, NEW branch \in BPs,
           NEW p \in Paths, Include(b, branch, p)
    PROVE  /\ methodsTree' \in Trees /\ Extended(methodsTree, methodsTree')
           /\ \A c \in BPs, m \in MethodSet : \A i \in DOMAIN methodsTree'[c][m] :
                \/ /\ i \in DOMAIN methodsTree[c][m]
                   /\ methodsTree'[c][m][i] = methodsTree[c][m][i]
                \/ /\ c = b
                   /\ \E j \in DOMAIN methodsTree[branch][m] :
                         CopyOf(methodsTree'[c][m][i], methodsTree[branch][m][j],
                                branch, p)
<1> DEFINE row  == [m \in MethodSet |-> methodsTree[b][m] \o Copies(branch, p, m)]
           tree == [methodsTree EXCEPT ![b] = row]
<1>3. methodsTree \in Trees
  BY DEF Types
<1>4. methodsTree' = tree
  BY <1>3 DEF Include, Copies, Trees
<1>5. ASSUME NEW m \in MethodSet
      PROVE  LET s == methodsTree[b][m]
                 t == methodsTree[b][m] \o Copies(branch, p, m)
             IN  /\ t \in Seq(Nodes) /\ Len(s) <= Len(t)
                 /\ \A i \in DOMAIN s : t[i] = s[i]
                 /\ \A i \in DOMAIN t :
                      \/ i \in DOMAIN s /\ t[i] = s[i]
                      \/ \E j \in DOMAIN methodsTree[branch][m] :
                            CopyOf(t[i], methodsTree[branch][m][j], branch, p)
  <2> DEFINE s == methodsTree[b][m]
             c == Copies(branch, p, m)
             t == s \o c
  <2>1. s \in Seq(Nodes) /\ Len(s) \in Nat /\ DOMAIN s = 1..Len(s)
    BY <1>3 DEF Trees
  <2>2. /\ c \in Seq(Nodes) /\ DOMAIN c = DOMAIN methodsTree[branch][m]
        /\ \A i \in DOMAIN c : CopyOf(c[i], methodsTree[branch][m][i], branch, p)
    BY <1>3, CopiesFacts
  <2>3. Len(c) \in Nat /\ DOMAIN c = 1..Len(c)
    BY <2>2
  <2> HIDE DEF s, c
  <2>4. /\ t \in Seq(Nodes) /\ Len(t) = Len(s) + Len(c)
        /\ \A k \in 1..(Len(s) + Len(c)) :
              t[k] = IF k <= Len(s) THEN s[k] ELSE c[k - Len(s)]
    BY <2>1, <2>2, ConcatProperties
  <2> HIDE DEF t
  <2>5. DOMAIN t = 1..(Len(s) + Len(c))
    BY <2>4
  <2>6. Len(s) <= Len(t) /\ \A i \in DOMAIN s : t[i] = s[i]
    BY <2>1, <2>3, <2>4
  <2>7. ASSUME NEW i \in DOMAIN t
        PROVE  \/ i \in DOMAIN s /\ t[i] = s[i]
               \/ \E j \in DOMAIN methodsTree[branch][m] :
                     CopyOf(t[i], methodsTree[branch][m][j], branch, p)
    <3>1. CASE i <= Len(s)
      BY <2>1, <2>3, <2>4, <2>5, <3>1
    <3>2. CASE ~(i <= Len(s))
      <4>1. t[i] = c[i - Len(s)] /\ i - Len(s) \in 1..Len(c)
        BY <2>1, <2>3, <2>4, <2>5, <3>2
      <4>2. PICK j \in DOMAIN c : t[i] = c[j]
        BY <2>3, <4>1
      <4>3. CopyOf(t[i], methodsTree[branch][m][j], branch, p)
        BY <2>2, <4>2
      <4>4. QED
        BY <2>2, <4>3
    <3>3. QED
      BY <3>1, <3>2
  <2>8. QED
    BY <2>4, <2>6, <2>7 DEF s, c, t
<1>6. row \in [MethodSet -> Seq(Nodes)]
  BY <1>5
<1>7. \A m \in MethodSet : row[m] = methodsTree[b][m] \o Copies(branch, p, m)
  OBVIOUS
<1> HIDE DEF row
<1>8. /\ tree \in Trees /\ tree[b] = row
      /\ \A c \in BPs : c # b => tree[c] = methodsTree[c]
  BY <1>3, <1>6 DEF Trees
<1> HIDE DEF tree
<1>9. Extended(methodsTree, tree)
  <2>1. \A c \in BPs, m \in MethodSet : Len(methodsTree[c][m]) \in Nat
    BY <1>3 DEF Trees
  <2>2. ASSUME NEW c \in BPs, NEW m \in MethodSet
        PROVE  /\ Len(methodsTree[c][m]) <= Len(tree[c][m])
               /\ \A i \in DOMAIN methodsTree[c][m] :
                     tree[c][m][i] = methodsTree[c][m][i]
    <3>1. CASE c = b
      BY <1>5, <1>7, <1>8, <3>1
    <3>2. CASE c # b
      BY <1>8, <2>1, <3>2
    <3>3. QED
      BY <3>1, <3>2
  <2>3. QED
    BY <2>2 DEF Extended
<1>10. ASSUME NEW c \in BPs, NEW m \in MethodSet, NEW i \in DOMAIN tree[c][m]
       PROVE  \/ /\ i \in DOMAIN methodsTree[c][m]
                 /\ tree[c][m][i] = methodsTree[c][m][i]
              \/ /\ c = b
                 /\ \E j \in DOMAIN methodsTree[branch][m] :
                       CopyOf(tree[c][m][i], methodsTree[branch][m][j], branch, p)
  <2>1. CASE c = b
    BY <1>5, <1>7, <1>8, <2>1
  <2>2. CASE c # b
    BY <1>8, <2>2
  <2>3. QED
    BY <2>1, <2>2
<1>11. QED
  BY <1>4, <1>8, <1>9, <1>10

LEMMA IncludeStep ==
    ASSUME BluePrintsInv, NEW b \in BPs, NEW branch \in BPs, NEW p \in Paths,
           Include(b, branch, p)
    PROVE  BluePrintsInv'
<1> DEFINE tree == methodsTree'
<1>1. /\ SetUp /\ parent' = [parent EXCEPT ![branch] = b]
      /\ included' = [included EXCEPT ![branch] = @ + 1]
      /\ arrays' = arrays /\ middleware' = middleware /\ prefix' = prefix
      /\ own' = own /\ spare' = spare
  BY DEF Include
<1>2. /\ pc = "setup" /\ pc' = pc /\ ops' = ops + 1 /\ router' = router
      /\ done' = done /\ runs' = runs /\ interceptors' = interceptors
  BY <1>1 DEF SetUp, engine
<1>3. Types /\ WellMade(methodsTree) /\ methodsTree \in Trees
  BY SMTT(30) DEF BluePrintsInv, Types
<1>4. /\ tree \in Trees /\ Extended(methodsTree, tree)
      /\ \A c \in BPs, m \in MethodSet : \A i \in DOMAIN tree[c][m] :
           \/ /\ i \in DOMAIN methodsTree[c][m]
              /\ tree[c][m][i] = methodsTree[c][m][i]
           \/ /\ c = b
              /\ \E j \in DOMAIN methodsTree[branch][m] :
                    CopyOf(tree[c][m][i], methodsTree[branch][m][j], branch, p)
  BY <1>3, IncludedTree
<1>5. \A c \in BPs, m \in MethodSet : methodsTree[c][m] \in Seq(Nodes)
  BY <1>3 DEF Trees
<1>6. Types'
  <2>1. parent' \in [BPs -> BPs \cup {NoBP}] /\ included' \in [BPs -> Nat]
    BY <1>1, <1>3 DEF Types
  <2>2. QED
    BY <1>1, <1>2, <1>3, <1>4, <2>1 DEF Types
<1>7. Held(arrays, methodsTree)'
  <2>1. \A c \in BPs : SliceOK(arrays, middleware[c])
    BY DEF BluePrintsInv, Held
  <2>2. ASSUME NEW c \in BPs, NEW m \in MethodSet, NEW i \in DOMAIN tree[c][m]
        PROVE  SliceOK(arrays, tree[c][m][i].handles)
    <3>1. \A d \in BPs : \A j \in DOMAIN methodsTree[d][m] :
            SliceOK(arrays, methodsTree[d][m][j].handles)
      BY DEF BluePrintsInv, Held
    <3>2. QED
      BY <1>4, <3>1 DEF CopyOf
  <2>3. QED
    BY <1>1, <1>4, <2>1, <2>2 DEF Held
<1>8. WellMade(methodsTree)'
  <2>1. ASSUME NEW c \in BPs, NEW m \in MethodSet, NEW i \in DOMAIN tree[c][m]
        PROVE  tree[c][m][i].given # <<>>
    <3>1. \A d \in BPs : \A j \in DOMAIN methodsTree[d][m] :
            methodsTree[d][m][j].given # <<>>
      BY <1>3 DEF WellMade
    <3>2. QED
      BY <1>4, <3>1 DEF CopyOf
  <2>2. QED
    BY <1>4, <2>1 DEF WellMade
<1>9. \A c \in BPs : UnderRoot(c) => UnderRoot(c)'
  <2>1. \A c \in BPs :
          /\ included[c] \in Nat
          /\ included'[c] = IF c = branch THEN included[c] + 1 ELSE included[c]
          /\ parent'[c] = IF c = branch THEN b ELSE parent[c]
    BY <1>1, <1>3 DEF Types
  <2>2. QED
    BY <2>1 DEF UnderRoot
<1>10. Adopted(methodsTree)'
  <2>0. Root \in BPs
    BY BluePrintsAssumption
  <2>1. ASSUME NEW m \in MethodSet, NEW i \in DOMAIN tree[Root][m]
        PROVE  \E d \in BPs : tree[Root][m][i].blueprint = d /\ UnderRoot(d)'
    <3>1. CASE /\ i \in DOMAIN methodsTree[Root][m]
               /\ tree[Root][m][i] = methodsTree[Root][m][i]
      <4>1. methodsTree[Root][m][i] \in Nodes
        BY <1>5, <2>0, <3>1
      <4>2. PICK d \in BPs : d = methodsTree[Root][m][i].blueprint
        BY <4>1 DEF Nodes
      <4>3. UnderRoot(d)
        BY <3>1, <4>2 DEF BluePrintsInv, Adopted
      <4>4. UnderRoot(d)'
        BY <1>9, <4>3
      <4>5. QED
        BY <3>1, <4>2, <4>4
    <3>2. CASE Root = b /\ tree[Root][m][i].blueprint = branch
      <4>1. /\ included[branch] \in Nat /\ included'[branch] = included[branch] + 1
            /\ parent'[branch] = b
        BY <1>1, <1>3 DEF Types
      <4>2. UnderRoot(branch)'
        BY <3>2, <4>1 DEF UnderRoot
      <4>3. QED
        BY <3>2, <4>2
    <3>3. QED
      BY <1>4, <2>0, <3>1, <3>2 DEF CopyOf
  <2>2. QED
    BY <1>4, <2>1 DEF Adopted, UnderRoot
<1>11. (~spare => Kept(arrays, methodsTree))'
  <2> SUFFICES ASSUME ~spare PROVE Kept(arrays, methodsTree)'
    BY <1>1
  <2>1. Kept(arrays, methodsTree)
    BY DEF BluePrintsInv
  <2>2. ASSUME NEW c \in BPs, NEW m \in MethodSet, NEW i \in DOMAIN tree[c][m]
        PROVE  Content(arrays, tree[c][m][i].handles) = tree[c][m][i].given
    <3>1. \A d \in BPs : \A j \in DOMAIN methodsTree[d][m] :
            Content(arrays, methodsTree[d][m][j].handles)
              = methodsTree[d][m][j].given
      BY <2>1 DEF Kept
    <3>2. QED
      BY <1>4, <3>1 DEF CopyOf
  <2>3. QED
    BY <1>1, <1>4, <2>1, <2>2 DEF Kept
<1>12. Inserted' /\ ChainAsRegistered'
  <2>1. methodsTree' \in Trees /\ Extended(methodsTree, methodsTree')
    BY <1>4
  <2>2. QED
    BY <1>2, <1>9, <2>1, SetUpInserted
<1>13. QED
  BY <1>6, <1>7, <1>8, <1>10, <1>11, <1>12, SMTT(30) DEF BluePrintsInv

-----------------------------------------------------------------------------
(* init.                                                                   *)

LEMMA InsertStep ==
    ASSUME BluePrintsInv, NEW m \in MethodSet, InitInsert(m) \/ InitRefused(m)
    PROVE  BluePrintsInv'
<1> DEFINE t    == methodsTree[Root][m]
           n    == done[m] + 1
           node == t[n]
           hs   == Content(arrays, node.handles)
           app  == AppendSlice(arrays, middleware[Root], hs)
           a    == app.arrays
           cs   == Content(a, app.slice)
           new  == [node EXCEPT !.handles = cs]
<1>0. Root \in BPs
  BY BluePrintsAssumption
<1>1. /\ pc = "init" /\ done[m] < Len(t) /\ arrays' = a
      /\ interceptors' = interceptors /\ runs' = runs /\ middleware' = middleware
      /\ prefix' = prefix /\ parent' = parent /\ own' = own
      /\ methodsTree' = methodsTree /\ included' = included /\ spare' = spare
      /\ ops' = ops
  BY DEF InitInsert, InitRefused, AtNode, NextNode, InitChain
<1>2. \/ pc' = "panic" /\ done' = done /\ router' = router
      \/ /\ pc' = pc /\ done' = [done EXCEPT ![m] = n]
         /\ router' = [router EXCEPT ![m] = Append(router[m], new)]
  BY DEF InitInsert, InitRefused, NextNode, InitChain, BluePrintsInv, Types
<1>3. /\ Types /\ Held(arrays, methodsTree) /\ WellMade(methodsTree)
      /\ Adopted(methodsTree) /\ Inserted
      /\ ~spare => Kept(arrays, methodsTree)
  BY DEF BluePrintsInv
<1>4. /\ t \in Seq(Nodes) /\ Len(t) \in Nat /\ DOMAIN t = 1..Len(t)
      /\ done[m] \in Nat /\ n \in DOMAIN t
  BY <1>0, <1>1, <1>3 DEF Types, Trees
<1>5. node \in Nodes /\ node.handles \in Slices /\ SliceOK(arrays, node.handles)
  <2>1. node \in Nodes
    BY <1>4
  <2>2. SliceOK(arrays, node.handles)
    BY <1>0, <1>3, <1>4 DEF Held
  <2>3. QED
    BY <2>1, <2>2 DEF Nodes
<1>6. /\ node.given # <<>> /\ UnderRoot(node.blueprint)
      /\ ~spare => hs = node.given
  BY <1>0, <1>3, <1>4 DEF WellMade, Adopted, Kept
<1>7. hs \in Seq(Nat)
  BY <1>3, <1>5, ContentFacts DEF Types
<1>8. Appended(arrays, middleware[Root], hs, app)
  <2>1. middleware[Root] \in Slices /\ SliceOK(arrays, middleware[Root])
        /\ arrays \in Arrays
    BY <1>0, <1>3 DEF Types, Held
  <2> HIDE DEF hs
  <2>2. QED
    BY <1>7, <2>1, AppendFacts
<1> HIDE DEF app, hs
<1>9. /\ a \in Arrays /\ app.slice \in Slices /\ SliceOK(a, app.slice)
      /\ cs = Content(arrays, middleware[Root]) \o hs
      /\ Longer(arrays, a)
      /\ Full(arrays, middleware[Root]) /\ hs # <<>> => Same(arrays, a)
  BY <1>8 DEF Appended
<1>10. ~spare => Kept(arrays, methodsTree) /\ Same(arrays, a)
  BY <1>0, <1>3, <1>6, <1>9 DEF Kept
<1> HIDE DEF a
<1>11. /\ Held(a, methodsTree)
       /\ ~spare => /\ Kept(a, methodsTree)
                    /\ Content(a, middleware[Root]) = Content(arrays, middleware[Root])
  BY <1>0, <1>3, <1>9, <1>10, ArraysGrow
<1>12. cs \in Seq(Nat)
  BY <1>9, ContentFacts
<1> HIDE DEF cs, node
<1>13. /\ new \in Routes /\ new.path = node.path /\ new.handles = cs
       /\ new.blueprint = node.blueprint /\ new.given = node.given
  BY <1>5, <1>12 DEF Nodes, Routes
<1> HIDE DEF new
<1>14. router \in [MethodSet -> Seq(Routes)] /\ router[m] \in Seq(Routes)
  BY <1>3 DEF Types
<1>15. Held(arrays, methodsTree)' /\ (~spare => Kept(arrays, methodsTree))'
  BY <1>1, <1>11 DEF Held, Kept
<1>16. WellMade(methodsTree)' /\ Adopted(methodsTree)'
  BY <1>1, <1>3 DEF WellMade, Adopted, UnderRoot
<1>17. runs # 0 /\ \A k \in MethodSet : InsertedFor(k)
  BY <1>1, <1>3 DEF Inserted
<1>18. CASE pc' = "panic" /\ done' = done /\ router' = router
  <2>1. Types'
    BY <1>1, <1>3, <1>9, <1>18 DEF Types
  <2>2. \A k \in MethodSet : InsertedFor(k)'
    BY <1>1, <1>17, <1>18 DEF InsertedFor, InsertedAs, UnderRoot
  <2>3. Inserted'
    BY <1>1, <1>17, <2>2 DEF Inserted
  <2>4. ChainAsRegistered'
    BY <1>18 DEF ChainAsRegistered
  <2>5. QED
    BY <1>15, <1>16, <2>1, <2>3, <2>4 DEF BluePrintsInv
<1>19. CASE /\ pc' = pc /\ done' = [done EXCEPT ![m] = n]
            /\ router' = [router EXCEPT ![m] = Append(router[m], new)]
  <2> DEFINE q == router[m]
             u == Append(q, new)
  <2>1. /\ u \in Seq(Routes) /\ Len(u) = Len(q) + 1 /\ Len(q) \in Nat
        /\ DOMAIN q = 1..Len(q) /\ DOMAIN u = 1..(Len(q) + 1)
        /\ \A i \in 1..Len(q) : u[i] = q[i]
        /\ u[Len(q) + 1] = new
    BY <1>13, <1>14
  <2>2. /\ done[m] <= Len(q)
        /\ runs = 1 => done[m] = Len(q)
        /\ \A i \in 1..done[m] : q[Len(q) - done[m] + i].path = t[i].path
        /\ \A i \in DOMAIN q : /\ \E j \in DOMAIN t : q[i].path = t[j].path
                              /\ UnderRoot(q[i].blueprint)
    BY <1>1, <1>17 DEF InsertedFor, InsertedAs
  <2> HIDE DEF u
  <2>3. /\ router' \in [MethodSet -> Seq(Routes)] /\ router'[m] = u
        /\ \A k \in MethodSet : k # m => router'[k] = router[k]
        /\ done' \in [MethodSet -> Nat] /\ done'[m] = n
        /\ \A k \in MethodSet : k # m => done'[k] = done[k]
    BY <1>3, <1>4, <1>14, <1>19, <2>1 DEF Types, u
  <2>4. Types'
    BY <1>1, <1>3, <1>9, <1>19, <2>3 DEF Types
  <2>5. Inserted'
    <3>1. ASSUME NEW k \in MethodSet PROVE InsertedFor(k)'
      <4>1. CASE k # m
        <5>1. router'[k] = router[k] /\ done'[k] = done[k]
          BY <2>3, <4>1
        <5>2. InsertedFor(k)
          BY <1>17
        <5>3. QED
          BY <1>1, <1>19, <5>1, <5>2 DEF InsertedFor, UnderRoot
      <4>2. CASE k = m
        <5> HIDE DEF q, t
        <5>1. n <= Len(t) /\ n <= Len(u) /\ (runs = 1 => n = Len(u))
          BY <1>1, <1>4, <2>1, <2>2
        <5>2. u[Len(q) + 1].path = t[n].path /\ UnderRoot(u[Len(q) + 1].blueprint)
          BY <1>6, <1>13, <2>1 DEF node
        <5>3. ASSUME NEW i \in DOMAIN u
              PROVE  /\ \E j \in DOMAIN t : u[i].path = t[j].path
                     /\ UnderRoot(u[i].blueprint)
          <6>1. CASE i \in DOMAIN q
            BY <2>1, <2>2, <6>1
          <6>2. CASE i = Len(q) + 1
            BY <1>4, <5>2, <6>2
          <6>3. QED
            BY <2>1, <6>1, <6>2
        <5>4. ASSUME NEW i \in 1..n
              PROVE  u[Len(u) - n + i].path = t[i].path
          <6>1. CASE i = n
            <7>1. Len(u) - n + i = Len(q) + 1
              BY <1>4, <2>1, <6>1
            <7>2. QED
              BY <5>2, <6>1, <7>1
          <6>2. CASE i # n
            <7>1. PICK d \in Nat : d = done[m]
              BY <1>4, SMTT(30)
            <7>2. PICK l \in Nat : l = Len(q)
              BY <2>1
            <7>3. i \in 1..d /\ d <= l /\ Len(u) = l + 1 /\ n = d + 1
              BY <2>1, <2>2, <6>2, <7>1, <7>2
            <7>4. Len(u) - n + i = l - d + i /\ l - d + i \in 1..l
              BY <7>3
            <7>5. q[l - d + i].path = t[i].path /\ u[l - d + i] = q[l - d + i]
              BY <2>1, <2>2, <7>1, <7>2, <7>3, <7>4
            <7>6. QED
              BY <7>4, <7>5
          <6>3. QED
            BY <6>1, <6>2
        <5>5. router'[m] = u /\ done'[m] = n /\ methodsTree'[Root][m] = t
          BY <1>1, <2>3 DEF t
        <5>6. InsertedAs(t, u, n, "init", runs)
          BY <1>17, <5>1, <5>3, <5>4 DEF InsertedAs
        <5>7. InsertedAs(methodsTree[Root][m], router[m], done[m], pc, runs)'
          BY <1>1, <1>19, <5>5, <5>6
        <5>8. \A i \in DOMAIN router'[m] : UnderRoot(router[m][i].blueprint)'
          BY <1>1, <5>3, <5>5 DEF UnderRoot
        <5>9. QED
          BY <4>2, <5>7, <5>8 DEF InsertedFor
      <4>3. QED
        BY <4>1, <4>2
    <3>2. QED
      BY <1>1, <1>17, <3>1 DEF Inserted
  <2>6. ChainAsRegistered'
    <3> SUFFICES ASSUME ~spare, runs = 1, NEW k \in MethodSet, NEW i \in DOMAIN router'[k]
                 PROVE  router'[k][i].handles
                          = Content(a, middleware[Root]) \o router'[k][i].given
      BY <1>1 DEF ChainAsRegistered
    <3>1. Content(a, middleware[Root]) = Content(arrays, middleware[Root])
      BY <1>11
    <3>2. \A j \in MethodSet : \A l \in DOMAIN router[j] :
            router[j][l].handles
              = Content(arrays, middleware[Root]) \o router[j][l].given
      BY <1>1 DEF BluePrintsInv, ChainAsRegistered
    <3>3. CASE k # m
      BY <2>3, <3>1, <3>2, <3>3
    <3>4. CASE k = m /\ i \in DOMAIN q
      BY <2>1, <2>3, <3>1, <3>2, <3>4
    <3>5. CASE k = m /\ i = Len(q) + 1
      <4>1. router'[k][i] = new
        BY <2>1, <2>3, <3>5
      <4>2. new.handles = Content(arrays, middleware[Root]) \o new.given
        BY <1>6, <1>9, <1>13
      <4>3. QED
        BY <3>1, <4>1, <4>2
    <3>6. \A l \in DOMAIN u : l \in DOMAIN q \/ l = Len(q) + 1
      BY <2>1
    <3>7. k = m => i \in DOMAIN u
      BY <2>3
    <3>8. QED
      BY <3>3, <3>4, <3>5, <3>6, <3>7, Zenon
  <2>7. QED
    BY <1>15, <1>16, <2>4, <2>5, <2>6 DEF BluePrintsInv
<1>20. QED
  BY <1>2, <1>18, <1>19

-----------------------------------------------------------------------------
(* The theorems.                                                           *)

LEMMA BluePrintsStart == Init => BluePrintsInv
<1> SUFFICES ASSUME Init PROVE BluePrintsInv
  OBVIOUS
<1>0. Root \in BPs
  BY BluePrintsAssumption
<1>1. NilSlice \in Slices /\ NilSlice.arr = 0 /\ NilSlice.len = 0
  BY DEF NilSlice, Slices
<1>2. arrays \in Arrays
  BY DEF Init, Arrays
<1>3. Types
  <2>1. middleware \in [BPs -> Slices] /\ methodsTree \in Trees
    BY <1>1 DEF Init, Trees
  <2>2. /\ prefix \in [BPs -> Seq(Parts)] /\ parent \in [BPs -> BPs \cup {NoBP}]
        /\ router \in [MethodSet -> Seq(Routes)] /\ done \in [MethodSet -> Nat]
        /\ included \in [BPs -> Nat]
    BY DEF Init
  <2>3. own \in [BPs -> BOOLEAN] /\ own[Root]
    <3>1. own = [b \in BPs |-> b = Root]
      BY DEF Init
    <3>2. QED
      BY <1>0, <3>1, Zenon
  <2>4. /\ pc = "setup" /\ ops \in Nat /\ runs \in Nat /\ spare \in BOOLEAN
    BY DEF Init
  <2>5. QED
    BY <1>2, <2>1, <2>2, <2>3, <2>4 DEF Types
<1>4. \A b \in BPs : SliceOK(arrays, middleware[b]) /\ Full(arrays, middleware[b])
  BY <1>1 DEF Init, SliceOK, Full
<1>5. \A b \in BPs, m \in MethodSet : DOMAIN methodsTree[b][m] = {}
  BY DEF Init
<1>6. Held(arrays, methodsTree) /\ Kept(arrays, methodsTree)
  BY <1>4, <1>5 DEF Held, Kept
<1>7. WellMade(methodsTree) /\ Adopted(methodsTree)
  BY <1>0, <1>5 DEF WellMade, Adopted
<1>8. Inserted /\ ChainAsRegistered
  BY <1>0 DEF Init, Inserted, InsertedFor, InsertedAs, ChainAsRegistered
<1>9. QED
  BY <1>3, <1>6, <1>7, <1>8 DEF BluePrintsInv

LEMMA BluePrintsStep == BluePrintsInv /\ [Next]_vars => BluePrintsInv'
<1> SUFFICES ASSUME BluePrintsInv, [Next]_vars PROVE BluePrintsInv'
  OBVIOUS
<1>1. CASE \E b \in BPs : \E k \in Sizes : Use(b, k)
  BY <1>1, UseStep
<1>2. CASE \E b \in BPs : \E p \in Paths : SetPrefix(b, p)
  BY <1>2, PrefixStep
<1>3. CASE \E b \in BPs : SetComponent(b)
  BY <1>3, ComponentStep
<1>4. CASE \E b \in BPs : \E p \in Paths, m \in MethodSet \cup {ALLMethod} :
             Handle(b, m, p)
  BY <1>4, HandleStep
<1>5. CASE \E b \in BPs : \E p \in Paths, m \in MethodSet : RAW(b, m, p)
  BY <1>5, RawStep
<1>6. CASE \E b \in BPs : \E p \in Paths : ANY(b, p)
  BY <1>6, AnyStep
<1>7. CASE \E b \in BPs : \E url \in {"s", "s/"} : Static(b, url)
  BY <1>7, StaticStep
<1>8. CASE \E b \in BPs : \E branch \in BPs, p \in Paths : Include(b, branch, p)
  BY <1>8, IncludeStep
<1>9. CASE Bind
  BY <1>9, BindStep
<1>10. CASE \E k \in Sizes : AddInterceptors(k)
  BY <1>10, InterceptorStep
<1>11. CASE \E m \in MethodSet : InitInsert(m) \/ InitRefused(m)
  BY <1>11, InsertStep
<1>12. CASE \/ BindIllegal \/ ListenAndServe \/ RunStarters
            \/ StarterFails \/ StartersDone \/ UNCHANGED vars
  BY <1>12, ControlStep
<1>13. QED
  BY <1>1, <1>2, <1>3, <1>4, <1>5, <1>6, <1>7, <1>8, <1>9, <1>10, <1>11, <1>12,
     Zenon DEF Next

LEMMA BluePrintsHold == Spec => []BluePrintsInv
  BY BluePrintsStart, BluePrintsStep, PTL DEF Spec

\* A server that starts has every route of the engine's blueprint in its router,
\* in order: once if ListenAndServe was called once, and after routes of the
\* engine's blueprint an earlier call left there otherwise.
THEOREM RoutesAllInserted == Spec => []AllInserted
<1>1. ASSUME BluePrintsInv PROVE AllInserted
  <2> SUFFICES ASSUME pc = "serve", NEW m \in MethodSet
               PROVE  LET new == methodsTree[Root][m]
                          old == Len(router[m]) - Len(new)
                      IN  /\ old >= 0
                          /\ runs = 1 => old = 0
                          /\ \A i \in DOMAIN new : router[m][old + i].path = new[i].path
                          /\ \A i \in 1..old : \E j \in DOMAIN new :
                                router[m][i].path = new[j].path
    BY DEF AllInserted
  <2> DEFINE t == methodsTree[Root][m]
             q == router[m]
  <2>1. t \in Seq(Nodes) /\ q \in Seq(Routes)
    BY <1>1, BluePrintsAssumption DEF BluePrintsInv, Types, Trees
  <2>2. InsertedFor(m)
    BY <1>1 DEF BluePrintsInv, Inserted
  <2>3. /\ done[m] = Len(t) /\ Len(t) <= Len(q) /\ (runs = 1 => Len(t) = Len(q))
        /\ \A i \in 1..Len(t) : q[Len(q) - Len(t) + i].path = t[i].path
        /\ \A i \in DOMAIN q : \E j \in DOMAIN t : q[i].path = t[j].path
    BY <2>2 DEF InsertedFor, InsertedAs
  <2> HIDE DEF t, q
  <2>4. /\ Len(q) - Len(t) >= 0 /\ (runs = 1 => Len(q) - Len(t) = 0)
        /\ \A i \in 1..(Len(q) - Len(t)) : i \in DOMAIN q
        /\ DOMAIN t = 1..Len(t)
    BY <2>1, <2>3
  <2>5. QED
    BY <2>3, <2>4 DEF t, q
<1>2. BluePrintsInv => AllInserted
  BY <1>1
<1>3. QED
  BY <1>2, BluePrintsHold, PTL

\* As long as no slice of middleware has spare capacity, append never writes
\* into an array another slice shares, and every route runs the engine's
\* middleware and what it was registered with.
THEOREM ChainsAsRegistered == Spec => []ChainAsRegistered
<1>1. BluePrintsInv => ChainAsRegistered
  BY DEF BluePrintsInv
<1>2. QED
  BY <1>1, BluePrintsHold, PTL

\* The parents of c, one after the other.
Climb(f, c) ==
    f = [k \in Nat |-> IF k = 0 THEN c
                       ELSE IF f[k - 1] = NoBP \/ own[f[k - 1]] THEN f[k - 1]
                       ELSE parent[f[k - 1]]]

\* The engine's blueprint and its children find their components.
LEMMA ComponentFound ==
    ASSUME Types, NEW c \in BPs, UnderRoot(c), included[c] <= 1
    PROVE  Component(c) # NoBP
<1> DEFINE up == CHOOSE f : Climb(f, c)
           g  == [k \in Nat |-> IF k = 0 \/ own[c] THEN c ELSE Root]
           n  == Cardinality(BPs)
<1>1. Component(c) = IF up[n] # NoBP /\ own[up[n]] THEN up[n] ELSE NoBP
  BY Zenon DEF Component, Climb
<1>2. /\ Root \in BPs /\ NoBP \notin BPs /\ own[Root] /\ own[c] \in BOOLEAN
      /\ c # Root => parent[c] = Root
  BY BluePrintsAssumption DEF Types, UnderRoot
<1>3. n \in Nat /\ n # 0
  BY <1>2, BluePrintsAssumption, FS_CardinalityType, FS_EmptySet
<1> HIDE DEF n
<1>4. Climb(g, c)
  <2> DEFINE h == [k \in Nat |-> IF k = 0 THEN c
                       ELSE IF g[k - 1] = NoBP \/ own[g[k - 1]] THEN g[k - 1]
                       ELSE parent[g[k - 1]]]
  <2>1. ASSUME NEW k \in Nat PROVE g[k] = h[k]
    <3>1. CASE k = 0
      BY <3>1
    <3>2. CASE k # 0
      <4>1. k - 1 \in Nat
        BY <3>2
      <4>2. g[k] = (IF own[c] THEN c ELSE Root)
        BY <3>2
      <4>3. g[k - 1] = (IF k - 1 = 0 \/ own[c] THEN c ELSE Root)
        BY <4>1
      <4>4. h[k] = IF g[k - 1] = NoBP \/ own[g[k - 1]] THEN g[k - 1]
                   ELSE parent[g[k - 1]]
        BY <3>2
      <4> HIDE DEF g, h
      <4>5. QED
        BY <1>2, <4>2, <4>3, <4>4
    <3>3. QED
      BY <3>1, <3>2
  <2>2. g = h
    BY <2>1
  <2>3. QED
    BY <2>2 DEF Climb
<1>5. Climb(up, c)
  <2> HIDE DEF g
  <2>1. QED
    BY <1>4, Zenon DEF up
<1> HIDE DEF up
<1>6. /\ \A k \in Nat : g[k] = IF k = 0 \/ own[c] THEN c ELSE Root
      /\ g[0] = c
  OBVIOUS
<1>7. /\ up[0] = c
      /\ \A k \in Nat : k # 0 =>
            up[k] = IF up[k - 1] = NoBP \/ own[up[k - 1]] THEN up[k - 1]
                    ELSE parent[up[k - 1]]
  BY <1>5 DEF Climb
<1>8. \A k \in Nat : k # 0 =>
            g[k] = IF g[k - 1] = NoBP \/ own[g[k - 1]] THEN g[k - 1]
                   ELSE parent[g[k - 1]]
  <2> HIDE DEF g
  <2>1. QED
    BY <1>4 DEF Climb
<1> HIDE DEF g
<1> DEFINE S == {k \in 0..n : up[k] = g[k]}
<1>9. 0 \in S
  BY <1>3, <1>6, <1>7
<1>10. ASSUME NEW k \in 1..n, k - 1 \in S PROVE k \in S
  <2>1. k \in Nat /\ k # 0 /\ k \in 0..n /\ up[k - 1] = g[k - 1]
    BY <1>3, <1>10
  <2>2. up[k] = g[k]
    BY <1>7, <1>8, <2>1
  <2>3. QED
    BY <2>1, <2>2
<1>11. up[n] = g[n]
  <2> HIDE DEF S
  <2>1. n \in S
    <3>1. n \in 0..n
      BY <1>3
    <3>2. QED
      BY <1>3, <1>9, <1>10, <3>1, UpTo
  <2>2. QED
    BY <2>1 DEF S
<1>12. g[n] = IF own[c] THEN c ELSE Root
  BY <1>3, <1>6
<1>13. QED
  BY <1>1, <1>2, <1>11, <1>12

\* When no blueprint was included twice, every route in the router finds its
\* logger, parsers, validator and serializers.
THEOREM ToolboxIsFound == Spec => []ToolboxFound
<1>1. ASSUME BluePrintsInv PROVE ToolboxFound
  <2> SUFFICES ASSUME \A b \in BPs : included[b] <= 1,
                      NEW m \in MethodSet, NEW i \in DOMAIN router[m]
               PROVE  Component(router[m][i].blueprint) # NoBP
    BY DEF ToolboxFound
  <2> DEFINE c == router[m][i].blueprint
  <2>1. router[m] \in Seq(Routes)
    BY <1>1 DEF BluePrintsInv, Types
  <2>2. router[m][i] \in Routes
    BY <2>1
  <2>3. c \in BPs
    BY <2>2 DEF Routes
  <2>4. UnderRoot(c) /\ Types
    BY <1>1 DEF BluePrintsInv, Inserted, InsertedFor
  <2> HIDE DEF c
  <2>5. Component(c) # NoBP
    BY <2>3, <2>4, ComponentFound
  <2>6. QED
    BY <2>5 DEF c
<1>2. BluePrintsInv => ToolboxFound
  BY <1>1
<1>3. QED
  BY <1>2, BluePrintsHold, PTL

-----------------------------------------------------------------------------
(* Middleware in arrays that are shared.                                   *)

\* No two blueprints append into one array.
Apart ==
    \A b, c \in BPs :
        b # c /\ middleware[b].arr # 0 => middleware[b].arr # middleware[c].arr

\* The handlers of node z begin with its middleware, whatever comes after it.
Begins(a, z) ==
    /\ z.mw <= z.handles.len /\ Len(z.given) = z.handles.len
    /\ \A k \in 1..z.mw : a[z.handles.arr][k] = z.given[k]

\* A blueprint that appends into the array of z does so behind the middleware.
Behind(mw, z) ==
    \A b \in BPs : mw[b].arr = z.handles.arr => z.mw <= mw[b].len

Shared(a, mw, z) == Begins(a, z) /\ Behind(mw, z)

AllShared(a, mw, tree) ==
    \A b \in BPs, m \in MethodSet : \A i \in DOMAIN tree[b][m] :
        Shared(a, mw, tree[b][m][i])

ShareInv ==
    Apart /\ AllShared(arrays, middleware, methodsTree) /\ MiddlewareKept

\* append writes behind its slice, in the array of the slice or in a new one.
LEMMA AppendWrites ==
    ASSUME NEW a \in Arrays, NEW s \in Slices, SliceOK(a, s), NEW xs \in Seq(Nat)
    PROVE  LET app == AppendSlice(a, s, xs)
           IN  /\ app.slice.arr = s.arr \/ app.slice.arr \notin DOMAIN a
               /\ \A n \in DOMAIN a : n # s.arr => app.arrays[n] = a[n]
               /\ \A k \in 1..s.len : app.arrays[s.arr][k] = a[s.arr][k]
<1> DEFINE app == AppendSlice(a, s, xs)
           len == s.len + Len(xs)
           all == Content(a, s) \o xs
<1>0. /\ s.arr \in Nat /\ s.len \in Nat /\ Len(a) \in Nat /\ DOMAIN a = 1..Len(a)
  BY DEF Slices, Arrays
<1>1. CASE len <= Cap(a, s)
  <2>1. /\ app.arrays = [a EXCEPT ![s.arr] = all \o SubSeq(@, len + 1, Len(@))]
        /\ app.slice.arr = s.arr
    BY <1>1 DEF AppendSlice
  <2>2. \A n \in DOMAIN a : n # s.arr => app.arrays[n] = a[n]
    BY <2>1
  <2>3. Appended(a, s, xs, app)
    BY AppendFacts
  <2> HIDE DEF app
  <2>4. /\ app.arrays \in Arrays /\ app.slice \in Slices
        /\ SliceOK(app.arrays, app.slice) /\ app.slice.len = s.len + Len(xs)
        /\ Content(app.arrays, app.slice) = Content(a, s) \o xs
    BY <2>3 DEF Appended
  <2>5. \A k \in 1..app.slice.len :
           Content(app.arrays, app.slice)[k] = app.arrays[s.arr][k]
    <3>1. \A d \in Arrays, z \in Slices : SliceOK(d, z) =>
             \A k \in 1..z.len : Content(d, z)[k] = d[z.arr][k]
      BY ContentFacts
    <3>2. \A k \in 1..app.slice.len :
             Content(app.arrays, app.slice)[k] = app.arrays[app.slice.arr][k]
      BY <2>4, <3>1
    <3>3. QED
      BY <2>1, <3>2
  <2>6. /\ Content(a, s) \in Seq(Nat) /\ Len(Content(a, s)) = s.len
        /\ \A k \in 1..s.len : Content(a, s)[k] = a[s.arr][k]
    BY ContentFacts
  <2>7. \A k \in 1..s.len : (Content(a, s) \o xs)[k] = Content(a, s)[k]
    BY <1>0, <2>6, ConcatProperties
  <2>8. \A k \in 1..s.len : k \in 1..app.slice.len
    BY <1>0, <2>4
  <2>9. \A k \in 1..s.len : app.arrays[s.arr][k] = a[s.arr][k]
    BY <2>4, <2>5, <2>6, <2>7, <2>8
  <2>10. QED
    BY <2>1, <2>2, <2>9 DEF app
<1>2. CASE ~(len <= Cap(a, s))
  <2> DEFINE u == [i \in 1..GrowCap(Cap(a, s), len) |->
                      IF i <= len THEN all[i] ELSE 0]
  <2>1. app.arrays = Append(a, u) /\ app.slice.arr = Len(a) + 1
    BY <1>2 DEF AppendSlice
  <2> HIDE DEF u, app
  <2>2. app.slice.arr \notin DOMAIN a
    BY <1>0, <2>1
  <2>3. \A n \in DOMAIN a : app.arrays[n] = a[n]
    BY <1>0, <2>1
  <2>4. \A k \in 1..s.len : s.arr \in DOMAIN a
    BY <1>0 DEF SliceOK
  <2>5. QED
    BY <2>2, <2>3, <2>4 DEF app
<1>3. QED
  BY <1>1, <1>2

\* In new the slices of middleware read what they read in a, and the routes
\* that began with their middleware do.
Undisturbed(a, new) ==
    /\ \A c \in BPs : Content(new, middleware[c]) = Content(a, middleware[c])
    /\ \A z \in Nodes : SliceOK(a, z.handles) /\ Shared(a, middleware, z)
                         => Shared(new, middleware, z)

\* append to the middleware of b disturbs neither.
LEMMA AppendShares ==
    ASSUME Types, Apart, NEW a \in Arrays, NEW b \in BPs, NEW xs \in Seq(Nat),
           \A c \in BPs : SliceOK(a, middleware[c])
    PROVE  Undisturbed(a, AppendSlice(a, middleware[b], xs).arrays)
<1> DEFINE new == AppendSlice(a, middleware[b], xs).arrays
           s   == middleware[b]
<1>0. s \in Slices /\ \A c \in BPs : middleware[c] \in Slices
  BY DEF Types
<1>1. /\ \A n \in DOMAIN a : n # s.arr => new[n] = a[n]
      /\ \A k \in 1..s.len : new[s.arr][k] = a[s.arr][k]
  BY <1>0, AppendWrites
<1>2. new \in Arrays /\ Longer(a, new)
  BY <1>0, AppendFacts DEF Appended
<1> HIDE DEF new
<1>3. ASSUME NEW c \in BPs PROVE Content(new, middleware[c]) = Content(a, middleware[c])
  <2> DEFINE t == middleware[c]
  <2>1. t \in Slices /\ SliceOK(a, t) /\ SliceOK(new, t)
    BY <1>0, <1>2, LongerKeeps
  <2>2. \A k \in 1..t.len : new[t.arr][k] = a[t.arr][k]
    <3>1. CASE t.arr = s.arr
      <4>1. t.arr = 0 \/ c = b
        BY <3>1 DEF Apart
      <4>2. CASE t.arr = 0
        <5>1. 0 \notin DOMAIN a
          BY DEF Arrays
        <5>2. t.len = 0
          BY <2>1, <4>2, <5>1 DEF SliceOK
        <5>3. QED
          BY <5>2
      <4>3. QED
        BY <1>1, <4>1, <4>2
    <3>2. CASE t.arr # s.arr
      <4>1. \A k \in 1..t.len : t.arr \in DOMAIN a
        BY <2>1 DEF SliceOK
      <4>2. QED
        BY <1>1, <3>2, <4>1
    <3>3. QED
      BY <3>1, <3>2
  <2> HIDE DEF t
  <2>3. /\ Content(a, t) \in Seq(Nat) /\ Len(Content(a, t)) = t.len
        /\ \A k \in 1..t.len : Content(a, t)[k] = a[t.arr][k]
    BY <2>1, ContentFacts
  <2>4. /\ Content(new, t) \in Seq(Nat) /\ Len(Content(new, t)) = t.len
        /\ \A k \in 1..t.len : Content(new, t)[k] = new[t.arr][k]
    BY <1>2, <2>1, ContentFacts
  <2>5. QED
    BY <2>2, <2>3, <2>4, SeqEqual DEF t
<1>4. ASSUME NEW z \in Nodes, SliceOK(a, z.handles), Shared(a, middleware, z)
      PROVE  Shared(new, middleware, z)
  <2>1. /\ z.mw \in Nat /\ z.handles.len \in Nat /\ z.mw <= z.handles.len
        /\ s.len \in Nat
        /\ s.arr = z.handles.arr => z.mw <= s.len
    BY <1>0, <1>4 DEF Nodes, Slices, Shared, Begins, Behind
  <2>2. \A k \in 1..z.mw : new[z.handles.arr][k] = a[z.handles.arr][k]
    <3>1. CASE s.arr = z.handles.arr
      <4>1. \A k \in 1..z.mw : k \in 1..s.len
        BY <2>1, <3>1
      <4>2. QED
        BY <1>1, <3>1, <4>1
    <3>2. CASE s.arr # z.handles.arr
      <4>1. \A k \in 1..z.mw : z.handles.arr \in DOMAIN a
        BY <1>4, <2>1 DEF SliceOK
      <4>2. QED
        BY <1>1, <3>2, <4>1
    <3>3. QED
      BY <3>1, <3>2
  <2>3. QED
    BY <1>4, <2>2 DEF Shared, Begins
<1>5. QED
  BY <1>3, <1>4 DEF new, Undisturbed

\* The arrays and trees of set-up calls in which every route begins with its
\* middleware.
SharedStates == {x \in States : AllShared(x.arrays, middleware, x.tree)}

LEMMA HandleShares ==
    ASSUME Types, Apart, NEW x \in SharedStates, NEW b \in BPs, NEW method,
           NEW path \in Seq(Parts),
           NEW hs \in Seq(Nat), hs # <<>>
    PROVE  HandleOn(x, b, method, path, hs) \in SharedStates
<1> DEFINE s    == middleware[b]
           app  == AppendSlice(x.arrays, s, hs)
           a    == app.arrays
           node == [path |-> prefix[b] \o path, handles |-> app.slice,
                    blueprint |-> b, mw |-> s.len,
                    given |-> Content(x.arrays, s) \o hs]
           tree == register(x.tree, b, method, node)
           y    == [arrays |-> a, tree |-> tree]
<1>1. HandleOn(x, b, method, path, hs) = y
  BY DEF HandleOn
<1>2. HandleOn(x, b, method, path, hs) \in States
  BY HandleGood DEF SharedStates
<1>3. /\ x.arrays \in Arrays /\ x.tree \in Trees
      /\ AllShared(x.arrays, middleware, x.tree) /\ Held(x.arrays, x.tree)
  BY DEF SharedStates, States, Good
<1>4. /\ s \in Slices /\ prefix[b] \in Seq(Parts)
      /\ \A c \in BPs : middleware[c] \in Slices /\ SliceOK(x.arrays, middleware[c])
  BY <1>3 DEF Types, Held
<1>5. /\ s.len \in Nat /\ Len(hs) \in Nat /\ 0 \notin DOMAIN x.arrays
      /\ Content(x.arrays, s) \in Seq(Nat) /\ Len(Content(x.arrays, s)) = s.len
  BY <1>3, <1>4, ContentFacts DEF Slices, Arrays
<1>6. Appended(x.arrays, s, hs, app)
  BY <1>3, <1>4, AppendFacts
<1>7. app.slice.arr = s.arr \/ app.slice.arr \notin DOMAIN x.arrays
  BY <1>3, <1>4, AppendWrites
<1>8. Undisturbed(x.arrays, a)
  BY <1>3, <1>4, AppendShares
<1> HIDE DEF app
<1>9. /\ a \in Arrays /\ app.slice \in Slices /\ SliceOK(a, app.slice)
      /\ app.slice.len = s.len + Len(hs)
      /\ Content(a, app.slice) = Content(x.arrays, s) \o hs
  BY <1>6 DEF Appended
<1>10. /\ \A k \in 1..app.slice.len :
             Content(a, app.slice)[k] = a[app.slice.arr][k]
       /\ Len(Content(a, app.slice)) = app.slice.len
       /\ Content(a, app.slice) \in Seq(Nat)
  BY <1>9, ContentFacts
<1> HIDE DEF a
<1>11. /\ node \in Nodes /\ node.handles = app.slice /\ node.mw = s.len
       /\ node.given = Content(a, app.slice)
  <2>1. prefix[b] \o path \in Seq(Parts)
    BY <1>4
  <2>2. QED
    BY <1>5, <1>9, <1>10, <2>1 DEF Nodes
<1> HIDE DEF node
<1>12. tree \in Trees /\ OldOr(x.tree, tree, b, node)
  BY <1>3, <1>11, RegisterFacts
<1> HIDE DEF tree
<1>13. Shared(a, middleware, node)
  <2>1. s.len <= app.slice.len /\ \A k \in 1..s.len : k \in 1..app.slice.len
    BY <1>5, <1>9
  <2>2. Begins(a, node)
    BY <1>10, <1>11, <2>1 DEF Begins
  <2>3. ASSUME NEW c \in BPs, middleware[c].arr = app.slice.arr
        PROVE  s.len <= middleware[c].len
    <3>0. middleware[c].len \in Nat
      BY <1>4 DEF Slices
    <3>1. CASE app.slice.arr = 0
      <4>1. 0 \notin DOMAIN a
        BY <1>9 DEF Arrays
      <4>2. app.slice.len = 0
        BY <1>9, <3>1, <4>1 DEF SliceOK
      <4>3. QED
        BY <1>5, <2>1, <3>0, <4>2
    <3>2. CASE app.slice.arr # 0 /\ app.slice.arr = s.arr
      <4>1. c = b
        BY <2>3, <3>2 DEF Apart
      <4>2. QED
        BY <1>5, <4>1
    <3>3. CASE app.slice.arr # 0 /\ app.slice.arr \notin DOMAIN x.arrays
      BY <1>4, <2>3, <3>3 DEF SliceOK
    <3>4. QED
      BY <1>7, <3>1, <3>2, <3>3
  <2>4. QED
    BY <1>11, <2>2, <2>3 DEF Shared, Behind
<1>14. ASSUME NEW c \in BPs, NEW m \in MethodSet, NEW i \in DOMAIN tree[c][m]
       PROVE  Shared(a, middleware, tree[c][m][i])
  <2>1. CASE i \in DOMAIN x.tree[c][m] /\ tree[c][m][i] = x.tree[c][m][i]
    <3>1. x.tree[c][m] \in Seq(Nodes)
      BY <1>3 DEF Trees
    <3>2. x.tree[c][m][i] \in Nodes
      BY <2>1, <3>1
    <3>3. /\ SliceOK(x.arrays, x.tree[c][m][i].handles)
          /\ Shared(x.arrays, middleware, x.tree[c][m][i])
      BY <1>3, <2>1 DEF Held, AllShared
    <3>4. QED
      BY <1>8, <2>1, <3>2, <3>3 DEF Undisturbed
  <2>2. CASE tree[c][m][i] = node
    BY <1>13, <2>2
  <2>3. QED
    BY <1>12, <2>1, <2>2 DEF OldOr
<1>15. AllShared(a, middleware, tree)
  BY <1>14 DEF AllShared
<1>16. y.arrays = a /\ y.tree = tree
  OBVIOUS
<1> HIDE DEF y
<1>17. QED
  BY <1>1, <1>2, <1>15, <1>16 DEF SharedStates

LEMMA NowShared == ASSUME BluePrintsInv, ShareInv PROVE Now \in SharedStates
<1>1. Now \in States /\ Now.arrays = arrays /\ Now.tree = methodsTree
  BY NowGood DEF Now
<1>2. QED
  BY <1>1 DEF SharedStates, ShareInv

LEMMA RoutedShares ==
    ASSUME ShareInv, SetUp, NEW x \in SharedStates, Routed(x)
    PROVE  ShareInv'
<1>1. /\ arrays' = x.arrays /\ methodsTree' = x.tree /\ middleware' = middleware
      /\ pc' = "setup" /\ AllShared(x.arrays, middleware, x.tree)
  BY DEF Routed, SetUp, engine, SharedStates
<1>2. Apart' /\ MiddlewareKept'
  BY <1>1 DEF ShareInv, Apart, MiddlewareKept
<1>3. AllShared(arrays, middleware, methodsTree)'
  BY <1>1 DEF AllShared, Shared, Begins, Behind
<1>4. QED
  BY <1>2, <1>3 DEF ShareInv

\* Handle, RAW, ANY and Static add routes.
LEMMA RoutesShare ==
    ASSUME BluePrintsInv, ShareInv, NEW b \in BPs,
           \/ \E p \in Paths, m \in MethodSet \cup {ALLMethod} : Handle(b, m, p)
           \/ \E p \in Paths, m \in MethodSet : RAW(b, m, p)
           \/ \E p \in Paths : ANY(b, p)
           \/ \E url \in {"s", "s/"} : Static(b, url)
    PROVE  ShareInv'
<1>1. 1 \in 1..3 /\ 2 \in 1..3 /\ Types /\ Apart
  BY DEF BluePrintsInv, ShareInv
<1>2. Fresh(1) \in Seq(Nat) /\ Fresh(1) # <<>>
  BY <1>1, FreshFacts
<1>3. ASSUME NEW p \in Paths, NEW m, Handle(b, m, p) PROVE ShareInv'
  <2>1. HandleOn(Now, b, m, <<p>>, Fresh(1)) \in SharedStates
    BY <1>1, <1>2, NowShared, OnePart, HandleShares
  <2>2. QED
    BY <1>3, <2>1, RoutedShares DEF Handle
<1>4. ASSUME NEW p \in Paths, NEW m, RAW(b, m, p) PROVE ShareInv'
  <2> DEFINE rs == RawHandlerFuncGroup(Fresh(2))
  <2>1. rs \in Seq(Nat) /\ rs # <<>>
    BY RawHandlers
  <2> HIDE DEF rs
  <2>2. HandleOn(Now, b, m, <<p>>, rs) \in SharedStates
    BY <1>1, <2>1, NowShared, OnePart, HandleShares
  <2>3. QED
    BY <1>4, <2>2, RoutedShares DEF RAW, rs
<1>5. ASSUME NEW p \in Paths, ANY(b, p) PROVE ShareInv'
  <2>1. \A x \in SharedStates : \A k \in 1..Len(Methods) :
           HandleOn(x, b, Methods[k], <<p>>, Fresh(1)) \in SharedStates
    BY <1>1, <1>2, OnePart, HandleShares
  <2>2. AnyState(b, p) \in SharedStates
    BY <2>1, NowShared, AnyInside
  <2>3. SetUp /\ Routed(AnyState(b, p))
    BY <1>5, Zenon DEF ANY, AnyState
  <2>4. QED
    BY <2>2, <2>3, RoutedShares
<1>6. ASSUME NEW url \in {"s", "s/"}, Static(b, url) PROVE ShareInv'
  <2>1. HandleOn(Now, b, "GET", <<url, "*static">>, Fresh(1)) \in SharedStates
    BY <1>1, <1>2, NowShared, StaticPart, HandleShares
  <2>2. QED
    BY <1>6, <2>1, RoutedShares DEF Static
<1>7. QED
  BY <1>3, <1>4, <1>5, <1>6

\* Use moves the slice of b, at most to a new array.
LEMMA UseShares ==
    ASSUME BluePrintsInv, ShareInv, NEW b \in BPs, NEW k \in Sizes, Use(b, k)
    PROVE  ShareInv'
<1> DEFINE s   == middleware[b]
           app == AppendSlice(arrays, s, Fresh(k))
           a   == app.arrays
           mw  == [middleware EXCEPT ![b] = app.slice]
<1>1. /\ arrays' = a /\ middleware' = mw /\ methodsTree' = methodsTree
      /\ pc' = "setup"
  BY DEF Use, SetUp, engine
<1>2. /\ Types /\ Held(arrays, methodsTree) /\ arrays \in Arrays
      /\ Apart /\ AllShared(arrays, middleware, methodsTree)
  BY DEF BluePrintsInv, Types, ShareInv
<1>3. \A c \in BPs : middleware[c] \in Slices /\ SliceOK(arrays, middleware[c])
  BY <1>2 DEF Types, Held
<1>4. Fresh(k) \in Seq(Nat) /\ Len(Fresh(k)) \in Nat
  BY FreshFacts, BluePrintsAssumption
<1>5. Appended(arrays, s, Fresh(k), app)
  BY <1>2, <1>3, <1>4, AppendFacts
<1>6. app.slice.arr = s.arr \/ app.slice.arr \notin DOMAIN arrays
  BY <1>2, <1>3, <1>4, AppendWrites
<1>7. Undisturbed(arrays, a)
  BY <1>2, <1>3, <1>4, AppendShares
<1> HIDE DEF app
<1>8. /\ app.slice \in Slices /\ s.len \in Nat /\ app.slice.len \in Nat
      /\ s.len <= app.slice.len
  BY <1>3, <1>4, <1>5 DEF Appended, Slices
<1> HIDE DEF a
<1>9. \A c \in BPs : mw[c] = IF c = b THEN app.slice ELSE middleware[c]
  BY <1>2 DEF Types
<1> HIDE DEF mw
<1>10. ASSUME NEW c \in BPs, NEW d \in BPs, c # d, mw[c].arr # 0
       PROVE  mw[c].arr # mw[d].arr
  <2>1. \A e \in BPs : middleware[e].arr # 0 => middleware[e].arr \in DOMAIN arrays
    BY <1>3 DEF SliceOK
  <2>2. \A e \in BPs : e # b /\ middleware[e].arr # 0 => middleware[e].arr # app.slice.arr
    BY <1>2, <1>6, <2>1 DEF Apart
  <2>3. CASE c = b
    BY <1>9, <1>10, <2>2, <2>3
  <2>4. CASE d = b
    BY <1>9, <1>10, <2>2, <2>4
  <2>5. CASE c # b /\ d # b
    BY <1>2, <1>9, <1>10, <2>5 DEF Apart
  <2>6. QED
    BY <2>3, <2>4, <2>5
<1>11. ASSUME NEW c \in BPs, NEW m \in MethodSet, NEW i \in DOMAIN methodsTree[c][m]
       PROVE  Shared(a, mw, methodsTree[c][m][i])
  <2>1. PICK z \in Nodes : z = methodsTree[c][m][i]
    <3>1. methodsTree[c][m] \in Seq(Nodes)
      BY <1>2 DEF Types, Trees
    <3>2. QED
      BY <3>1
  <2>2. /\ SliceOK(arrays, z.handles) /\ Shared(arrays, middleware, z)
        /\ Shared(a, middleware, z)
    <3>1. SliceOK(arrays, z.handles) /\ Shared(arrays, middleware, z)
      BY <1>2, <2>1 DEF Held, AllShared
    <3>2. QED
      BY <1>7, <3>1 DEF Undisturbed
  <2>3. z.mw \in Nat /\ z.handles.len \in Nat /\ z.mw <= z.handles.len
    BY <2>2 DEF Nodes, Slices, Shared, Begins
  <2>4. ASSUME NEW e \in BPs, mw[e].arr = z.handles.arr
        PROVE  z.mw <= mw[e].len
    <3>1. CASE e # b
      BY <1>9, <2>2, <2>4, <3>1 DEF Shared, Behind
    <3>2. CASE e = b /\ app.slice.arr = s.arr
      <4>1. z.mw <= s.len
        BY <1>9, <2>2, <2>4, <3>2 DEF Shared, Behind
      <4>2. QED
        BY <1>8, <1>9, <2>3, <3>2, <4>1
    <3>3. CASE e = b /\ app.slice.arr \notin DOMAIN arrays
      <4>1. z.handles.len = 0
        BY <1>9, <2>2, <2>4, <3>3 DEF SliceOK
      <4>2. QED
        BY <1>8, <1>9, <2>3, <3>3, <4>1
    <3>4. QED
      BY <1>6, <3>1, <3>2, <3>3
  <2>5. Shared(a, mw, z)
    BY <2>2, <2>4 DEF Shared, Behind
  <2>6. QED
    BY <2>1, <2>5
<1>12. Apart'
  BY <1>1, <1>10 DEF Apart
<1>13. AllShared(arrays, middleware, methodsTree)'
  BY <1>1, <1>11 DEF AllShared, Shared, Begins, Behind
<1>14. MiddlewareKept'
  BY <1>1 DEF MiddlewareKept
<1>15. QED
  BY <1>12, <1>13, <1>14 DEF ShareInv

\* Include copies the slices of the branch's routes.
LEMMA IncludeShares ==
    ASSUME BluePrintsInv, ShareInv, NEW b \in BPs, NEW branch \in BPs,
           NEW p \in Paths, Include(b, branch, p)
    PROVE  ShareInv'
<1>1. /\ arrays' = arrays /\ middleware' = middleware /\ pc' = "setup"
  BY DEF Include, SetUp, engine
<1>2. Types /\ WellMade(methodsTree) /\ AllShared(arrays, middleware, methodsTree)
  BY DEF BluePrintsInv, ShareInv
<1>3. ASSUME NEW c \in BPs, NEW m \in MethodSet, NEW i \in DOMAIN methodsTree'[c][m]
      PROVE  Shared(arrays, middleware, methodsTree'[c][m][i])
  <2>1. CASE /\ i \in DOMAIN methodsTree[c][m]
             /\ methodsTree'[c][m][i] = methodsTree[c][m][i]
    BY <1>2, <2>1 DEF AllShared
  <2>2. CASE \E j \in DOMAIN methodsTree[branch][m] :
                CopyOf(methodsTree'[c][m][i], methodsTree[branch][m][j], branch, p)
    <3>1. PICK j \in DOMAIN methodsTree[branch][m] :
             CopyOf(methodsTree'[c][m][i], methodsTree[branch][m][j], branch, p)
      BY <2>2
    <3>2. Shared(arrays, middleware, methodsTree[branch][m][j])
      BY <1>2 DEF AllShared
    <3>3. QED
      BY <3>1, <3>2 DEF CopyOf, Shared, Begins, Behind
  <2>3. QED
    BY <1>2, <2>1, <2>2, IncludedTree
<1>4. AllShared(arrays, middleware, methodsTree)'
  BY <1>1, <1>3 DEF AllShared, Shared, Begins, Behind
<1>5. Apart' /\ MiddlewareKept'
  BY <1>1 DEF ShareInv, Apart, MiddlewareKept
<1>6. QED
  BY <1>4, <1>5 DEF ShareInv

\* Steps that leave arrays, slices and routes as they are.
LEMMA FrameShares ==
    ASSUME ShareInv, Frame, MiddlewareKept'
    PROVE  ShareInv'
<1>1. Apart'
  BY DEF ShareInv, Apart, Frame
<1>2. AllShared(arrays, middleware, methodsTree)'
  BY DEF ShareInv, AllShared, Shared, Begins, Behind, Frame
<1>3. QED
  BY <1>1, <1>2 DEF ShareInv

LEMMA QuietShares ==
    ASSUME BluePrintsInv, ShareInv,
           \/ \E b \in BPs, p \in Paths : SetPrefix(b, p)
           \/ \E b \in BPs : SetComponent(b)
           \/ \E k \in Sizes : AddInterceptors(k)
           \/ Bind \/ BindIllegal \/ ListenAndServe \/ RunStarters
           \/ StarterFails \/ StartersDone \/ UNCHANGED vars
    PROVE  ShareInv'
<1>1. Frame /\ router' = router
  BY DEF SetPrefix, SetComponent, AddInterceptors, Bind, BindIllegal,
         ListenAndServe, RunStarters, StarterFails, StartersDone, SetUp,
         vars, engine, bps, Frame
<1>2. CASE ListenAndServe
  <2>1. /\ pc = "setup" /\ runs' = runs + 1 /\ runs \in Nat
    BY <1>2 DEF ListenAndServe, BluePrintsInv, Types
  <2>2. runs' = 1 => \A m \in MethodSet : router[m] = <<>>
    BY <2>1 DEF BluePrintsInv, Inserted, InsertedFor, InsertedAs
  <2>3. MiddlewareKept'
    BY <1>1, <2>2 DEF MiddlewareKept
  <2>4. QED
    BY <1>1, <2>3, FrameShares
<1>3. CASE ~ListenAndServe
  <2>1. /\ runs' = runs
        /\ pc' \in {"init", "start", "serve"} => pc \in {"init", "start", "serve"}
    BY <1>3 DEF SetPrefix, SetComponent, AddInterceptors, Bind, BindIllegal,
                RunStarters, StarterFails, StartersDone, SetUp, vars, engine
  <2>2. MiddlewareKept'
    BY <1>1, <2>1 DEF ShareInv, MiddlewareKept, Frame
  <2>3. QED
    BY <1>1, <2>2, FrameShares
<1>4. QED
  BY <1>2, <1>3

\* Two sequences that begin alike still do behind a common one.
LEMMA PrefixBehind ==
    ASSUME NEW s \in Seq(Nat), NEW t \in Seq(Nat), NEW u \in Seq(Nat),
           NEW n \in Nat, n <= Len(t), n <= Len(u),
           \A k \in 1..n : t[k] = u[k]
    PROVE  IsPrefix(s \o SubSeq(t, 1, n), s \o u)
<1> DEFINE v == SubSeq(t, 1, n)
           x == s \o v
           y == s \o u
           l == Len(s) + n
<1>1. v \in Seq(Nat) /\ Len(v) = n /\ \A k \in 1..n : v[k] = t[k]
  <2>1. \A k \in 1..n : t[k] \in Nat
    OBVIOUS
  <2>2. /\ v \in Seq(Nat)
        /\ Len(v) = IF 1 <= n THEN n - 1 + 1 ELSE 0
        /\ \A k \in 1..(n - 1 + 1) : v[k] = t[1 + k - 1]
    BY <2>1, SubSeqProperties
  <2> HIDE DEF v
  <2>3. n - 1 + 1 = n /\ \A k \in 1..n : 1 + k - 1 = k
    OBVIOUS
  <2>4. QED
    BY <2>2, <2>3
<1> HIDE DEF v
<1>2. /\ x \in Seq(Nat) /\ Len(x) = l
      /\ \A k \in 1..l : x[k] = IF k <= Len(s) THEN s[k] ELSE v[k - Len(s)]
  BY <1>1, ConcatProperties
<1>3. /\ y \in Seq(Nat) /\ Len(y) = Len(s) + Len(u)
      /\ \A k \in 1..(Len(s) + Len(u)) :
            y[k] = IF k <= Len(s) THEN s[k] ELSE u[k - Len(s)]
  BY ConcatProperties
<1> HIDE DEF x, y
<1>4. \A k \in 1..l : x[k] = y[k]
  <2> SUFFICES ASSUME NEW k \in 1..l PROVE x[k] = y[k]
    OBVIOUS
  <2>1. k \in 1..(Len(s) + Len(u)) /\ Len(s) \in Nat
    OBVIOUS
  <2>2. ~(k <= Len(s)) => k - Len(s) \in 1..n
    BY <2>1
  <2>3. QED
    BY <1>1, <1>2, <1>3, <2>1, <2>2
<1>5. l \in Nat /\ l <= Len(y) /\ l <= Len(x)
  BY <1>2, <1>3
<1> HIDE DEF l
<1>6. \A w \in Seq(Nat) : l <= Len(w) =>
         /\ SubSeq(w, 1, l) \in Seq(Nat) /\ Len(SubSeq(w, 1, l)) = l
         /\ \A k \in 1..l : SubSeq(w, 1, l)[k] = w[k]
  BY <1>5
<1>7. SubSeq(x, 1, l) = SubSeq(y, 1, l)
  <2>1. /\ SubSeq(x, 1, l) \in Seq(Nat) /\ Len(SubSeq(x, 1, l)) = l
        /\ SubSeq(y, 1, l) \in Seq(Nat) /\ Len(SubSeq(y, 1, l)) = l
        /\ \A k \in 1..l : SubSeq(x, 1, l)[k] = SubSeq(y, 1, l)[k]
    BY <1>2, <1>3, <1>4, <1>5, <1>6
  <2>2. QED
    BY <2>1, SeqEqual
<1>8. QED
  BY <1>2, <1>5, <1>7 DEF IsPrefix, x, y, v

\* init appends behind the engine's middleware, in its array or in a new one.
LEMMA InsertShares ==
    ASSUME BluePrintsInv, ShareInv, NEW m \in MethodSet,
           InitInsert(m) \/ InitRefused(m)
    PROVE  ShareInv'
<1> DEFINE node  == methodsTree[Root][m][done[m] + 1]
           hs    == Content(arrays, node.handles)
           app   == AppendSlice(arrays, middleware[Root], hs)
           a     == app.arrays
           cs    == Content(a, app.slice)
           first == Content(arrays, middleware[Root])
           new   == [node EXCEPT !.handles = cs]
<1>0. Root \in BPs
  BY BluePrintsAssumption
<1>1. /\ pc = "init" /\ done[m] < Len(methodsTree[Root][m]) /\ arrays' = a
      /\ runs' = runs /\ middleware' = middleware /\ methodsTree' = methodsTree
      /\ \/ pc' = "panic"
         \/ pc' = pc /\ router' = [router EXCEPT ![m] = Append(router[m], new)]
  BY DEF InitInsert, InitRefused, AtNode, NextNode, InitChain, BluePrintsInv, Types
<1>2. /\ Types /\ Held(arrays, methodsTree) /\ arrays \in Arrays
      /\ Apart /\ AllShared(arrays, middleware, methodsTree)
      /\ router[m] \in Seq(Routes) /\ router \in [MethodSet -> Seq(Routes)]
      /\ \A c \in BPs : middleware[c] \in Slices /\ SliceOK(arrays, middleware[c])
  BY DEF BluePrintsInv, Types, Held, ShareInv
<1>3. /\ node \in Nodes /\ SliceOK(arrays, node.handles)
      /\ Shared(arrays, middleware, node)
  <2>1. methodsTree[Root][m] \in Seq(Nodes) /\ done[m] \in Nat
    BY <1>0, <1>2 DEF Types, Trees
  <2>2. done[m] + 1 \in DOMAIN methodsTree[Root][m]
    BY <1>1, <2>1
  <2>3. QED
    BY <1>0, <1>2, <2>1, <2>2 DEF Held, AllShared
<1> HIDE DEF node
<1>4. /\ node.handles \in Slices /\ node.given \in Seq(Nat) /\ node.mw \in Nat
      /\ node.handles.len \in Nat
      /\ node.mw <= node.handles.len /\ Len(node.given) = node.handles.len
      /\ \A k \in 1..node.mw : arrays[node.handles.arr][k] = node.given[k]
  BY <1>3 DEF Nodes, Slices, Shared, Begins
<1>5. /\ hs \in Seq(Nat) /\ Len(hs) = node.handles.len
      /\ \A k \in 1..node.handles.len : hs[k] = arrays[node.handles.arr][k]
  BY <1>2, <1>3, <1>4, ContentFacts
<1>6. first \in Seq(Nat)
  BY <1>0, <1>2, ContentFacts
<1> HIDE DEF hs
<1>7. Appended(arrays, middleware[Root], hs, app)
  BY <1>0, <1>2, <1>5, AppendFacts
<1>8. Undisturbed(arrays, a)
  BY <1>0, <1>2, <1>5, AppendShares
<1> HIDE DEF app
<1>9. cs = first \o hs
  BY <1>7 DEF Appended
<1> HIDE DEF a, cs, first
<1>10. /\ new.handles = cs /\ new.given = node.given /\ new.mw = node.mw
  BY <1>3 DEF Nodes
<1> HIDE DEF new
<1>11. /\ IsPrefix(first \o SubSeq(new.given, 1, new.mw), new.handles)
       /\ Len(new.handles) = Len(first) + Len(new.given)
  <2>1. \A k \in 1..node.mw : node.given[k] = hs[k]
    BY <1>4, <1>5
  <2>2. IsPrefix(first \o SubSeq(node.given, 1, node.mw), first \o hs)
    BY <1>4, <1>5, <1>6, <2>1, PrefixBehind
  <2>3. Len(first \o hs) = Len(first) + Len(hs)
    BY <1>5, <1>6, ConcatProperties
  <2>4. QED
    BY <1>4, <1>5, <1>9, <1>10, <2>2, <2>3
<1>12. AllShared(a, middleware, methodsTree)
  <2>1. \A c \in BPs, k \in MethodSet : \A i \in DOMAIN methodsTree[c][k] :
           methodsTree[c][k][i] \in Nodes
    <3>1. \A c \in BPs, k \in MethodSet : methodsTree[c][k] \in Seq(Nodes)
      BY <1>2 DEF Types, Trees
    <3>2. \A t \in Seq(Nodes) : \A i \in DOMAIN t : t[i] \in Nodes
      OBVIOUS
    <3>3. QED
      BY <3>1, <3>2
  <2>2. QED
    BY <1>2, <1>8, <2>1 DEF AllShared, Held, Undisturbed
<1>13. AllShared(arrays, middleware, methodsTree)' /\ Apart'
  BY <1>1, <1>2, <1>12 DEF AllShared, Shared, Begins, Behind, Apart
<1>14. MiddlewareKept'
  <2>1. CASE pc' = "panic"
    BY <2>1 DEF MiddlewareKept
  <2>2. CASE pc' = pc /\ router' = [router EXCEPT ![m] = Append(router[m], new)]
    <3> DEFINE q == router[m]
               u == Append(q, new)
    <3>1. /\ DOMAIN u = 1..(Len(q) + 1) /\ DOMAIN q = 1..Len(q) /\ Len(q) \in Nat
          /\ \A i \in 1..Len(q) : u[i] = q[i]
          /\ u[Len(q) + 1] = new
      BY <1>2
    <3> HIDE DEF u
    <3>2. /\ router'[m] = u /\ \A k \in MethodSet : k # m => router'[k] = router[k]
      BY <1>2, <2>2 DEF u
    <3> SUFFICES ASSUME runs = 1, NEW k \in MethodSet, NEW i \in DOMAIN router'[k]
                 PROVE  /\ IsPrefix(first \o SubSeq(router'[k][i].given, 1,
                                                    router'[k][i].mw),
                                    router'[k][i].handles)
                        /\ Len(router'[k][i].handles)
                             = Len(first) + Len(router'[k][i].given)
      <4>1. Content(arrays, middleware[Root])' = first
        BY <1>0, <1>1, <1>8 DEF first, Undisturbed
      <4>2. QED
        BY <1>1, <2>2, <4>1 DEF MiddlewareKept
    <3>3. \A j \in MethodSet : \A l \in DOMAIN router[j] :
             /\ IsPrefix(first \o SubSeq(router[j][l].given, 1, router[j][l].mw),
                         router[j][l].handles)
             /\ Len(router[j][l].handles) = Len(first) + Len(router[j][l].given)
      BY <1>1 DEF ShareInv, MiddlewareKept, first
    <3>4. CASE k # m
      BY <3>2, <3>3, <3>4
    <3>5. CASE k = m /\ i \in DOMAIN q
      BY <3>1, <3>2, <3>3, <3>5
    <3>6. CASE k = m /\ i = Len(q) + 1
      BY <1>11, <3>1, <3>2, <3>6
    <3>7. k = m => i \in DOMAIN q \/ i = Len(q) + 1
      BY <3>1, <3>2
    <3>8. QED
      BY <3>4, <3>5, <3>6, <3>7
  <2>3. QED
    BY <1>1, <2>1, <2>2
<1>15. QED
  BY <1>13, <1>14 DEF ShareInv

LEMMA ShareStart == Init => ShareInv
<1> SUFFICES ASSUME Init PROVE ShareInv
  OBVIOUS
<1>1. Apart /\ AllShared(arrays, middleware, methodsTree)
  BY DEF Init, NilSlice, Apart, AllShared
<1>2. MiddlewareKept
  BY DEF Init, MiddlewareKept
<1>3. QED
  BY <1>1, <1>2 DEF ShareInv

LEMMA ShareStep == BluePrintsInv /\ ShareInv /\ [Next]_vars => ShareInv'
<1> SUFFICES ASSUME BluePrintsInv, ShareInv, [Next]_vars PROVE ShareInv'
  OBVIOUS
<1>1. CASE \E b \in BPs : \E k \in Sizes : Use(b, k)
  BY <1>1, UseShares
<1>2. CASE \E b \in BPs :
             \/ \E p \in Paths, m \in MethodSet \cup {ALLMethod} : Handle(b, m, p)
             \/ \E p \in Paths, m \in MethodSet : RAW(b, m, p)
             \/ \E p \in Paths : ANY(b, p)
             \/ \E url \in {"s", "s/"} : Static(b, url)
  BY <1>2, RoutesShare
<1>3. CASE \E b \in BPs : \E branch \in BPs, p \in Paths : Include(b, branch, p)
  BY <1>3, IncludeShares
<1>4. CASE \/ \E b \in BPs, p \in Paths : SetPrefix(b, p)
           \/ \E b \in BPs : SetComponent(b)
           \/ \E k \in Sizes : AddInterceptors(k)
           \/ Bind \/ BindIllegal \/ ListenAndServe \/ RunStarters
           \/ StarterFails \/ StartersDone \/ UNCHANGED vars
  BY <1>4, QuietShares
<1>5. CASE \E m \in MethodSet : InitInsert(m) \/ InitRefused(m)
  BY <1>5, InsertShares
<1>6. QED
  BY <1>1, <1>2, <1>3, <1>4, <1>5, Zenon DEF Next

\* Whatever slices share their arrays, every route keeps the engine's middleware
\* and that of its blueprint as the first to run, and its number of handlers.
THEOREM MiddlewareStays == Spec => []MiddlewareKept
<1>1. Spec => [](BluePrintsInv /\ ShareInv)
  BY BluePrintsStart, BluePrintsStep, ShareStart, ShareStep, PTL DEF Spec
<1>2. ShareInv => MiddlewareKept
  BY DEF ShareInv
<1>3. QED
  BY <1>1, <1>2, PTL

=============================================================================
