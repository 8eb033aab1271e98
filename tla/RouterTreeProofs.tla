-------------------------- MODULE RouterTreeProofs --------------------------
(* Proofs about RouterTree for every set of routes and paths and any number  *)
(* of registrations.  Types says that the heap is well formed: every step    *)
(* keeps the nodes in their types and the pointers inside the heap.  For a   *)
(* tree without wildcards PlainInv charts it: every node has the bytes above *)
(* it (Reads), which with the node's own and the rest of the path make up    *)
(* the path being inserted or looked up (Placed), and every node is on the   *)
(* way to a registered route (Kept).  With wildcards the nodes are a forest  *)
(* of the shapes insertChild builds (Forest) on which addRoute stands where  *)
(* it may (Stands), and every node below the root has in maxParams the room  *)
(* for the values bound from it downwards (Fits).                            *)
EXTENDS RouterTree, FoldProofs, SequenceTheorems, FiniteSetTheorems

-----------------------------------------------------------------------------
(* The heap is well formed.                                                  *)

\* A byte: a letter, a slash included.
Bytes == STRING \cup {"/"}

NTypes == {"static", "root", "param", "catchAll"}

Node ==
    [path : Seq(Bytes), wildChild : BOOLEAN, nType : NTypes,
     maxParams : 0..255, priority : Int, indices : Seq(Bytes),
     children : Seq(Nat), handle : Seq(Bytes)]

\* The pointers of a heap h.
Pointers(h) ==
    /\ \A m \in DOMAIN h : \A k \in DOMAIN h[m].children :
          h[m].children[k] \in 2..Len(h)
    /\ \A m \in DOMAIN h : h[m].wildChild =>
          /\ Len(h[m].children) = 1
          /\ h[h[m].children[1]].nType \in {"param", "catchAll"}

HeapOK(h) == h \in Seq(Node) /\ h # <<>> /\ Pointers(h)

Types ==
    /\ HeapOK(heap)
    /\ pc \in PCs
    /\ arg \in Seq(Bytes) /\ path \in Seq(Bytes)
    /\ n \in DOMAIN heap
    /\ wildcard \in 0..255
    /\ registered \in Seq(Seq(Bytes))

\* Types is TypeOK and the parts an induction needs.
LEMMA TypesEnough == Types => TypeOK
<1> SUFFICES ASSUME Types PROVE TypeOK
  OBVIOUS
<1>1. DOMAIN heap = 1..Len(heap) /\ Len(heap) \in Nat
  BY LenProperties DEF Types, HeapOK
<1>2. ASSUME NEW m \in DOMAIN heap
      PROVE  /\ heap[m].nType \in NTypes
             /\ heap[m].maxParams \in 0..255
             /\ ToSet(heap[m].children) \subseteq DOMAIN heap
  <2>1. heap[m] \in Node
    BY <1>1, ElementOfSeq DEF Types, HeapOK
  <2>2. ToSet(heap[m].children) \subseteq DOMAIN heap
    <3>1. \A k \in DOMAIN heap[m].children : heap[m].children[k] \in 2..Len(heap)
      BY DEF Types, HeapOK, Pointers
    <3>2. QED
      BY <3>1, <1>1 DEF ToSet
  <2>3. QED
    BY <2>1, <2>2 DEF Node
<1>3. QED
  BY <1>1, <1>2 DEF Types, HeapOK, Pointers, TypeOK, NTypes

\* One node replaced by another.
LEMMA Replaced ==
    ASSUME NEW h \in Seq(Node), NEW m \in DOMAIN h, NEW e \in Node
    PROVE  /\ [h EXCEPT ![m] = e] \in Seq(Node)
           /\ Len([h EXCEPT ![m] = e]) = Len(h)
           /\ DOMAIN [h EXCEPT ![m] = e] = DOMAIN h
           /\ DOMAIN h = 1..Len(h) /\ Len(h) \in Nat
  BY LenProperties, ExceptSeq

\* The fields of the nodes of a heap.
LEMMA Nodes ==
    ASSUME NEW h \in Seq(Node)
    PROVE  /\ Len(h) \in Nat /\ DOMAIN h = 1..Len(h)
           /\ \A m \in DOMAIN h :
                /\ h[m] \in Node
                /\ h[m].path \in Seq(Bytes) /\ h[m].handle \in Seq(Bytes)
                /\ h[m].indices \in Seq(Bytes)
                /\ h[m].children \in Seq(Nat)
                /\ Len(h[m].path) \in Nat /\ DOMAIN h[m].path = 1..Len(h[m].path)
                /\ Len(h[m].indices) \in Nat
                /\ DOMAIN h[m].indices = 1..Len(h[m].indices)
                /\ Len(h[m].children) \in Nat
                /\ DOMAIN h[m].children = 1..Len(h[m].children)
                /\ h[m].maxParams \in 0..255 /\ h[m].priority \in Int
                /\ h[m].wildChild \in BOOLEAN /\ h[m].nType \in NTypes
<1>1. Len(h) \in Nat /\ DOMAIN h = 1..Len(h)
  BY LenProperties
<1>2. ASSUME NEW m \in DOMAIN h
      PROVE  /\ h[m] \in Node
             /\ h[m].path \in Seq(Bytes) /\ h[m].handle \in Seq(Bytes)
             /\ h[m].indices \in Seq(Bytes)
             /\ h[m].children \in Seq(Nat)
             /\ h[m].maxParams \in 0..255 /\ h[m].priority \in Int
             /\ h[m].wildChild \in BOOLEAN /\ h[m].nType \in NTypes
  <2>1. h[m] \in Node
    BY <1>1, ElementOfSeq
  <2>2. QED
    BY <2>1 DEF Node
<1>3. QED
  BY <1>1, <1>2, LenProperties

\* Node b has what node a has, but for its priority and the order of its
\* children and index bytes.
SameNode(a, b) ==
    /\ b.path = a.path /\ b.handle = a.handle
    /\ b.nType = a.nType /\ b.wildChild = a.wildChild
    /\ b.maxParams = a.maxParams
    /\ Len(b.children) = Len(a.children)
    /\ \A j \in DOMAIN b.children : \E k \in DOMAIN a.children :
          b.children[j] = a.children[k]

SameNodes(h, g) ==
    /\ g \in Seq(Node) /\ Len(g) = Len(h)
    /\ \A m \in DOMAIN h : SameNode(h[m], g[m])

\* A heap whose nodes changed nothing that Pointers looks at is well formed.
LEMMA SameNodesOK ==
    ASSUME NEW h, HeapOK(h), NEW g, SameNodes(h, g)
    PROVE  HeapOK(g)
<1>1. /\ Len(h) \in Nat /\ DOMAIN h = 1..Len(h) /\ DOMAIN g = DOMAIN h
      /\ \A m \in DOMAIN h : Len(h[m].children) \in Nat /\ Len(g[m].children) \in Nat
      /\ \A m \in DOMAIN h : DOMAIN h[m].children = 1..Len(h[m].children)
      /\ \A m \in DOMAIN h : DOMAIN g[m].children = 1..Len(g[m].children)
  <2>1. h \in Seq(Node) /\ g \in Seq(Node) /\ Len(g) = Len(h)
    BY DEF HeapOK, SameNodes
  <2>2. DOMAIN g = DOMAIN h
    BY <2>1, LenProperties
  <2>3. QED
    BY <2>1, <2>2, Nodes
<1>2. g # <<>>
  BY <1>1, EmptySeq DEF HeapOK, SameNodes
<1>3. \A m \in DOMAIN g : \A k \in DOMAIN g[m].children :
         g[m].children[k] \in 2..Len(g)
  BY <1>1 DEF HeapOK, Pointers, SameNodes, SameNode
<1>4. ASSUME NEW m \in DOMAIN g, g[m].wildChild
      PROVE  /\ Len(g[m].children) = 1
             /\ g[g[m].children[1]].nType \in {"param", "catchAll"}
  <2>1. /\ SameNode(h[m], g[m]) /\ h[m].wildChild /\ Len(h[m].children) = 1
        /\ h[h[m].children[1]].nType \in {"param", "catchAll"}
    BY <1>1, <1>4 DEF HeapOK, Pointers, SameNodes, SameNode
  <2>2. Len(g[m].children) = 1 /\ DOMAIN g[m].children = 1..1
    BY <2>1, <1>1 DEF SameNode
  <2>3. \E k \in DOMAIN h[m].children : g[m].children[1] = h[m].children[k]
    BY <2>1, <2>2 DEF SameNode
  <2>4. g[m].children[1] = h[m].children[1] /\ h[m].children[1] \in DOMAIN h
    BY <2>1, <2>3, <1>1 DEF HeapOK, Pointers
  <2>5. QED
    BY <2>1, <2>2, <2>4 DEF SameNodes, SameNode
<1>5. QED
  BY <1>2, <1>3, <1>4 DEF HeapOK, Pointers, SameNodes

-----------------------------------------------------------------------------
(* incrementChildPrio.                                                     *)

\* A child moved forward: the same children in another order.
LEMMA MovedForward ==
    ASSUME NEW s \in Seq(Nat), NEW idx \in 1..Len(s), NEW new \in 1..idx
    PROVE  /\ InsertAt(RemoveAt(s, idx), new, s[idx]) \in Seq(Nat)
           /\ Len(InsertAt(RemoveAt(s, idx), new, s[idx])) = Len(s)
           /\ \A j \in 1..Len(s) : \E k \in 1..Len(s) :
                InsertAt(RemoveAt(s, idx), new, s[idx])[j] = s[k]
<1> DEFINE a == SubSeq(s, 1, idx - 1)
           b == SubSeq(s, idx + 1, Len(s))
           r == a \o b
           c == SubSeq(r, 1, new - 1)
           d == SubSeq(r, new, Len(r))
           t == c \o <<s[idx]>>
           S == {s[k] : k \in 1..Len(s)}
<1>1. Len(s) \in Nat /\ DOMAIN s = 1..Len(s) /\ s \in [1..Len(s) -> Nat]
  BY LenProperties
<1>2. a \in Seq(S) /\ Len(a) = idx - 1
  <2>1. \A k \in 1..(idx - 1) : s[k] \in S
    BY <1>1
  <2>2. 1 \in Int /\ idx - 1 \in Int /\ (1 > idx - 1 => idx - 1 = 0)
    BY <1>1
  <2> HIDE DEF S
  <2>3. QED
    BY <2>1, <2>2, SubSeqProperties
<1>3. b \in Seq(S) /\ Len(b) = Len(s) - idx
  <2>1. \A k \in (idx + 1)..Len(s) : s[k] \in S
    BY <1>1
  <2>2. \A l \in Nat : \A x \in 1..l :
            x + 1 \in Int /\ l \in Int
              /\ (IF x + 1 <= l THEN l - (x + 1) + 1 ELSE 0) = l - x
    OBVIOUS
  <2>3. b \in Seq(S) /\ Len(b) = (IF idx + 1 <= Len(s) THEN Len(s) - (idx + 1) + 1 ELSE 0)
    <3>1. idx + 1 \in Int /\ Len(s) \in Int
      BY <2>2, <1>1
    <3> HIDE DEF S
    <3>2. QED
      BY <2>1, <3>1, SubSeqProperties
  <2>4. QED
    BY <2>2, <2>3, <1>1
<1>4. r \in Seq(S) /\ Len(r) = Len(s) - 1
  <2> HIDE DEF S, a, b
  <2>1. r \in Seq(S) /\ Len(r) = Len(a) + Len(b)
    BY <1>2, <1>3, ConcatProperties
  <2>2. QED
    BY <2>1, <1>1, <1>2, <1>3
<1>5. c \in Seq(S) /\ Len(c) = new - 1
  <2> HIDE DEF S, r
  <2>1. \A k \in 1..(new - 1) : r[k] \in S
    BY <1>1, <1>4, ElementOfSeq
  <2>2. 1 \in Int /\ new - 1 \in Int /\ (1 > new - 1 => new - 1 = 0)
    BY <1>1
  <2>3. QED
    BY <2>1, <2>2, SubSeqProperties
<1>6. d \in Seq(S) /\ Len(d) = Len(s) - new
  <2> HIDE DEF S, r
  <2>1. \A k \in new..Len(r) : r[k] \in S
    BY <1>1, <1>4, ElementOfSeq
  <2>2. \A l \in Nat : \A x \in 1..l : \A y \in 1..x :
            y \in Int /\ l - 1 \in Int
              /\ (IF y <= l - 1 THEN (l - 1) - y + 1 ELSE 0) = l - y
    OBVIOUS
  <2>3. d \in Seq(S) /\ Len(d) = (IF new <= Len(r) THEN Len(r) - new + 1 ELSE 0)
    <3>1. new \in Int /\ Len(r) \in Int
      BY <2>2, <1>1, <1>4
    <3>2. QED
      BY <2>1, <3>1, SubSeqProperties
  <2>4. QED
    BY <2>2, <2>3, <1>1, <1>4
<1>7. t \in Seq(S) /\ Len(t) = new
  <2>1. s[idx] \in S /\ <<s[idx]>> \in Seq(S) /\ Len(<<s[idx]>>) = 1
    BY <1>1
  <2> HIDE DEF S, c
  <2>2. QED
    BY <2>1, <1>5, ConcatProperties
<1>8. t \o d \in Seq(S) /\ Len(t \o d) = Len(s)
  <2> HIDE DEF S, t, d
  <2>1. t \o d \in Seq(S) /\ Len(t \o d) = Len(t) + Len(d)
    BY <1>6, <1>7, ConcatProperties
  <2>2. QED
    BY <2>1, <1>1, <1>6, <1>7
<1>9. InsertAt(RemoveAt(s, idx), new, s[idx]) = t \o d
  BY DEF InsertAt, RemoveAt
<1>10. S \subseteq Nat
  BY <1>1
<1>11. \A j \in 1..Len(s) : (t \o d)[j] \in S
  <2> HIDE DEF S, t, d
  <2>1. QED
    BY <1>8, ElementOfSeq
<1>12. t \o d \in Seq(Nat)
  <2> HIDE DEF S, t, d
  <2>1. QED
    BY <1>8, <1>10, SeqMonotonic
<1>13. \A j \in 1..Len(s) : \E k \in 1..Len(s) : (t \o d)[j] = s[k]
  <2> HIDE DEF t, d
  <2>1. QED
    BY <1>11
<1>14. QED
  <2> HIDE DEF t, d
  <2>1. QED
    BY <1>8, <1>9, <1>12, <1>13

\* A child moves to a place at or before its own.
LEMMA NewIndexInside ==
    ASSUME NEW h, NEW m, NEW idx \in Nat \ {0}
    PROVE  NewIndex(h, m, idx) \in 1..idx
<1> DEFINE S == {j \in 1..idx : \A k \in j..(idx - 1) :
                   h[h[m].children[k]].priority < h[h[m].children[idx]].priority + 1}
<1>1. idx \in S /\ S \in SUBSET Nat
  BY SMT
<1>2. Min(S) \in S
  <2> HIDE DEF S
  <2>1. QED
    BY <1>1, MinIsLeast
<1>3. QED
  BY <1>2 DEF NewIndex

\* The index bytes incrementChildPrio leaves: bytes, whatever their order.
LEMMA IndexBytes ==
    ASSUME NEW s \in Seq(Bytes), NEW idx \in 1..Len(s), NEW new \in 1..idx
    PROVE  SubSeq(s, 1, new - 1) \o SubSeq(s, new, idx)
             \o SubSeq(s, new, idx - 1) \o Drop(s, idx) \in Seq(Bytes)
<1>1. Len(s) \in Nat /\ \A k \in 1..Len(s) : s[k] \in Bytes
  BY LenProperties, ElementOfSeq
<1>2. SubSeq(s, 1, new - 1) \in Seq(Bytes)
  BY <1>1, SubSeqProperties
<1>3. SubSeq(s, new, idx) \in Seq(Bytes)
  BY <1>1, SubSeqProperties
<1>4. SubSeq(s, new, idx - 1) \in Seq(Bytes)
  BY <1>1, SubSeqProperties
<1>5. Drop(s, idx) \in Seq(Bytes)
  BY <1>1, SubSeqProperties DEF Drop
<1>6. QED
  BY <1>2, <1>3, <1>4, <1>5, ConcatProperties

\* incrementChildPrio changes nothing but priorities and the order of the
\* children.
LEMMA IncrementKeeps ==
    ASSUME NEW h, HeapOK(h), NEW m \in DOMAIN h, NEW idx \in Nat \ {0},
           idx <= Len(h[m].children), idx <= Len(h[m].indices)
    PROVE  SameNodes(h, incrementChildPrio(h, m, idx))
<1> DEFINE new  == NewIndex(h, m, idx)
           kids == h[m].children
           c    == kids[idx]
           ind  == SubSeq(h[m].indices, 1, new - 1) \o SubSeq(h[m].indices, new, idx)
                     \o SubSeq(h[m].indices, new, idx - 1) \o Drop(h[m].indices, idx)
           ks   == InsertAt(RemoveAt(kids, idx), new, kids[idx])
           e1   == [h[c] EXCEPT !.priority = @ + 1]
           g1   == [h EXCEPT ![c] = e1]
           e2   == [g1[m] EXCEPT !.children = ks, !.indices = ind]
           g    == [g1 EXCEPT ![m] = e2]
<1>1. h \in Seq(Node) /\ Len(h) \in Nat /\ DOMAIN h = 1..Len(h) /\ h[m] \in Node
  BY Nodes DEF HeapOK
<1>2. c \in DOMAIN h /\ h[c] \in Node
  <2>1. idx \in DOMAIN kids
    BY <1>1, Nodes
  <2>2. c \in 2..Len(h)
    BY <2>1 DEF HeapOK, Pointers
  <2>3. QED
    BY <1>1, <2>2, Nodes
<1>3. incrementChildPrio(h, m, idx) = g
  BY DEF incrementChildPrio
<1>4. new \in 1..idx
  BY NewIndexInside
<1>5. /\ ks \in Seq(Nat) /\ Len(ks) = Len(kids)
      /\ \A j \in 1..Len(kids) : \E k \in 1..Len(kids) : ks[j] = kids[k]
  <2>1. kids \in Seq(Nat) /\ idx \in 1..Len(kids)
    BY <1>1, Nodes
  <2> HIDE DEF kids, new
  <2>2. QED
    BY <2>1, <1>4, MovedForward
<1>6. ind \in Seq(Bytes)
  <2>1. h[m].indices \in Seq(Bytes) /\ idx \in 1..Len(h[m].indices)
    BY <1>1, Nodes
  <2> HIDE DEF new
  <2>2. QED
    BY <2>1, <1>4, IndexBytes
<1> HIDE DEF new, ks, ind
<1>7. e1 \in Node
  <2>1. \A x \in Node : [x EXCEPT !.priority = @ + 1] \in Node
    <3>1. \A x \in Node : \A p \in Int : [x EXCEPT !.priority = p] \in Node
      BY DEF Node
    <3>2. \A x \in Node : x.priority + 1 \in Int
      BY DEF Node
    <3>3. QED
      BY <3>1, <3>2
  <2> HIDE DEF c
  <2>2. QED
    BY <1>2, <2>1
<1>8. g1 \in Seq(Node) /\ Len(g1) = Len(h) /\ DOMAIN g1 = DOMAIN h
  <2> HIDE DEF e1, c
  <2>1. QED
    BY <1>1, <1>2, <1>7, Replaced
<1>9. g1[m] \in Node
  <2> HIDE DEF e1, c
  <2>1. QED
    BY <1>1, <1>2, <1>7
<1>10. e2 \in Node
  <2> HIDE DEF g1
  <2>1. QED
    BY <1>9, <1>5, <1>6 DEF Node
<1>11. g \in Seq(Node) /\ Len(g) = Len(h) /\ DOMAIN g = DOMAIN h
  <2> HIDE DEF e2, g1
  <2>1. QED
    BY <1>8, <1>10, Replaced
<1>12. ASSUME NEW q \in DOMAIN h
       PROVE  SameNode(h[q], g[q])
  <2>1. h[q] \in Node /\ DOMAIN h[q].children = 1..Len(h[q].children)
    BY <1>1, Nodes
  <2>2. /\ g1[q].path = h[q].path /\ g1[q].handle = h[q].handle
        /\ g1[q].nType = h[q].nType /\ g1[q].wildChild = h[q].wildChild
        /\ g1[q].maxParams = h[q].maxParams /\ g1[q].children = h[q].children
    <3>1. CASE q = c
      <4>1. g1[q] = e1
        <5> HIDE DEF e1, c
        <5>1. QED
          BY <3>1, <1>1, <1>2
      <4>2. QED
        BY <4>1, <3>1, <1>2 DEF Node
    <3>2. CASE q # c
      <4> HIDE DEF e1, c
      <4>1. QED
        BY <3>2, <1>1, <1>2
    <3>3. QED
      BY <3>1, <3>2
  <2>3. CASE q # m
    <3>1. g[q] = g1[q]
      <4> HIDE DEF e2, g1
      <4>1. QED
        BY <2>3, <1>8
    <3> HIDE DEF g, g1
    <3>2. QED
      BY <3>1, <2>1, <2>2 DEF SameNode
  <2>4. CASE q = m
    <3>1. g[q] = e2
      <4> HIDE DEF e2, g1
      <4>1. QED
        BY <2>4, <1>8
    <3>2. /\ e2.path = g1[m].path /\ e2.handle = g1[m].handle
          /\ e2.nType = g1[m].nType /\ e2.wildChild = g1[m].wildChild
          /\ e2.maxParams = g1[m].maxParams /\ e2.children = ks
      <4> HIDE DEF g1
      <4>1. QED
        BY <1>9 DEF Node
    <3>3. /\ Len(ks) = Len(h[q].children)
          /\ \A j \in DOMAIN ks : \E k \in DOMAIN h[q].children :
                ks[j] = h[q].children[k]
      <4>1. DOMAIN ks = 1..Len(ks)
        BY <1>5, LenProperties
      <4>2. QED
        BY <4>1, <1>5, <2>1, <2>4
    <3> HIDE DEF g, g1, e2
    <3>4. QED
      BY <3>1, <3>2, <3>3, <2>1, <2>2, <2>4, <1>5 DEF SameNode
  <2>5. QED
    BY <2>3, <2>4
<1>13. QED
  <2> HIDE DEF g
  <2>1. QED
    BY <1>3, <1>11, <1>12 DEF SameNodes

-----------------------------------------------------------------------------
(* What the steps of addRoute do to the heap.                              *)

\* The fields of a node that a change of type, priority or maxParams, or of
\* the order of children, leaves alone.
SameShape(a, b) ==
    /\ b.path = a.path /\ b.handle = a.handle /\ b.wildChild = a.wildChild
    /\ Len(b.children) = Len(a.children)
    /\ \A j \in DOMAIN b.children : \E k \in DOMAIN a.children :
          b.children[j] = a.children[k]

SameShapes(h, g) ==
    /\ g \in Seq(Node) /\ Len(g) = Len(h)
    /\ \A m \in DOMAIN h : SameShape(h[m], g[m])

\* SameNodes is the stronger relation.
LEMMA SameNodesShapes ==
    ASSUME NEW h, NEW g, SameNodes(h, g)
    PROVE  SameShapes(h, g)
  BY DEF SameNodes, SameNode, SameShapes, SameShape

\* A node with another type, priority and maxParams.
Retyped(x, t, p, w) ==
    [x EXCEPT !.nType = t, !.priority = p, !.maxParams = w]

\* A node with other priority and maxParams leaves the heap well formed; only
\* the root may change its type.
LEMMA SwappedNode ==
    ASSUME NEW h, HeapOK(h), NEW m \in DOMAIN h, NEW e \in Node,
           SameShape(h[m], e), e.children = h[m].children,
           e.nType = h[m].nType \/ m = 1, NEW g, g = [h EXCEPT ![m] = e]
    PROVE  HeapOK(g) /\ SameShapes(h, g)
<1>1. h \in Seq(Node) /\ Len(h) \in Nat /\ DOMAIN h = 1..Len(h) /\ h[m] \in Node
  BY Nodes DEF HeapOK
<1>4. g \in Seq(Node) /\ Len(g) = Len(h) /\ DOMAIN g = DOMAIN h
  BY <1>1, Replaced
<1>5. g[m] = e /\ \A q \in DOMAIN h : q # m => g[q] = h[q]
  BY <1>1
<1>6. \A q \in DOMAIN h : /\ g[q].path = h[q].path /\ g[q].handle = h[q].handle
                          /\ g[q].wildChild = h[q].wildChild
                          /\ g[q].children = h[q].children
  BY <1>5 DEF SameShape
<1>7. SameShapes(h, g)
  BY <1>4, <1>6 DEF SameShapes, SameShape
<1>8. \A q \in 2..Len(h) : g[q].nType = h[q].nType
  BY <1>1, <1>5
<1>9. g # <<>>
  BY <1>1, <1>4, EmptySeq DEF HeapOK
<1>10. \A q \in DOMAIN g : \A k \in DOMAIN g[q].children :
         g[q].children[k] \in 2..Len(g)
  BY <1>4, <1>6 DEF HeapOK, Pointers
<1>11. ASSUME NEW q \in DOMAIN g, g[q].wildChild
       PROVE  /\ Len(g[q].children) = 1
              /\ g[g[q].children[1]].nType \in {"param", "catchAll"}
  <2>1. /\ g[q].children = h[q].children /\ h[q].wildChild
        /\ Len(h[q].children) = 1
        /\ h[h[q].children[1]].nType \in {"param", "catchAll"}
    BY <1>4, <1>6, <1>11 DEF HeapOK, Pointers
  <2>2. 1 \in DOMAIN h[q].children
    BY <2>1, <1>1, <1>4, Nodes
  <2>3. h[q].children[1] \in 2..Len(h)
    BY <2>2, <1>4 DEF HeapOK, Pointers
  <2>4. QED
    BY <2>1, <2>3, <1>8
<1>12. QED
  BY <1>4, <1>7, <1>9, <1>10, <1>11 DEF HeapOK, Pointers

\* The same for a node written as a retyped one.
LEMMA RetypedNode ==
    ASSUME NEW h, HeapOK(h), NEW m \in DOMAIN h, NEW t \in NTypes, NEW p \in Int,
           NEW w \in 0..255, NEW g, g = [h EXCEPT ![m] = Retyped(h[m], t, p, w)],
           t = h[m].nType \/ m = 1
    PROVE  HeapOK(g) /\ SameShapes(h, g)
<1> DEFINE e == Retyped(h[m], t, p, w)
<1>1. h[m] \in Node
  BY Nodes DEF HeapOK
<1>2. e \in Node /\ e.nType = t
  BY <1>1 DEF Retyped, Node
<1>3. /\ e.path = h[m].path /\ e.handle = h[m].handle
      /\ e.wildChild = h[m].wildChild /\ e.children = h[m].children
  BY <1>1 DEF Retyped, Node
<1> HIDE DEF e
<1>4. SameShape(h[m], e)
  BY <1>3 DEF SameShape
<1>5. g = [h EXCEPT ![m] = e]
  BY DEF e
<1>6. QED
  BY <1>2, <1>3, <1>4, <1>5, SwappedNode

\* The count of wildcards is a uint8, and 0 if and only if there is none.
LEMMA WildcardNumIs ==
    ASSUME NEW s \in Seq(Bytes)
    PROVE  /\ wildcardNum(s) \in 0..255
           /\ wildcardNum(s) = 0 <=> \A k \in DOMAIN s : ~IsWild(s[k])
<1> DEFINE W == {k \in DOMAIN s : IsWild(s[k])}
           c == Cardinality(W)
<1>1. IsFiniteSet(W)
  <2>1. DOMAIN s = 1..Len(s) /\ Len(s) \in Nat
    BY LenProperties
  <2>2. IsFiniteSet(1..Len(s))
    BY <2>1, FS_Interval
  <2>3. QED
    BY <2>1, <2>2, FS_Subset
<1>2. c \in Nat /\ (c = 0 <=> W = {})
  <2> HIDE DEF W
  <2>1. QED
    BY <1>1, FS_CardinalityType, FS_EmptySet
<1>3. {255, c} \in SUBSET Nat /\ {255, c} # {}
  BY <1>2
<1>4. Min({255, c}) \in {255, c} /\ \A y \in {255, c} : Min({255, c}) <= y
  <2> HIDE DEF c
  <2>1. QED
    BY <1>3, MinIsLeast
<1>5. Min({255, c}) \in 0..255 /\ (Min({255, c}) = 0 <=> c = 0)
  <2>1. \A x, y \in Nat : x \in {255, y} /\ x <= 255 /\ x <= y
                           => x \in 0..255 /\ (x = 0 <=> y = 0)
    OBVIOUS
  <2> HIDE DEF c
  <2>2. Min({255, c}) \in Nat /\ Min({255, c}) <= 255 /\ Min({255, c}) <= c
    BY <1>2, <1>4
  <2>3. QED
    BY <1>2, <1>4, <2>1, <2>2
<1>6. wildcardNum(s) = Min({255, c})
  BY DEF wildcardNum
<1>7. QED
  <2>1. c = 0 <=> \A k \in DOMAIN s : ~IsWild(s[k])
    BY <1>2
  <2> HIDE DEF c
  <2>2. QED
    BY <1>5, <1>6, <2>1

\* The raised maxParams is a uint8, at least both of its sources.
LEMMA RaisedIs ==
    ASSUME NEW x, x.maxParams \in 0..255, wildcard \in 0..255
    PROVE  /\ Raised(x) \in 0..255
           /\ Raised(x) >= x.maxParams /\ Raised(x) >= wildcard
           /\ Raised(x) \in {x.maxParams, wildcard}
<1> DEFINE a == x.maxParams
           m == IF a >= wildcard THEN a ELSE wildcard
<1>1. m \in {a, wildcard} /\ \A y \in {a, wildcard} : m >= y
  OBVIOUS
<1>2. \A z \in {a, wildcard} : (\A y \in {a, wildcard} : z >= y) => z = m
  OBVIOUS
<1>3. Max({a, wildcard}) = m
  <2> HIDE DEF a, m
  <2>1. QED
    BY <1>1, <1>2 DEF Max
<1>4. QED
  BY <1>1, <1>3 DEF Raised

\* Types holds before the first registration.
LEMMA InitTypes == Init => Types
<1> SUFFICES ASSUME Init PROVE Types
  OBVIOUS
<1>1. routerNode \in Node /\ routerNode.children = <<>> /\ routerNode.wildChild = FALSE
  BY EmptySeq DEF routerNode, Node, NTypes, NoHandle
<1> HIDE DEF routerNode
<1>2. /\ heap \in Seq(Node) /\ heap # <<>> /\ DOMAIN heap = {1} /\ Len(heap) = 1
      /\ heap[1] = routerNode
  BY <1>1 DEF Init
<1>3. DOMAIN heap[1].children = {}
  BY <1>1, <1>2
<1>4. Pointers(heap)
  BY <1>1, <1>2, <1>3 DEF Pointers
<1>5. QED
  BY <1>2, <1>4, EmptySeq DEF Init, Types, HeapOK, PCs

\* Routes and requested paths are sequences of bytes.
LEMMA RoutesAreBytes == Routes \subseteq Seq(Bytes) /\ Paths \subseteq Seq(Bytes)
  BY RouterAssumption, SeqMonotonic DEF Bytes

\* The beginning of addRoute keeps Types and changes no path and no pointer.
LEMMA InsertTypes ==
    ASSUME Types, NEW p \in Routes, Insert(p)
    PROVE  Types' /\ SameShapes(heap, heap')
<1> DEFINE empty == heap[1].path = <<>> /\ heap[1].children = <<>>
           t == IF empty THEN "root" ELSE heap[1].nType
           z == heap[1].priority + 1
<1>0. HeapOK(heap) /\ heap \in Seq(Node) /\ heap # <<>>
  BY DEF Types, HeapOK
<1>1. 1 \in DOMAIN heap /\ heap[1] \in Node
  BY <1>0, Nodes, EmptySeq
<1>2. heap' = [heap EXCEPT ![1] = Retyped(heap[1], t, z, heap[1].maxParams)]
  <2>1. heap' = [heap EXCEPT ![1].priority = @ + 1,
                             ![1].nType = IF empty THEN "root" ELSE @]
    BY DEF Insert
  <2>2. [heap[1] EXCEPT !.priority = @ + 1, !.nType = t]
          = Retyped(heap[1], t, z, heap[1].maxParams)
    BY <1>1 DEF Retyped, Node
  <2>3. QED
    BY <2>1, <2>2, <1>0, <1>1
<1>3. t \in NTypes /\ z \in Int /\ heap[1].maxParams \in 0..255
  BY <1>1 DEF Node, NTypes
<1> HIDE DEF t, z
<1>4. HeapOK(heap') /\ SameShapes(heap, heap')
  BY <1>0, <1>1, <1>2, <1>3, RetypedNode
<1>5. p \in Seq(Bytes) /\ wildcardNum(p) \in 0..255
  BY RoutesAreBytes, WildcardNumIs
<1>6. n' \in DOMAIN heap'
  BY <1>1, <1>2 DEF Insert
<1>7. QED
  BY <1>4, <1>5, <1>6 DEF Types, Insert, PCs

\* What is left of a sequence and what was cut off.
LEMMA Cut ==
    ASSUME NEW S, NEW s \in Seq(S), NEW i \in 0..Len(s)
    PROVE  /\ SubSeq(s, 1, i) \in Seq(S) /\ Len(SubSeq(s, 1, i)) = i
           /\ \A k \in 1..i : SubSeq(s, 1, i)[k] = s[k]
           /\ Drop(s, i) \in Seq(S) /\ Len(Drop(s, i)) = Len(s) - i
           /\ \A k \in 1..(Len(s) - i) : Drop(s, i)[k] = s[i + k]
           /\ SubSeq(s, 1, i) \o Drop(s, i) = s
           /\ Drop(s, 0) = s /\ Drop(s, Len(s)) = <<>>
           /\ SubSeq(s, 1, Len(s)) = s
<1>1. Len(s) \in Nat /\ DOMAIN s = 1..Len(s) /\ \A k \in 1..Len(s) : s[k] \in S
  BY LenProperties, ElementOfSeq
<1>2. SubSeq(s, 1, i) \in Seq(S) /\ Len(SubSeq(s, 1, i)) = i
  <2>1. (IF 1 <= i THEN i - 1 + 1 ELSE 0) = i /\ 1 \in Int /\ i \in Int
    BY <1>1
  <2>2. QED
    BY <1>1, <2>1, SubSeqProperties
<1>3. \A k \in 1..i : SubSeq(s, 1, i)[k] = s[k]
  <2>1. \A k \in 1..(i - 1 + 1) : SubSeq(s, 1, i)[k] = s[1 + k - 1]
    BY <1>1, SubSeqProperties
  <2>2. QED
    BY <2>1
<1>4. Drop(s, i) \in Seq(S) /\ Len(Drop(s, i)) = Len(s) - i
  <2>1. \A l \in Nat : \A j \in 0..l :
          (IF j + 1 <= l THEN l - (j + 1) + 1 ELSE 0) = l - j /\ j + 1 \in Int
    OBVIOUS
  <2>2. \A k \in (i + 1)..Len(s) : s[k] \in S
    BY <1>1
  <2>3. i + 1 \in Int /\ Len(s) \in Int
    BY <1>1
  <2>4. /\ Drop(s, i) \in Seq(S)
        /\ Len(Drop(s, i)) = (IF i + 1 <= Len(s) THEN Len(s) - (i + 1) + 1 ELSE 0)
    BY <2>2, <2>3, SubSeqProperties DEF Drop
  <2>5. QED
    BY <1>1, <2>1, <2>4
<1>5. \A k \in 1..(Len(s) - i) : Drop(s, i)[k] = s[i + k]
  <2>1. \A k \in (i + 1)..Len(s) : s[k] \in S
    BY <1>1
  <2>2. i + 1 \in Int /\ Len(s) \in Int
    BY <1>1
  <2>3. \A k \in 1..(Len(s) - (i + 1) + 1) : Drop(s, i)[k] = s[(i + 1) + k - 1]
    BY <2>1, <2>2, SubSeqProperties DEF Drop
  <2>4. \A l \in Nat : \A j \in 0..l : \A k \in 1..(l - j) :
          k \in 1..(l - (j + 1) + 1) /\ (j + 1) + k - 1 = j + k
    OBVIOUS
  <2>5. QED
    BY <1>1, <2>3, <2>4
<1>6. SubSeq(s, 1, i) \o Drop(s, i) = s
  <2>1. 1 \in 1..(Len(s) + 1) /\ i \in (1 - 1)..Len(s) /\ Len(s) \in i..Len(s)
    BY <1>1
  <2>2. SubSeq(s, 1, i) \o SubSeq(s, i + 1, Len(s)) = SubSeq(s, 1, Len(s))
    BY <2>1, ConcatAdjacentSubSeq
  <2>3. QED
    BY <2>2, SubSeqFull DEF Drop
<1>7. Drop(s, 0) = s /\ Drop(s, Len(s)) = <<>> /\ SubSeq(s, 1, Len(s)) = s
  <2>1. Len(s) + 1 \in Int /\ Len(s) \in Int /\ Len(s) < Len(s) + 1 /\ 0 + 1 = 1
    BY <1>1
  <2>2. QED
    BY <2>1, SubSeqFull, SubSeqEmpty DEF Drop
<1>8. QED
  BY <1>2, <1>3, <1>4, <1>5, <1>6, <1>7

\* The common prefix is one.
LEMMA CommonPrefixIs ==
    ASSUME NEW s \in Seq(Bytes), NEW t \in Seq(Bytes)
    PROVE  /\ CommonPrefix(s, t) \in 0..Len(s)
           /\ CommonPrefix(s, t) \in 0..Len(t)
           /\ SubSeq(s, 1, CommonPrefix(s, t)) = SubSeq(t, 1, CommonPrefix(s, t))
<1> DEFINE l == Min({Len(s), Len(t)})
           C == {k \in 0..l : SubSeq(s, 1, k) = SubSeq(t, 1, k)}
<1>1. Len(s) \in Nat /\ Len(t) \in Nat
  BY LenProperties
<1>2. l \in {Len(s), Len(t)} /\ l <= Len(s) /\ l <= Len(t)
  BY <1>1, MinIsLeast
<1> HIDE DEF l
<1>3. l \in Nat
  BY <1>1, <1>2
<1>4. 0 \in C /\ C \in SUBSET (0..l)
  <2>1. SubSeq(s, 1, 0) = <<>> /\ SubSeq(t, 1, 0) = <<>>
    BY SubSeqEmpty
  <2>2. QED
    BY <2>1, <1>3
<1>5. Max(C) \in C
  <2> HIDE DEF C
  <2>1. QED
    BY <1>3, <1>4, MaxOfBounded
<1>6. CommonPrefix(s, t) = Max(C)
  BY DEF CommonPrefix, l
<1>7. PICK c \in C : c = CommonPrefix(s, t)
  BY <1>5, <1>6
<1>8. c \in 0..Len(s) /\ c \in 0..Len(t) /\ SubSeq(s, 1, c) = SubSeq(t, 1, c)
  BY <1>1, <1>2, <1>3
<1>9. QED
  BY <1>7, <1>8

-----------------------------------------------------------------------------
(* Split.                                                                  *)

\* A node m cut at i, with its contents in a new last node.
IsSplit(h, m, i, g) ==
    LET new == Len(h) + 1
    IN  /\ Len(g) = new
        /\ \A q \in DOMAIN h : q # m => g[q] = h[q]
        /\ g[m].path = SubSeq(h[m].path, 1, i) /\ g[m].handle = NoHandle
        /\ ~g[m].wildChild /\ g[m].children = <<new>>
        /\ g[m].nType = h[m].nType /\ g[m].maxParams = h[m].maxParams
        /\ g[new].path = Drop(h[m].path, i) /\ g[new].handle = h[m].handle
        /\ g[new].wildChild = h[m].wildChild
        /\ g[new].children = h[m].children /\ g[new].nType = "static"
        /\ g[new].maxParams
              = Max({0} \cup {h[c].maxParams : c \in ToSet(h[m].children)})

\* What Split does to the two nodes of the edge.
LEMMA SplitIs ==
    ASSUME NEW h, HeapOK(h), NEW m \in DOMAIN h, NEW i \in 0..Len(h[m].path),
           i # Len(h[m].path)
    PROVE  Split(h, m, i) \in Seq(Node) /\ IsSplit(h, m, i, Split(h, m, i))
<1> DEFINE node  == h[m]
           w     == Max({0} \cup {h[c].maxParams : c \in ToSet(node.children)})
           child == [node EXCEPT !.path = Drop(@, i), !.nType = "static",
                                 !.priority = @ - 1, !.maxParams = w]
           e     == [node EXCEPT !.path = SubSeq(@, 1, i), !.handle = NoHandle,
                                 !.wildChild = FALSE, !.indices = <<node.path[i + 1]>>,
                                 !.children = <<Len(h) + 1>>]
           a     == Append(h, child)
           g     == [a EXCEPT ![m] = e]
<1>1. /\ h \in Seq(Node) /\ Len(h) \in Nat /\ DOMAIN h = 1..Len(h)
      /\ node \in Node /\ node.path \in Seq(Bytes) /\ Len(node.path) \in Nat
      /\ node.priority \in Int
  BY Nodes DEF HeapOK
<1>2. w \in 0..255
  <2> DEFINE S == {0} \cup {h[c].maxParams : c \in ToSet(node.children)}
  <2>1. ASSUME NEW c \in ToSet(node.children)
        PROVE  h[c].maxParams \in 0..255
    <3>1. c \in 2..Len(h)
      BY DEF ToSet, HeapOK, Pointers
    <3>2. QED
      BY <3>1, <1>1, Nodes
  <2>2. S \in SUBSET (0..255) /\ S # {}
    <3>1. 0 \in 0..255
      OBVIOUS
    <3>2. \A x \in {h[c].maxParams : c \in ToSet(node.children)} : x \in 0..255
      <4> SUFFICES ASSUME NEW x \in {h[c].maxParams : c \in ToSet(node.children)}
                   PROVE  x \in 0..255
        OBVIOUS
      <4>1. PICK c \in ToSet(node.children) : x = h[c].maxParams
        OBVIOUS
      <4>2. QED
        BY <2>1, <4>1
    <3>3. \A x \in S : x \in 0..255
      BY <3>1, <3>2
    <3>4. 0 \in S
      OBVIOUS
    <3> HIDE DEF S
    <3>5. QED
      BY <3>3, <3>4
  <2> HIDE DEF S
  <2>3. Max(S) \in S
    BY <2>2, MaxOfBounded, ZenonT(60)
  <2>4. QED
    BY <2>2, <2>3 DEF S
<1> HIDE DEF w
<1>3. /\ SubSeq(node.path, 1, i) \in Seq(Bytes) /\ Drop(node.path, i) \in Seq(Bytes)
      /\ node.path[i + 1] \in Bytes
  <2>1. i + 1 \in 1..Len(node.path)
    BY <1>1
  <2>2. QED
    BY <1>1, <2>1, Cut, ElementOfSeq
<1>4. /\ child \in Node /\ child.path = Drop(node.path, i)
      /\ child.handle = node.handle /\ child.wildChild = node.wildChild
      /\ child.children = node.children /\ child.nType = "static"
      /\ child.maxParams = w
  <2>1. node.priority - 1 \in Int /\ "static" \in NTypes
    BY <1>1 DEF NTypes
  <2> HIDE DEF node
  <2>2. QED
    BY <1>1, <1>2, <1>3, <2>1 DEF Node
<1>5. /\ e \in Node /\ e.path = SubSeq(node.path, 1, i)
      /\ e.handle = NoHandle /\ e.wildChild = FALSE
      /\ e.children = <<Len(h) + 1>> /\ e.nType = node.nType
      /\ e.maxParams = node.maxParams
  <2>1. /\ <<Len(h) + 1>> \in Seq(Nat) /\ <<node.path[i + 1]>> \in Seq(Bytes)
        /\ NoHandle \in Seq(Bytes)
    BY <1>1, <1>3 DEF NoHandle
  <2> HIDE DEF node
  <2>2. QED
    BY <1>1, <1>3, <2>1 DEF Node
<1> HIDE DEF child, e
<1>6. /\ a \in Seq(Node) /\ Len(a) = Len(h) + 1 /\ DOMAIN a = 1..(Len(h) + 1)
      /\ a[Len(h) + 1] = child /\ \A q \in DOMAIN h : a[q] = h[q]
  BY <1>1, <1>4
<1> HIDE DEF a
<1>7. g \in Seq(Node) /\ Len(g) = Len(h) + 1 /\ DOMAIN g = DOMAIN a /\ m \in DOMAIN a
  <2>1. m \in DOMAIN a
    BY <1>1, <1>6
  <2>2. QED
    BY <2>1, <1>5, <1>6, Replaced
<1>8. /\ g[m] = e /\ g[Len(h) + 1] = child
      /\ \A q \in DOMAIN h : q # m => g[q] = h[q]
  BY <1>1, <1>6, <1>7
<1>9. Split(h, m, i) = g
  BY DEF Split, a, child, e, w
<1> HIDE DEF g
<1>10. QED
  BY <1>4, <1>5, <1>7, <1>8, <1>9 DEF IsSplit, w

\* A heap with a split edge is well formed.
LEMMA SplitOK ==
    ASSUME NEW h, HeapOK(h), NEW m \in DOMAIN h, NEW i,
           NEW g \in Seq(Node), IsSplit(h, m, i, g)
    PROVE  HeapOK(g)
<1>1. /\ h \in Seq(Node) /\ Len(h) \in Nat /\ DOMAIN h = 1..Len(h)
      /\ DOMAIN g = 1..Len(g) /\ Len(g) = Len(h) + 1 /\ Len(h) >= 1
  BY Nodes DEF HeapOK, IsSplit
<1>2. /\ \A q \in DOMAIN h : q # m => g[q] = h[q]
      /\ ~g[m].wildChild /\ g[m].children = <<Len(h) + 1>>
      /\ g[m].nType = h[m].nType
      /\ g[Len(h) + 1].wildChild = h[m].wildChild
      /\ g[Len(h) + 1].children = h[m].children
  BY DEF IsSplit
<1>3. \A q \in DOMAIN h : g[q].nType = h[q].nType
  BY <1>2
<1>4. ASSUME NEW q \in DOMAIN g
      PROVE  \/ q = m
             \/ \E o \in DOMAIN h : /\ g[q].children = h[o].children
                                    /\ g[q].wildChild = h[o].wildChild
  <2>1. CASE q \in DOMAIN h
    BY <2>1, <1>2
  <2>2. CASE q = Len(h) + 1
    BY <2>2, <1>2
  <2>3. q \in 1..Len(h) \/ q = Len(h) + 1
    BY <1>1
  <2>4. QED
    BY <1>1, <2>1, <2>2, <2>3
<1>5. \A q \in DOMAIN g : \A k \in DOMAIN g[q].children :
         g[q].children[k] \in 2..Len(g)
  <2> SUFFICES ASSUME NEW q \in DOMAIN g, NEW k \in DOMAIN g[q].children
               PROVE  g[q].children[k] \in 2..Len(g)
    OBVIOUS
  <2>1. CASE q = m
    BY <2>1, <1>1, <1>2
  <2>2. CASE \E o \in DOMAIN h : g[q].children = h[o].children
    <3>1. g[q].children[k] \in 2..Len(h)
      BY <2>2 DEF HeapOK, Pointers
    <3>2. QED
      BY <3>1, <1>1
  <2>3. QED
    BY <1>4, <2>1, <2>2
<1>6. ASSUME NEW q \in DOMAIN g, g[q].wildChild
      PROVE  /\ Len(g[q].children) = 1
             /\ g[g[q].children[1]].nType \in {"param", "catchAll"}
  <2>1. PICK o \in DOMAIN h : /\ g[q].children = h[o].children
                              /\ g[q].wildChild = h[o].wildChild
    BY <1>2, <1>4, <1>6
  <2>2. /\ Len(h[o].children) = 1
        /\ h[h[o].children[1]].nType \in {"param", "catchAll"}
    BY <2>1, <1>6 DEF HeapOK, Pointers
  <2>3. 1 \in DOMAIN h[o].children
    BY <2>2, <1>1, Nodes
  <2>4. h[o].children[1] \in 2..Len(h)
    BY <2>3 DEF HeapOK, Pointers
  <2>5. h[o].children[1] \in DOMAIN h
    BY <2>4, <1>1
  <2>6. QED
    BY <2>1, <2>2, <2>5, <1>3
<1>7. g # <<>>
  BY <1>1, EmptySeq
<1>8. QED
  BY <1>5, <1>6, <1>7 DEF HeapOK, Pointers

\* A node with another path and handle.
Refilled(x, p, hd) == [x EXCEPT !.path = p, !.handle = hd]

\* A node with another path and handle leaves the heap well formed.
LEMMA RefilledNode ==
    ASSUME NEW h, HeapOK(h), NEW m \in DOMAIN h, NEW p \in Seq(Bytes),
           NEW hd \in Seq(Bytes), NEW g, g = [h EXCEPT ![m] = Refilled(h[m], p, hd)]
    PROVE  /\ HeapOK(g) /\ Len(g) = Len(h) /\ DOMAIN g = DOMAIN h
           /\ \A q \in DOMAIN h : q # m => g[q] = h[q]
           /\ g[m].path = p /\ g[m].handle = hd
           /\ \A q \in DOMAIN h : /\ g[q].children = h[q].children
                                  /\ g[q].wildChild = h[q].wildChild
                                  /\ g[q].nType = h[q].nType
                                  /\ g[q].maxParams = h[q].maxParams
<1> DEFINE e == Refilled(h[m], p, hd)
<1>1. h \in Seq(Node) /\ Len(h) \in Nat /\ DOMAIN h = 1..Len(h) /\ h[m] \in Node
  BY Nodes DEF HeapOK
<1>2. /\ e \in Node /\ e.path = p /\ e.handle = hd /\ e.nType = h[m].nType
      /\ e.wildChild = h[m].wildChild /\ e.children = h[m].children
      /\ e.maxParams = h[m].maxParams
  BY <1>1 DEF Refilled, Node
<1> HIDE DEF e
<1>3. g \in Seq(Node) /\ Len(g) = Len(h) /\ DOMAIN g = DOMAIN h
  BY <1>1, <1>2, Replaced DEF e
<1>4. g[m] = e /\ \A q \in DOMAIN h : q # m => g[q] = h[q]
  BY <1>1 DEF e
<1>5. \A q \in DOMAIN h : /\ g[q].children = h[q].children
                          /\ g[q].wildChild = h[q].wildChild
                          /\ g[q].nType = h[q].nType
                          /\ g[q].maxParams = h[q].maxParams
  BY <1>2, <1>4
<1>6. g # <<>>
  BY <1>1, <1>3, EmptySeq DEF HeapOK
<1>7. Pointers(g)
  <2>1. \A q \in DOMAIN g : \A k \in DOMAIN g[q].children :
          g[q].children[k] \in 2..Len(g)
    BY <1>3, <1>5 DEF HeapOK, Pointers
  <2>2. ASSUME NEW q \in DOMAIN g, g[q].wildChild
        PROVE  /\ Len(g[q].children) = 1
               /\ g[g[q].children[1]].nType \in {"param", "catchAll"}
    <3>1. /\ Len(h[q].children) = 1 /\ g[q].children = h[q].children
          /\ h[h[q].children[1]].nType \in {"param", "catchAll"}
      BY <1>3, <1>5, <2>2 DEF HeapOK, Pointers
    <3>2. 1 \in DOMAIN h[q].children
      BY <3>1, <1>1, <1>3, Nodes
    <3>3. h[q].children[1] \in DOMAIN h
      BY <3>2, <1>1, <1>3 DEF HeapOK, Pointers
    <3>4. QED
      BY <3>1, <3>3, <1>5
  <2>3. QED
    BY <2>1, <2>2 DEF Pointers
<1>8. QED
  BY <1>2, <1>3, <1>4, <1>5, <1>6, <1>7 DEF HeapOK

\* The heap Walk cuts: maxParams of n raised, and the edge split.
Lifted == [heap EXCEPT ![n].maxParams = Raised(heap[n])]
Common == CommonPrefix(path, heap[n].path)
Parted == Split(Lifted, n, Common)

\* Raising maxParams changes nothing else.
LEMMA LiftedOK ==
    ASSUME Types
    PROVE  /\ HeapOK(Lifted) /\ SameShapes(heap, Lifted)
           /\ Len(Lifted) = Len(heap) /\ DOMAIN Lifted = DOMAIN heap
           /\ \A q \in DOMAIN heap : q # n => Lifted[q] = heap[q]
           /\ \A q \in DOMAIN heap : /\ Lifted[q].path = heap[q].path
                                     /\ Lifted[q].handle = heap[q].handle
                                     /\ Lifted[q].children = heap[q].children
                                     /\ Lifted[q].wildChild = heap[q].wildChild
                                     /\ Lifted[q].nType = heap[q].nType
           /\ Lifted[n].maxParams = Raised(heap[n])
<1> DEFINE x == heap[n]
           e == [x EXCEPT !.maxParams = Raised(x)]
<1>1. HeapOK(heap) /\ heap \in Seq(Node) /\ n \in DOMAIN heap /\ x \in Node
  BY Nodes DEF Types, HeapOK
<1>2. Raised(x) \in 0..255
  <2>1. x.maxParams \in 0..255 /\ wildcard \in 0..255
    BY <1>1, Nodes DEF Types
  <2>2. QED
    BY <2>1, RaisedIs
<1>3. \A y \in Node : \A w \in 0..255 : [y EXCEPT !.maxParams = w] \in Node
  BY DEF Node
<1>4. /\ e \in Node
      /\ e.path = x.path /\ e.handle = x.handle /\ e.children = x.children
      /\ e.wildChild = x.wildChild /\ e.nType = x.nType /\ e.maxParams = Raised(x)
  <2>1. \A y \in Node : \A w :
           LET z == [y EXCEPT !.maxParams = w]
           IN  /\ z.path = y.path /\ z.handle = y.handle /\ z.children = y.children
               /\ z.wildChild = y.wildChild /\ z.nType = y.nType /\ z.maxParams = w
    BY DEF Node
  <2> HIDE DEF x
  <2>2. QED
    BY <1>1, <1>2, <1>3, <2>1, ZenonT(60)
<1>5. Lifted = [heap EXCEPT ![n] = e]
  BY DEF Lifted
<1>6. HeapOK(Lifted) /\ SameShapes(heap, Lifted)
  <2>1. SameShape(x, e)
    BY <1>4 DEF SameShape
  <2> HIDE DEF e
  <2>2. QED
    BY <1>1, <1>4, <1>5, <2>1, SwappedNode
<1> HIDE DEF e
<1>7. /\ Len(Lifted) = Len(heap) /\ DOMAIN Lifted = DOMAIN heap
      /\ \A q \in DOMAIN heap : q # n => Lifted[q] = heap[q]
      /\ Lifted[n] = e
  <2>1. Len(Lifted) = Len(heap)
    BY <1>6 DEF SameShapes
  <2>2. QED
    BY <2>1, <1>1, <1>5
<1>8. QED
  BY <1>4, <1>6, <1>7

\* What Walk leaves.
LEMMA WalkIs ==
    ASSUME Types, Walk
    PROVE  /\ Common \in 0..Len(path) /\ Common \in 0..Len(heap[n].path)
           /\ SubSeq(path, 1, Common) = SubSeq(heap[n].path, 1, Common)
           /\ path' = Drop(path, Common) /\ path' \in Seq(Bytes)
           /\ Parted \in Seq(Node) /\ HeapOK(Parted) /\ n \in DOMAIN Parted
           /\ IF Common = Len(heap[n].path) THEN Parted = Lifted
                 ELSE IsSplit(Lifted, n, Common, Parted)
           /\ pc' = IF LeafTaken(Common, Parted[n]) THEN "panic" ELSE "descend"
           /\ heap' = IF Common = Len(path) /\ pc' # "panic"
                        THEN [Parted EXCEPT ![n] = Refilled(Parted[n], Parted[n].path, arg)]
                        ELSE Parted
           /\ HeapOK(heap') /\ n \in DOMAIN heap'
<1>1. /\ path \in Seq(Bytes) /\ heap[n].path \in Seq(Bytes) /\ n \in DOMAIN heap
      /\ heap \in Seq(Node) /\ DOMAIN heap = 1..Len(heap) /\ Len(heap) \in Nat
      /\ arg \in Seq(Bytes)
  BY Nodes DEF Types, HeapOK
<1>2. /\ Common \in 0..Len(path) /\ Common \in 0..Len(heap[n].path)
      /\ SubSeq(path, 1, Common) = SubSeq(heap[n].path, 1, Common)
  BY <1>1, CommonPrefixIs DEF Common
<1>3. path' = Drop(path, Common) /\ path' \in Seq(Bytes)
  <2>1. path' = Drop(path, Common)
    BY DEF Walk, Common
  <2>2. QED
    BY <1>1, <1>2, <2>1, Cut
<1>4. /\ Parted \in Seq(Node) /\ HeapOK(Parted) /\ n \in DOMAIN Parted
      /\ IF Common = Len(heap[n].path) THEN Parted = Lifted
                 ELSE IsSplit(Lifted, n, Common, Parted)
  <2>0. HeapOK(Lifted) /\ DOMAIN Lifted = DOMAIN heap /\ Lifted[n].path = heap[n].path
        /\ Len(Lifted) = Len(heap) /\ Lifted \in Seq(Node)
    BY <1>1, LiftedOK DEF HeapOK
  <2>1. CASE Common = Len(heap[n].path)
    <3>1. Parted = Lifted
      BY <2>0, <2>1 DEF Parted, Split
    <3>2. QED
      BY <2>0, <2>1, <3>1, <1>1
  <2>2. CASE Common # Len(heap[n].path)
    <3>1. Parted \in Seq(Node) /\ IsSplit(Lifted, n, Common, Parted)
      BY <2>0, <2>2, <1>1, <1>2, SplitIs DEF Parted
    <3>2. HeapOK(Parted)
      BY <2>0, <3>1, <1>1, SplitOK
    <3>3. Len(Parted) = Len(heap) + 1
      BY <3>1, <2>0 DEF IsSplit
    <3>4. n \in DOMAIN Parted
      BY <3>1, <3>3, <1>1, Nodes
    <3>5. QED
      BY <2>2, <3>1, <3>2, <3>4
  <2>3. QED
    BY <2>1, <2>2
<1>5. pc' = IF LeafTaken(Common, Parted[n]) THEN "panic" ELSE "descend"
  BY DEF Walk, Common, Parted, Lifted
<1>6. heap' = IF Common = Len(path) /\ pc' # "panic"
                THEN [Parted EXCEPT ![n] = Refilled(Parted[n], Parted[n].path, arg)]
                ELSE Parted
  <2>1. heap' = IF Common = Len(path) /\ pc' # "panic"
                  THEN [Parted EXCEPT ![n].handle = arg] ELSE Parted
    BY DEF Walk, Common, Parted, Lifted
  <2>2. Parted[n] \in Node
    BY <1>4, Nodes
  <2>3. \A y \in Node : \A a : Refilled(y, y.path, a) = [y EXCEPT !.handle = a]
    BY DEF Refilled, Node
  <2>4. QED
    BY <2>1, <2>2, <2>3, <1>4
<1>7. HeapOK(heap') /\ n \in DOMAIN heap'
  <2>1. Parted[n].path \in Seq(Bytes)
    BY <1>4, Nodes
  <2>2. CASE heap' = Parted
    BY <2>2, <1>4
  <2>3. CASE heap' = [Parted EXCEPT ![n] = Refilled(Parted[n], Parted[n].path, arg)]
    <3>1. HeapOK(heap') /\ DOMAIN heap' = DOMAIN Parted
      BY <2>1, <2>3, <1>1, <1>4, RefilledNode
    <3>2. QED
      BY <3>1, <1>4
  <2>4. QED
    BY <1>6, <2>2, <2>3
<1>8. QED
  BY <1>2, <1>3, <1>4, <1>5, <1>6, <1>7

\* Walk keeps Types.
LEMMA WalkTypes ==
    ASSUME Types, Walk
    PROVE  Types'
<1>1. pc' \in PCs
  BY WalkIs DEF PCs
<1>2. arg' = arg /\ n' = n /\ wildcard' = wildcard /\ registered' = registered
  BY DEF Walk
<1>3. QED
  BY <1>1, <1>2, WalkIs DEF Types

-----------------------------------------------------------------------------
(* The steps down and the new nodes.                                       *)

\* Raising maxParams and priority of a node on the way.
LEMMA PassedNode ==
    ASSUME Types, NEW c \in DOMAIN heap, NEW w \in 0..255, NEW g,
           g = [heap EXCEPT ![c].priority = @ + 1, ![c].maxParams = w]
    PROVE  /\ HeapOK(g) /\ SameShapes(heap, g) /\ DOMAIN g = DOMAIN heap
           /\ \A q \in DOMAIN heap : /\ q # c => g[q] = heap[q]
                                     /\ g[q].path = heap[q].path
                                     /\ g[q].handle = heap[q].handle
                                     /\ g[q].children = heap[q].children
                                     /\ g[q].wildChild = heap[q].wildChild
                                     /\ g[q].nType = heap[q].nType
                                     /\ g[q].indices = heap[q].indices
           /\ g[c].maxParams = w
<1> DEFINE x == heap[c]
           e == [x EXCEPT !.priority = @ + 1, !.maxParams = w]
<1>1. HeapOK(heap) /\ heap \in Seq(Node) /\ x \in Node
  BY Nodes DEF Types, HeapOK
<1>2. \A y \in Node : [y EXCEPT !.priority = @ + 1, !.maxParams = w] \in Node
  <2>1. \A o \in Int : o + 1 \in Int
    OBVIOUS
  <2>2. QED
    BY <2>1 DEF Node
<1>3. \A y \in Node :
        LET out == [y EXCEPT !.priority = @ + 1, !.maxParams = w]
        IN  /\ out.path = y.path /\ out.handle = y.handle /\ out.children = y.children
            /\ out.wildChild = y.wildChild /\ out.nType = y.nType /\ out.maxParams = w
            /\ out.indices = y.indices
  BY DEF Node
<1> HIDE DEF x
<1>4. /\ e \in Node
      /\ e.path = x.path /\ e.handle = x.handle /\ e.children = x.children
      /\ e.wildChild = x.wildChild /\ e.nType = x.nType /\ e.maxParams = w
      /\ e.indices = x.indices
  BY <1>1, <1>2, <1>3
<1>5. g = [heap EXCEPT ![c] = e]
  BY <1>1 DEF x
<1> HIDE DEF e
<1>6. HeapOK(g) /\ SameShapes(heap, g)
  <2>1. SameShape(x, e)
    BY <1>4 DEF SameShape
  <2>2. QED
    BY <1>1, <1>4, <1>5, <2>1, SwappedNode DEF x
<1>7. DOMAIN g = DOMAIN heap /\ g[c] = e /\ \A q \in DOMAIN heap : q # c => g[q] = heap[q]
  BY <1>1, <1>5
<1>8. QED
  BY <1>4, <1>6, <1>7 DEF x

\* A child of a node is a node.
LEMMA ChildInside ==
    ASSUME Types, NEW m \in DOMAIN heap, NEW k \in Nat \ {0},
           k <= Len(heap[m].children)
    PROVE  /\ heap[m].children[k] \in DOMAIN heap
           /\ heap[m].children[k] \in 2..Len(heap)
           /\ k \in DOMAIN heap[m].children
<1>1. /\ heap \in Seq(Node) /\ DOMAIN heap = 1..Len(heap)
      /\ DOMAIN heap[m].children = 1..Len(heap[m].children)
  BY Nodes DEF Types, HeapOK
<1>2. k \in DOMAIN heap[m].children
  BY <1>1, Nodes
<1>3. heap[m].children[k] \in 2..Len(heap)
  BY <1>2 DEF Types, HeapOK, Pointers
<1>4. QED
  BY <1>1, <1>2, <1>3, Nodes

\* What DescendWild does.
LEMMA DescendWildIs ==
    ASSUME Types, DescendWild
    PROVE  LET c == heap[n].children[1]
           IN  /\ c \in DOMAIN heap /\ c # 1 /\ Len(heap[n].children) = 1
               /\ heap[c].nType \in {"param", "catchAll"}
               /\ Raised(heap[c]) \in 0..255
               /\ heap' = [heap EXCEPT ![c].priority = @ + 1,
                                       ![c].maxParams = Raised(heap[c])]
               /\ HeapOK(heap') /\ SameShapes(heap, heap')
               /\ DOMAIN heap' = DOMAIN heap
<1> DEFINE c == heap[n].children[1]
<1>1. /\ n \in DOMAIN heap /\ heap[n].wildChild /\ Len(heap[n].children) = 1
      /\ heap[c].nType \in {"param", "catchAll"}
  BY DEF Types, HeapOK, Pointers, DescendWild
<1>2. c \in DOMAIN heap /\ c \in 2..Len(heap)
  BY <1>1, ChildInside
<1>3. Raised(heap[c]) \in 0..255
  <2>1. heap[c].maxParams \in 0..255 /\ wildcard \in 0..255
    BY <1>2, Nodes DEF Types, HeapOK
  <2>2. QED
    BY <2>1, RaisedIs
<1>4. heap' = [heap EXCEPT ![c].priority = @ + 1, ![c].maxParams = Raised(heap[c])]
  BY DEF DescendWild
<1> HIDE DEF c
<1>5. HeapOK(heap') /\ SameShapes(heap, heap') /\ DOMAIN heap' = DOMAIN heap
  BY <1>2, <1>3, <1>4, PassedNode, ZenonT(60)
<1>6. c # 1
  BY <1>2
<1>7. QED
  BY <1>1, <1>2, <1>3, <1>4, <1>5, <1>6, Zenon DEF c

\* DescendWild keeps Types.
LEMMA DescendWildTypes ==
    ASSUME Types, DescendWild
    PROVE  Types'
<1> DEFINE c == heap[n].children[1]
<1>1. c \in DOMAIN heap /\ HeapOK(heap') /\ DOMAIN heap' = DOMAIN heap
  BY DescendWildIs
<1>2. n' = c /\ arg' = arg /\ path' = path /\ registered' = registered
  BY DEF DescendWild
<1>3. wildcard' \in 0..255
  <2>1. \A w \in 0..255 : (w - 1) % 256 \in 0..255
    OBVIOUS
  <2>2. QED
    BY <2>1 DEF DescendWild, uint8, Types
<1>4. pc' \in PCs
  BY DEF DescendWild, PCs
<1> HIDE DEF c
<1>5. QED
  BY <1>1, <1>2, <1>3, <1>4 DEF Types

\* What DescendSlash does.
LEMMA DescendSlashIs ==
    ASSUME Types, DescendSlash
    PROVE  /\ n' = heap[n].children[1] /\ n' \in DOMAIN heap /\ n' # 1
           /\ Len(heap[n].children) = 1
           /\ heap' = [heap EXCEPT ![n'].priority = @ + 1,
                                   ![n'].maxParams = heap[n'].maxParams]
           /\ heap[n'].maxParams \in 0..255
           /\ HeapOK(heap') /\ SameShapes(heap, heap')
           /\ DOMAIN heap' = DOMAIN heap
<1> DEFINE c == heap[n].children[1]
<1>1. /\ n \in DOMAIN heap /\ Len(heap[n].children) = 1 /\ n' = c
      /\ heap' = [heap EXCEPT ![n'].priority = @ + 1]
  BY DEF Types, DescendSlash, SlashAfterParam
<1>2. c \in DOMAIN heap /\ c \in 2..Len(heap)
  BY <1>1, ChildInside
<1>3. heap \in Seq(Node) /\ heap[c] \in Node /\ heap[c].maxParams \in 0..255
  BY <1>2, Nodes DEF Types, HeapOK
<1>4. heap' = [heap EXCEPT ![c].priority = @ + 1, ![c].maxParams = heap[c].maxParams]
  <2>1. \A y \in Node : \A p :
           [y EXCEPT !.priority = p] = [y EXCEPT !.priority = p, !.maxParams = y.maxParams]
    BY DEF Node
  <2> HIDE DEF c
  <2>2. QED
    BY <1>1, <1>3, <2>1
<1>5. HeapOK(heap') /\ SameShapes(heap, heap') /\ DOMAIN heap' = DOMAIN heap
  <2> HIDE DEF c
  <2>1. PICK w : w = heap[c].maxParams
    OBVIOUS
  <2>2. w \in 0..255 /\ heap' = [heap EXCEPT ![c].priority = @ + 1, ![c].maxParams = w]
    BY <1>3, <1>4, <2>1
  <2>3. QED
    BY <1>2, <2>2, PassedNode
<1>6. c # 1
  BY <1>2
<1>7. QED
  BY <1>1, <1>2, <1>3, <1>4, <1>5, <1>6

\* DescendSlash keeps Types.
LEMMA DescendSlashTypes ==
    ASSUME Types, DescendSlash
    PROVE  Types'
<1>1. /\ arg' = arg /\ path' = path /\ registered' = registered
      /\ wildcard' = wildcard /\ pc' \in PCs
  BY DEF DescendSlash, PCs
<1>2. QED
  BY <1>1, DescendSlashIs DEF Types

\* The place of a byte in the indices of a node.
LEMMA IndexOfIs ==
    ASSUME NEW x \in Node, NEW c
    PROVE  /\ IndexOf(x, c) \in 0..Len(x.indices)
           /\ IndexOf(x, c) = 0 <=> \A k \in DOMAIN x.indices : x.indices[k] # c
           /\ IndexOf(x, c) # 0 => /\ x.indices[IndexOf(x, c)] = c
                                   /\ \A k \in 1..(IndexOf(x, c) - 1) : x.indices[k] # c
<1> DEFINE I == {k \in 1..Len(x.indices) : x.indices[k] = c}
<1>1. /\ x.indices \in Seq(Bytes) /\ Len(x.indices) \in Nat
      /\ DOMAIN x.indices = 1..Len(x.indices)
  BY LenProperties DEF Node
<1>2. IndexOf(x, c) = IF I # {} THEN Min(I) ELSE 0
  BY DEF IndexOf, SelectInSeq
<1>3. CASE I = {}
  BY <1>1, <1>2, <1>3
<1>4. CASE I # {}
  <2>1. I \in SUBSET Nat
    OBVIOUS
  <2>2. Min(I) \in I /\ \A y \in I : Min(I) <= y
    <3> HIDE DEF I
    <3>1. QED
      BY <2>1, <1>4, MinIsLeast
  <2>3. PICK f \in I : f = IndexOf(x, c) /\ \A y \in I : f <= y
    BY <1>2, <1>4, <2>2
  <2>4. f \in 1..Len(x.indices) /\ x.indices[f] = c
    OBVIOUS
  <2>5. \A k \in 1..(f - 1) : x.indices[k] # c
    BY <2>3, <2>4, <1>1
  <2>6. QED
    BY <2>3, <2>4, <2>5, <1>1
<1>5. QED
  BY <1>3, <1>4

\* What DescendIndex does: it panics or moves to the child, whose place among
\* its siblings may change.
LEMMA DescendIndexIs ==
    ASSUME Types, DescendIndex
    PROVE  LET k == IndexOf(heap[n], path[1])
           IN  /\ ~heap[n].wildChild /\ path # <<>> /\ pc = "descend"
               /\ k \in 1..Len(heap[n].indices)
               /\ \/ k > Len(heap[n].children) /\ Panic
                  \/ /\ k <= Len(heap[n].children) /\ SameNodes(heap, heap')
                     /\ HeapOK(heap') /\ DOMAIN heap' = DOMAIN heap
                     /\ heap' = incrementChildPrio(heap, n, k)
                     /\ n' = heap[n].children[k] /\ pc' = "walk"
                     /\ n' \in DOMAIN heap /\ n' # 1
                     /\ k \in DOMAIN heap[n].children
                     /\ UNCHANGED <<arg, path, wildcard, answer, registered>>
<1> DEFINE k == IndexOf(heap[n], path[1])
<1>1. /\ HeapOK(heap) /\ n \in DOMAIN heap /\ heap[n] \in Node /\ Len(heap[n].indices) \in Nat
      /\ Len(heap[n].children) \in Nat /\ heap \in Seq(Node)
  BY Nodes DEF Types, HeapOK
<1>2. /\ ~heap[n].wildChild /\ path # <<>> /\ pc = "descend" /\ k # 0
      /\ IF k > Len(heap[n].children) THEN Panic
           ELSE /\ heap' = incrementChildPrio(heap, n, k)
                /\ n' = heap[n].children[k]
                /\ pc' = "walk"
                /\ UNCHANGED <<arg, path, wildcard, answer, registered>>
  BY DEF DescendIndex, AtByte
<1>3. k \in 0..Len(heap[n].indices)
  BY <1>1, IndexOfIs
<1> HIDE DEF k
<1>4. k \in Nat \ {0} /\ k <= Len(heap[n].indices) /\ k \in 1..Len(heap[n].indices)
  BY <1>1, <1>2, <1>3
<1>5. CASE k <= Len(heap[n].children)
  <2>1. SameNodes(heap, heap') /\ heap' = incrementChildPrio(heap, n, k)
    BY <1>1, <1>2, <1>4, <1>5, IncrementKeeps
  <2>2. HeapOK(heap')
    BY <1>1, <2>1, SameNodesOK
  <2>3. DOMAIN heap' = DOMAIN heap
    BY <1>1, <2>1, LenProperties DEF SameNodes
  <2>4. heap[n].children[k] \in DOMAIN heap /\ heap[n].children[k] \in 2..Len(heap)
        /\ k \in DOMAIN heap[n].children
    BY <1>1, <1>4, <1>5, ChildInside
  <2>5. ~(k > Len(heap[n].children)) /\ heap[n].children[k] # 1
    BY <2>4, <1>1, <1>4, <1>5
  <2>6. QED
    BY <1>2, <1>4, <1>5, <2>1, <2>2, <2>3, <2>4, <2>5 DEF k
<1>6. CASE k > Len(heap[n].children)
  BY <1>2, <1>4, <1>6 DEF k
<1>7. QED
  BY <1>1, <1>4, <1>5, <1>6

\* A panic keeps Types.
LEMMA PanicTypes ==
    ASSUME Types, Panic
    PROVE  Types'
  BY DEF Types, Panic, PCs, cursor

\* DescendIndex keeps Types.
LEMMA DescendIndexTypes ==
    ASSUME Types, DescendIndex
    PROVE  Types'
<1>1. CASE Panic
  BY <1>1, PanicTypes
<1>2. CASE ~Panic
  <2>1. /\ HeapOK(heap') /\ DOMAIN heap' = DOMAIN heap /\ n' \in DOMAIN heap
        /\ pc' = "walk" /\ UNCHANGED <<arg, path, wildcard, answer, registered>>
    BY <1>2, DescendIndexIs
  <2>2. QED
    BY <2>1 DEF Types, PCs
<1>3. QED
  BY <1>1, <1>2

\* A node replaced and new nodes behind the others.
IsExtended(h, m, e, xs, g) ==
    /\ g \in Seq(Node) /\ Len(g) = Len(h) + Len(xs)
    /\ DOMAIN g = 1..(Len(h) + Len(xs))
    /\ g[m] = e
    /\ \A q \in DOMAIN h : q # m => g[q] = h[q]
    /\ \A k \in 1..Len(xs) : g[Len(h) + k] = xs[k]

\* A node replaced and new nodes appended make an extended heap.
LEMMA Extended ==
    ASSUME NEW h \in Seq(Node), NEW m \in DOMAIN h, NEW e \in Node,
           NEW xs \in Seq(Node)
    PROVE  IsExtended(h, m, e, xs, [h EXCEPT ![m] = e] \o xs)
<1> DEFINE a == [h EXCEPT ![m] = e]
<1>1. /\ a \in Seq(Node) /\ Len(a) = Len(h) /\ DOMAIN h = 1..Len(h)
      /\ Len(h) \in Nat /\ Len(xs) \in Nat
  BY Replaced, LenProperties
<1>2. a[m] = e /\ \A q \in DOMAIN h : q # m => a[q] = h[q]
  OBVIOUS
<1> HIDE DEF a
<1>3. /\ a \o xs \in Seq(Node) /\ Len(a \o xs) = Len(h) + Len(xs)
      /\ \A q \in 1..(Len(h) + Len(xs)) :
            (a \o xs)[q] = IF q <= Len(h) THEN a[q] ELSE xs[q - Len(h)]
  <2>1. /\ a \o xs \in Seq(Node) /\ Len(a \o xs) = Len(a) + Len(xs)
        /\ \A q \in 1..(Len(a) + Len(xs)) :
              (a \o xs)[q] = IF q <= Len(a) THEN a[q] ELSE xs[q - Len(a)]
    BY <1>1, ConcatProperties
  <2>2. QED
    BY <1>1, <2>1
<1>4. \A q \in DOMAIN h : (a \o xs)[q] = a[q]
  BY <1>1, <1>3
<1>5. ASSUME NEW k \in 1..Len(xs)
      PROVE  (a \o xs)[Len(h) + k] = xs[k]
  <2>1. \A l, x \in Nat : \A j \in 1..x :
          l + j \in 1..(l + x) /\ ~(l + j <= l) /\ (l + j) - l = j
    OBVIOUS
  <2>2. Len(h) + k \in 1..(Len(h) + Len(xs)) /\ ~(Len(h) + k <= Len(h))
           /\ (Len(h) + k) - Len(h) = k
    BY <1>1, <2>1
  <2>3. QED
    BY <1>3, <2>2
<1>6. DOMAIN (a \o xs) = 1..(Len(h) + Len(xs))
  BY <1>3, LenProperties
<1>7. QED
  BY <1>2, <1>3, <1>4, <1>5, <1>6 DEF IsExtended, a

\* An extended heap is well formed if the pointers of the new nodes and of the
\* replaced one are.
LEMMA ExtendedOK ==
    ASSUME NEW h, HeapOK(h), NEW m \in DOMAIN h, NEW e, NEW xs \in Seq(Node), NEW g,
           IsExtended(h, m, e, xs, g), e.nType = h[m].nType,
           \A q \in {m} \cup ((Len(h) + 1)..Len(g)) :
             /\ \A k \in DOMAIN g[q].children : g[q].children[k] \in 2..Len(g)
             /\ g[q].wildChild =>
                  /\ Len(g[q].children) = 1
                  /\ g[g[q].children[1]].nType \in {"param", "catchAll"}
    PROVE  HeapOK(g)
<1>1. /\ h \in Seq(Node) /\ Len(h) \in Nat /\ DOMAIN h = 1..Len(h) /\ h # <<>>
      /\ Len(xs) \in Nat /\ g \in Seq(Node) /\ Len(g) = Len(h) + Len(xs)
      /\ DOMAIN g = 1..Len(g) /\ Len(g) \in Nat
      /\ \A q \in DOMAIN h : q # m => g[q] = h[q]
      /\ g[m] = e
  BY Nodes, LenProperties DEF HeapOK, IsExtended
<1>2. Len(h) >= 1
  BY <1>1, EmptySeq
<1>3. g # <<>>
  BY <1>1, <1>2, EmptySeq
<1>4. \A q \in DOMAIN h : g[q].nType = h[q].nType
  BY <1>1
<1>5. ASSUME NEW q \in DOMAIN g
      PROVE  /\ \A k \in DOMAIN g[q].children : g[q].children[k] \in 2..Len(g)
             /\ g[q].wildChild =>
                  /\ Len(g[q].children) = 1
                  /\ g[g[q].children[1]].nType \in {"param", "catchAll"}
  <2>1. CASE q \in {m} \cup ((Len(h) + 1)..Len(g))
    BY <2>1
  <2>2. CASE q \in DOMAIN h /\ q # m
    <3>1. g[q] = h[q]
      BY <1>1, <2>2
    <3>2. \A k \in DOMAIN h[q].children : h[q].children[k] \in 2..Len(h)
      BY <2>2 DEF HeapOK, Pointers
    <3>3. \A x \in 2..Len(h) : x \in 2..Len(g) /\ x \in DOMAIN h
      BY <1>1
    <3>4. ASSUME g[q].wildChild
          PROVE  /\ Len(g[q].children) = 1
                 /\ g[g[q].children[1]].nType \in {"param", "catchAll"}
      <4>1. /\ Len(h[q].children) = 1
            /\ h[h[q].children[1]].nType \in {"param", "catchAll"}
        BY <2>2, <3>1, <3>4 DEF HeapOK, Pointers
      <4>2. 1 \in DOMAIN h[q].children
        BY <4>1, <2>2, <1>1, Nodes
      <4>3. h[q].children[1] \in DOMAIN h
        BY <3>2, <3>3, <4>2
      <4>4. QED
        BY <3>1, <4>1, <4>3, <1>4
    <3>5. \A k \in DOMAIN g[q].children : g[q].children[k] \in 2..Len(g)
      BY <3>1, <3>2, <3>3
    <3>6. QED
      BY <3>4, <3>5
  <2>3. q \in DOMAIN h \/ q \in (Len(h) + 1)..Len(g)
    BY <1>1
  <2>4. QED
    BY <2>1, <2>2, <2>3
<1>6. QED
  BY <1>1, <1>3, <1>5 DEF HeapOK, Pointers

\* The zero node.
LEMMA FreshNode ==
    /\ routerNode \in Node /\ routerNode.children = <<>> /\ routerNode.wildChild = FALSE
    /\ routerNode.path = <<>> /\ routerNode.handle = NoHandle
    /\ routerNode.nType = "static" /\ routerNode.maxParams = 0
    /\ routerNode.priority = 0 /\ routerNode.indices = <<>>
  BY EmptySeq DEF routerNode, Node, NTypes, NoHandle

\* AddChild.
Grown(x, a, b) == [x EXCEPT !.indices = a, !.children = b]

Newborn == [routerNode EXCEPT !.maxParams = wildcard]
Parent  == [heap[n] EXCEPT !.indices = Append(@, path[1]),
                           !.children = Append(@, Len(heap) + 1)]
Added   == [heap EXCEPT ![n] = Parent] \o <<Newborn>>

\* The heap AddChild makes before it sorts the children.
LEMMA AddedIs ==
    ASSUME Types, ~heap[n].wildChild, path # <<>>
    PROVE  /\ IsExtended(heap, n, Parent, <<Newborn>>, Added)
           /\ HeapOK(Added)
           /\ Added = [Append(heap, Newborn) EXCEPT
                         ![n].indices = Append(@, path[1]),
                         ![n].children = Append(@, Len(heap) + 1)]
           /\ Parent.path = heap[n].path /\ Parent.handle = heap[n].handle
           /\ Parent.wildChild = FALSE /\ Parent.nType = heap[n].nType
           /\ Parent.maxParams = heap[n].maxParams
           /\ Parent.children = Append(heap[n].children, Len(heap) + 1)
           /\ Parent.indices = Append(heap[n].indices, path[1])
           /\ Newborn.path = <<>> /\ Newborn.handle = NoHandle
           /\ Newborn.wildChild = FALSE /\ Newborn.children = <<>>
           /\ Newborn.nType = "static" /\ Newborn.maxParams = wildcard
           /\ Newborn.indices = <<>>
           /\ Parent \in Node /\ Newborn \in Node
<1>1. /\ HeapOK(heap) /\ heap \in Seq(Node) /\ n \in DOMAIN heap
      /\ heap[n] \in Node /\ DOMAIN heap = 1..Len(heap) /\ Len(heap) \in Nat
      /\ heap[n].children \in Seq(Nat) /\ heap[n].indices \in Seq(Bytes)
  BY Nodes DEF Types, HeapOK
<1>2. path[1] \in Bytes
  <2>1. path \in Seq(Bytes) /\ Len(path) \in Nat \ {0}
    BY EmptySeq DEF Types
  <2>2. 1 \in 1..Len(path)
    BY <2>1
  <2>3. QED
    BY <2>1, <2>2, ElementOfSeq
<1>3. /\ Newborn \in Node /\ Newborn.path = <<>> /\ Newborn.handle = NoHandle
      /\ Newborn.wildChild = FALSE /\ Newborn.children = <<>>
      /\ Newborn.nType = "static" /\ Newborn.maxParams = wildcard
      /\ Newborn.indices = <<>>
  <2>1. \A y \in Node : \A w \in 0..255 :
          LET z == [y EXCEPT !.maxParams = w]
          IN  /\ z \in Node /\ z.path = y.path /\ z.handle = y.handle
              /\ z.wildChild = y.wildChild /\ z.children = y.children
              /\ z.nType = y.nType /\ z.maxParams = w /\ z.indices = y.indices
    BY DEF Node
  <2>2. wildcard \in 0..255
    BY DEF Types
  <2>3. QED
    BY <2>1, <2>2, FreshNode, ZenonT(60) DEF Newborn
<1>4. /\ Parent \in Node /\ Parent.path = heap[n].path
      /\ Parent.handle = heap[n].handle
      /\ Parent.wildChild = heap[n].wildChild /\ Parent.nType = heap[n].nType
      /\ Parent.maxParams = heap[n].maxParams
      /\ Parent.children = Append(heap[n].children, Len(heap) + 1)
      /\ Parent.indices = Append(heap[n].indices, path[1])
  <2>1. \A y \in Node : \A a \in Seq(Bytes) : \A b \in Seq(Nat) :
          Grown(y, a, b) \in Node
    BY DEF Node, Grown
  <2>2. \A y \in Node : \A a \in Seq(Bytes) : \A b \in Seq(Nat) :
          /\ Grown(y, a, b).path = y.path /\ Grown(y, a, b).handle = y.handle
          /\ Grown(y, a, b).wildChild = y.wildChild
          /\ Grown(y, a, b).children = b /\ Grown(y, a, b).nType = y.nType
          /\ Grown(y, a, b).maxParams = y.maxParams /\ Grown(y, a, b).indices = a
    BY DEF Node, Grown
  <2>3. Parent = Grown(heap[n], Append(heap[n].indices, path[1]),
                       Append(heap[n].children, Len(heap) + 1))
    BY <1>1 DEF Parent, Grown
  <2>4. /\ Append(heap[n].indices, path[1]) \in Seq(Bytes)
        /\ Append(heap[n].children, Len(heap) + 1) \in Seq(Nat)
    BY <1>1, <1>2
  <2>5. PICK a \in Seq(Bytes), b \in Seq(Nat) :
          /\ a = Append(heap[n].indices, path[1])
          /\ b = Append(heap[n].children, Len(heap) + 1)
    BY <2>4
  <2>6. Parent \in Node
    BY <1>1, <2>1, <2>3, <2>5
  <2>7. QED
    <3> HIDE DEF Parent
    <3>1. Parent = Grown(heap[n], a, b)
      BY <2>3, <2>5
    <3>2. /\ Parent.path = heap[n].path /\ Parent.handle = heap[n].handle
          /\ Parent.wildChild = heap[n].wildChild /\ Parent.nType = heap[n].nType
          /\ Parent.maxParams = heap[n].maxParams
          /\ Parent.children = b /\ Parent.indices = a
      BY <1>1, <2>2, <3>1
    <3>3. QED
      BY <2>5, <2>6, <3>2
<1>5. IsExtended(heap, n, Parent, <<Newborn>>, Added)
  <2>1. <<Newborn>> \in Seq(Node)
    BY <1>3
  <2>2. QED
    BY <2>1, <1>1, <1>4, Extended DEF Added
<1>6. HeapOK(Added)
  <2>1. Len(<<Newborn>>) = 1 /\ <<Newborn>> \in Seq(Node) /\ <<Newborn>>[1] = Newborn
    BY <1>3
  <2>2. /\ Len(Added) = Len(heap) + 1 /\ Added[n] = Parent
        /\ Added[Len(heap) + 1] = Newborn
    BY <2>1, <1>5, <1>1 DEF IsExtended
  <2>3. \A k \in DOMAIN Parent.children : Parent.children[k] \in 2..Len(Added)
    <3>1. \A k \in DOMAIN heap[n].children : heap[n].children[k] \in 2..Len(heap)
      BY <1>1 DEF HeapOK, Pointers
    <3>2. Len(heap) >= 1
      BY <1>1
    <3>3. \A s \in Seq(Nat) : \A x \in Nat : \A k \in DOMAIN Append(s, x) :
            (k \in DOMAIN s /\ Append(s, x)[k] = s[k]) \/ Append(s, x)[k] = x
      OBVIOUS
    <3>4. \A k \in DOMAIN Parent.children :
             \/ k \in DOMAIN heap[n].children /\ Parent.children[k] = heap[n].children[k]
             \/ Parent.children[k] = Len(heap) + 1
      BY <3>3, <1>1, <1>4
    <3>5. Len(heap) + 1 \in 2..Len(Added) /\ \A x \in 2..Len(heap) : x \in 2..Len(Added)
      BY <3>2, <2>2, <1>1
    <3>6. QED
      BY <3>1, <3>4, <3>5
  <2>4. DOMAIN Newborn.children = {}
    BY <1>3
  <2>5. (Len(heap) + 1)..Len(Added) = {Len(heap) + 1}
    BY <2>2, <1>1
  <2>6. \A q \in {n} \cup ((Len(heap) + 1)..Len(Added)) :
             /\ \A k \in DOMAIN Added[q].children : Added[q].children[k] \in 2..Len(Added)
             /\ Added[q].wildChild = FALSE
    <3>1. heap[n].wildChild = FALSE
      BY <1>1, Nodes
    <3>2. \A q \in {n} \cup ((Len(heap) + 1)..Len(Added)) :
             Added[q] = Parent \/ Added[q] = Newborn
      BY <2>2, <2>5
    <3>3. QED
      BY <3>1, <3>2, <2>3, <2>4, <1>3, <1>4
  <2>7. QED
    BY <2>1, <2>6, <1>1, <1>4, <1>5, ExtendedOK
<1>7. Added = [Append(heap, Newborn) EXCEPT
                 ![n].indices = Append(@, path[1]),
                 ![n].children = Append(@, Len(heap) + 1)]
  <2> DEFINE b == Append(heap, Newborn)
             c == [b EXCEPT ![n] = Parent]
  <2>1. /\ b \in Seq(Node) /\ Len(b) = Len(heap) + 1 /\ DOMAIN b = 1..(Len(heap) + 1)
        /\ b[Len(heap) + 1] = Newborn /\ \A q \in DOMAIN heap : b[q] = heap[q]
    BY <1>1, <1>3
  <2>2. c = [b EXCEPT ![n].indices = Append(@, path[1]),
                      ![n].children = Append(@, Len(heap) + 1)]
    BY <1>1, <2>1 DEF Parent
  <2> HIDE DEF b
  <2>3. c \in Seq(Node) /\ Len(c) = Len(heap) + 1
    BY <1>1, <1>4, <2>1, Replaced
  <2>4. \A q \in 1..(Len(heap) + 1) : c[q] = Added[q]
    <3>1. Len(<<Newborn>>) = 1 /\ <<Newborn>>[1] = Newborn
      OBVIOUS
    <3>2. \A q \in 1..(Len(heap) + 1) : q \in DOMAIN heap \/ q = Len(heap) + 1
      BY <1>1
    <3>3. Added[Len(heap) + 1] = Newborn
      BY <3>1, <1>5 DEF IsExtended
    <3>4. QED
      BY <3>2, <3>3, <2>1, <1>1, <1>5 DEF IsExtended
  <2>5. Added \in Seq(Node) /\ Len(Added) = Len(heap) + 1
    BY <1>5 DEF IsExtended
  <2> HIDE DEF c
  <2>6. c = Added
    BY <2>3, <2>4, <2>5, SeqEqual
  <2>7. QED
    BY <2>2, <2>6 DEF b
<1>8. heap[n].wildChild = FALSE
  BY <1>1, Nodes
<1>9. QED
  BY <1>3, <1>4, <1>5, <1>6, <1>7, <1>8

\* What AddChild does: a wildcard is left to insertChild, a missing child for
\* the last index byte panics, and a literal byte gets a new node.
LEMMA AddChildIs ==
    ASSUME Types, AddChild
    PROVE  /\ pc = "descend" /\ ~heap[n].wildChild /\ path # <<>>
           /\ UNCHANGED <<arg, path, wildcard, answer, registered>>
           /\ \/ /\ IsWild(path[1]) /\ pc' = "insert" /\ heap' = heap /\ n' = n
              \/ /\ ~IsWild(path[1]) /\ pc' = "panic" /\ heap' = Added /\ n' = n
                 /\ Len(Added[n].indices) > Len(Added[n].children)
              \/ /\ ~IsWild(path[1]) /\ pc' = "insert"
                 /\ SameNodes(Added, heap') /\ HeapOK(heap')
                 /\ heap' = incrementChildPrio(Added, n, Len(Parent.indices))
                 /\ Len(Parent.indices) <= Len(Parent.children)
                 /\ n' = Len(heap) + 1 /\ Len(heap') = Len(heap) + 1
<1> DEFINE h == [Append(heap, Newborn) EXCEPT
                  ![n].indices = Append(@, path[1]),
                  ![n].children = Append(@, Len(heap) + 1)]
           last == Len(h[n].indices)
<1>1. /\ pc = "descend" /\ ~heap[n].wildChild /\ path # <<>>
      /\ UNCHANGED <<arg, path, wildcard, answer, registered>>
      /\ IF IsWild(path[1])
             THEN pc' = "insert" /\ UNCHANGED <<heap, n>>
             ELSE IF last > Len(h[n].children)
             THEN pc' = "panic" /\ heap' = h /\ UNCHANGED n
             ELSE /\ pc' = "insert"
                  /\ heap' = incrementChildPrio(h, n, last)
                  /\ n' = Len(h)
  BY DEF AddChild, AtByte, Newborn
<1>2. /\ h = Added /\ HeapOK(Added) /\ IsExtended(heap, n, Parent, <<Newborn>>, Added)
      /\ Parent.indices = Append(heap[n].indices, path[1]) /\ Parent \in Node
  BY <1>1, AddedIs
<1> HIDE DEF h
<1>3. Added[n] = Parent /\ Len(Added) = Len(heap) + 1 /\ n \in DOMAIN Added
  <2>1. /\ Len(<<Newborn>>) = 1 /\ n \in DOMAIN heap /\ DOMAIN heap = 1..Len(heap)
        /\ Len(heap) \in Nat
    BY Nodes DEF Types, HeapOK
  <2>2. QED
    BY <2>1, <1>2 DEF IsExtended
<1>4. last = Len(Parent.indices) /\ last \in Nat \ {0} /\ Len(Parent.children) \in Nat
  <2>1. heap[n].indices \in Seq(Bytes)
    BY Nodes DEF Types, HeapOK
  <2>2. Len(Append(heap[n].indices, path[1])) \in Nat \ {0}
    BY <2>1
  <2>3. Len(Parent.children) \in Nat
    BY <1>2, LenProperties DEF Node
  <2>4. QED
    BY <2>2, <2>3, <1>2, <1>3
<1>5. CASE IsWild(path[1])
  BY <1>1, <1>5
<1>6. CASE ~IsWild(path[1]) /\ last > Len(Parent.children)
  BY <1>1, <1>2, <1>3, <1>4, <1>6
<1>7. CASE ~IsWild(path[1]) /\ ~(last > Len(Parent.children))
  <2>1. /\ pc' = "insert" /\ heap' = incrementChildPrio(Added, n, last)
        /\ n' = Len(heap) + 1
    BY <1>1, <1>2, <1>3, <1>7
  <2>2. last <= Len(Added[n].children) /\ last <= Len(Added[n].indices)
    BY <1>3, <1>4, <1>7
  <2>3. SameNodes(Added, heap')
    <3> HIDE DEF last
    <3>1. QED
      BY <1>2, <1>3, <1>4, <2>1, <2>2, IncrementKeeps
  <2>4. HeapOK(heap') /\ Len(heap') = Len(heap) + 1
    BY <1>2, <1>3, <2>3, SameNodesOK DEF SameNodes
  <2> HIDE DEF last
  <2>5. QED
    BY <1>1, <1>3, <1>4, <1>7, <2>1, <2>2, <2>3, <2>4
<1>8. QED
  BY <1>5, <1>6, <1>7

\* AddChild keeps Types.
LEMMA AddChildTypes ==
    ASSUME Types, AddChild
    PROVE  Types'
<1>1. UNCHANGED <<arg, path, wildcard, registered>> /\ pc' \in PCs
  BY AddChildIs DEF PCs
<1>2. HeapOK(heap') /\ n' \in DOMAIN heap'
  <2>1. CASE heap' = heap /\ n' = n
    BY <2>1 DEF Types
  <2>2. CASE heap' = Added /\ n' = n
    <3>1. HeapOK(Added) /\ IsExtended(heap, n, Parent, <<Newborn>>, Added)
      BY AddChildIs, AddedIs
    <3>2. n \in DOMAIN Added
      <4>1. /\ Len(<<Newborn>>) = 1 /\ n \in DOMAIN heap /\ DOMAIN heap = 1..Len(heap)
            /\ Len(heap) \in Nat
        BY Nodes DEF Types, HeapOK
      <4>2. QED
        BY <4>1, <3>1 DEF IsExtended
    <3>3. QED
      BY <2>2, <3>1, <3>2
  <2>3. CASE HeapOK(heap') /\ n' = Len(heap) + 1 /\ Len(heap') = Len(heap) + 1
    <3>1. Len(heap) \in Nat /\ DOMAIN heap' = 1..Len(heap')
      BY <2>3, Nodes DEF Types, HeapOK
    <3>2. QED
      BY <2>3, <3>1
  <2>4. QED
    BY <2>1, <2>2, <2>3, AddChildIs
<1>3. QED
  BY <1>1, <1>2 DEF Types

-----------------------------------------------------------------------------
(* insertChild.                                                            *)

\* A segment ends at the first slash or behind the path.
LEMMA SegmentEndIs ==
    ASSUME NEW s \in Seq(Bytes), NEW k \in Nat \ {0}, k <= Len(s) + 1
    PROVE  /\ SegmentEnd(s, k) \in k..(Len(s) + 1)
           /\ \A j \in k..(SegmentEnd(s, k) - 1) : s[j] # "/"
           /\ SegmentEnd(s, k) <= Len(s) => s[SegmentEnd(s, k)] = "/"
<1> DEFINE I == {j \in k..Len(s) : s[j] = "/"}
<1>1. Len(s) \in Nat
  BY LenProperties
<1>2. SegmentEnd(s, k) = IF I # {} THEN IF Min(I) = 0 THEN Len(s) + 1 ELSE Min(I)
                                   ELSE Len(s) + 1
  BY DEF SegmentEnd, SelectInSubSeq
<1>3. CASE I = {}
  <2>1. SegmentEnd(s, k) = Len(s) + 1
    BY <1>2, <1>3
  <2>2. \A j \in k..Len(s) : s[j] # "/"
    BY <1>3
  <2>3. QED
    BY <1>1, <2>1, <2>2
<1>4. CASE I # {}
  <2>1. I \in SUBSET Nat
    BY <1>1
  <2>2. Min(I) \in I /\ \A y \in I : Min(I) <= y
    <3> HIDE DEF I
    <3>1. QED
      BY <2>1, <1>4, MinIsLeast
  <2>3. PICK f \in I : f = Min(I) /\ \A y \in I : f <= y
    BY <2>2
  <2>4. f \in k..Len(s) /\ s[f] = "/" /\ f # 0
    BY <1>1
  <2>5. SegmentEnd(s, k) = f
    BY <1>2, <1>4, <2>3, <2>4
  <2>6. \A j \in k..(f - 1) : s[j] # "/"
    BY <2>3, <2>4, <1>1
  <2>7. QED
    BY <1>1, <2>4, <2>5, <2>6
<1>5. QED
  BY <1>3, <1>4

\* WildAt is the first wildcard, NameEnd the end of its segment, not empty.
LEMMA WildAtIs ==
    ASSUME path \in Seq(Bytes)
    PROVE  /\ WildAt \in 0..Len(path)
           /\ WildAt = 0 <=> \A k \in DOMAIN path : ~IsWild(path[k])
           /\ WildAt # 0 =>
                /\ IsWild(path[WildAt])
                /\ \A k \in 1..(WildAt - 1) : ~IsWild(path[k])
                /\ NameEnd \in (WildAt + 1)..(Len(path) + 1)
                /\ \A j \in WildAt..(NameEnd - 1) : path[j] # "/"
                /\ NameEnd <= Len(path) => path[NameEnd] = "/"
<1> DEFINE I == {k \in 1..Len(path) : IsWild(path[k])}
<1>1. Len(path) \in Nat /\ DOMAIN path = 1..Len(path)
  BY LenProperties
<1>2. WildAt = IF I # {} THEN Min(I) ELSE 0
  BY DEF WildAt, SelectInSeq
<1>3. CASE I = {}
  BY <1>1, <1>2, <1>3
<1>4. CASE I # {}
  <2>1. I \in SUBSET Nat
    OBVIOUS
  <2>2. Min(I) \in I /\ \A y \in I : Min(I) <= y
    <3> HIDE DEF I
    <3>1. QED
      BY <2>1, <1>4, MinIsLeast
  <2>3. PICK f \in I : f = WildAt /\ \A y \in I : f <= y
    BY <1>2, <1>4, <2>2
  <2>4. f \in 1..Len(path) /\ IsWild(path[f])
    OBVIOUS
  <2>5. \A k \in 1..(f - 1) : ~IsWild(path[k])
    BY <2>3, <2>4, <1>1
  <2>6. PICK e : e = NameEnd
    OBVIOUS
  <2>7. /\ e \in f..(Len(path) + 1)
        /\ \A j \in f..(e - 1) : path[j] # "/"
        /\ e <= Len(path) => path[e] = "/"
    <3>1. f \in Nat \ {0} /\ f <= Len(path) + 1 /\ e = SegmentEnd(path, f)
      BY <2>3, <2>4, <2>6, <1>1 DEF NameEnd
    <3>2. QED
      BY <3>1, SegmentEndIs
  <2>8. e # f
    BY <2>4, <2>7, <1>1 DEF IsWild
  <2>9. /\ WildAt = f /\ NameEnd = e
    BY <2>3, <2>6
  <2>10. f \in 0..Len(path) /\ f # 0 /\ e \in (f + 1)..(Len(path) + 1)
    BY <2>4, <2>7, <2>8, <1>1
  <2>11. ~ \A k \in DOMAIN path : ~IsWild(path[k])
    BY <2>4, <1>1
  <2>12. QED
    BY <2>4, <2>5, <2>7, <2>9, <2>10, <2>11
<1>5. QED
  BY <1>3, <1>4

\* What InsertLeaf does.
LEMMA InsertLeafIs ==
    ASSUME Types, InsertLeaf
    PROVE  /\ heap' = [heap EXCEPT ![n] = Refilled(heap[n], path, arg)]
           /\ HeapOK(heap') /\ DOMAIN heap' = DOMAIN heap
           /\ registered' = Append(registered, arg)
           /\ pc' = "register" /\ pc = "insert" /\ wildcard = 0
           /\ UNCHANGED <<arg, cursor, answer>>
<1>1. /\ HeapOK(heap) /\ heap[n] \in Node /\ n \in DOMAIN heap
      /\ arg \in Seq(Bytes) /\ path \in Seq(Bytes)
  BY Nodes DEF Types, HeapOK
<1>2. heap' = [heap EXCEPT ![n] = Refilled(heap[n], path, arg)]
  BY <1>1 DEF InsertLeaf, Refilled
<1>3. HeapOK(heap') /\ DOMAIN heap' = DOMAIN heap
  BY <1>1, <1>2, RefilledNode
<1>4. QED
  BY <1>2, <1>3 DEF InsertLeaf, Registered

\* InsertLeaf keeps Types.
LEMMA InsertLeafTypes ==
    ASSUME Types, InsertLeaf
    PROVE  Types'
<1>1. registered' \in Seq(Seq(Bytes))
  <2>1. registered \in Seq(Seq(Bytes)) /\ arg \in Seq(Bytes)
    BY DEF Types
  <2>2. registered' = Append(registered, arg)
    BY InsertLeafIs
  <2>3. QED
    BY <2>1, <2>2
<1>2. QED
  BY <1>1, InsertLeafIs DEF Types, PCs, cursor

\* The nodes of InsertParam.
Bent ==
    [heap[n] EXCEPT !.children = <<Len(heap) + 1>>, !.wildChild = TRUE,
                    !.path = IF WildAt > 1 THEN SubSeq(path, 1, WildAt - 1) ELSE @]
ParamNode == [routerNode EXCEPT !.nType = "param", !.maxParams = wildcard,
                                !.priority = 1]
NamedNode == [ParamNode EXCEPT !.path = SubSeq(path, WildAt, NameEnd - 1),
                               !.children = <<Len(heap) + 2>>]
RestNode  == [routerNode EXCEPT !.maxParams = wildcard - 1, !.priority = 1]

Turned(y, c, q) == [y EXCEPT !.children = c, !.wildChild = TRUE, !.path = q]

\* The fields of a node that got a wildcard child.
LEMMA TurnedNode ==
    ASSUME NEW y \in Node, NEW c \in Seq(Nat), NEW q \in Seq(Bytes)
    PROVE  /\ Turned(y, c, q) \in Node
           /\ Turned(y, c, q).children = c
           /\ Turned(y, c, q).wildChild = TRUE
           /\ Turned(y, c, q).path = q
           /\ Turned(y, c, q).handle = y.handle
           /\ Turned(y, c, q).nType = y.nType
           /\ Turned(y, c, q).maxParams = y.maxParams
           /\ Turned(y, c, q).indices = y.indices
<1>1. Turned(y, c, q) \in Node
  <2>1. \A w \in BOOLEAN : [y EXCEPT !.children = c, !.wildChild = w, !.path = q] \in Node
    BY DEF Node
  <2>2. PICK w \in BOOLEAN : w = TRUE
    OBVIOUS
  <2>3. Turned(y, c, q) = [y EXCEPT !.children = c, !.wildChild = w, !.path = q]
    BY <2>2 DEF Turned
  <2>4. QED
    BY <2>1, <2>3
<1>2. QED
  BY <1>1 DEF Node, Turned

\* The three kinds of changes made to a new node.
Sized(y, k, o)     == [y EXCEPT !.maxParams = k, !.priority = o]
Typed(y, t, k, o)  == [y EXCEPT !.nType = t, !.maxParams = k, !.priority = o]
Named(y, p, cs)    == [y EXCEPT !.path = p, !.children = cs]

\* The nodes InsertParam makes are nodes.
LEMMA MadeNodes ==
    ASSUME NEW y \in Node, NEW k \in 0..255, NEW o \in Int
    PROVE  /\ Sized(y, k, o) \in Node
           /\ \A t \in NTypes : Typed(y, t, k, o) \in Node
<1>1. Sized(y, k, o) \in Node
  BY DEF Node, Sized
<1>2. \A t \in NTypes : Typed(y, t, k, o) \in Node
  BY DEF Node, Typed
<1>3. QED
  BY <1>1, <1>2

\* The fields of a parameter node with its name.
LEMMA NamedIs ==
    ASSUME NEW y \in Node, NEW p \in Seq(Bytes), NEW cs \in Seq(Nat)
    PROVE  /\ Named(y, p, cs) \in Node
           /\ Named(y, p, cs).path = p /\ Named(y, p, cs).children = cs
           /\ Named(y, p, cs).handle = y.handle /\ Named(y, p, cs).nType = y.nType
           /\ Named(y, p, cs).wildChild = y.wildChild
           /\ Named(y, p, cs).maxParams = y.maxParams
           /\ Named(y, p, cs).indices = y.indices
<1>1. Named(y, p, cs) \in Node
  BY DEF Node, Named
<1>2. QED
  BY <1>1 DEF Node, Named

\* The fields of the node InsertParam hangs the parameter on.
LEMMA BentIs ==
    ASSUME Types, WildAt # 0
    PROVE  /\ Bent \in Node /\ Bent.children = <<Len(heap) + 1>> /\ Bent.wildChild
           /\ Bent.path = IF WildAt > 1 THEN SubSeq(path, 1, WildAt - 1)
                          ELSE heap[n].path
           /\ Bent.handle = heap[n].handle /\ Bent.nType = heap[n].nType
           /\ Bent.maxParams = heap[n].maxParams /\ Bent.indices = heap[n].indices
<1>1. heap[n] \in Node /\ Len(heap) \in Nat /\ path \in Seq(Bytes)
  BY Nodes DEF Types, HeapOK
<1>2. PICK p : p = IF WildAt > 1 THEN SubSeq(path, 1, WildAt - 1) ELSE heap[n].path
  OBVIOUS
<1>3. p \in Seq(Bytes)
  <2>1. WildAt \in 1..Len(path) /\ Len(path) \in Nat
    BY <1>1, WildAtIs, LenProperties
  <2>2. WildAt - 1 \in 0..Len(path)
    BY <2>1
  <2>3. SubSeq(path, 1, WildAt - 1) \in Seq(Bytes)
    BY <1>1, <2>2, Cut
  <2>4. heap[n].path \in Seq(Bytes)
    BY <1>1 DEF Node
  <2>5. QED
    BY <1>2, <2>3, <2>4
<1>4. PICK ks : ks = <<Len(heap) + 1>>
  OBVIOUS
<1>5. ks \in Seq(Nat)
  BY <1>1, <1>4
<1>6. Bent = Turned(heap[n], ks, p)
  BY <1>2, <1>4 DEF Bent, Turned
<1>7. /\ Bent \in Node
      /\ Bent.children = ks /\ Bent.wildChild = TRUE /\ Bent.path = p
      /\ Bent.handle = heap[n].handle /\ Bent.nType = heap[n].nType
      /\ Bent.maxParams = heap[n].maxParams /\ Bent.indices = heap[n].indices
  <2>1. PICK y \in Node : y = heap[n]
    BY <1>1
  <2>2. Bent = Turned(y, ks, p)
    BY <1>6, <2>1
  <2>3. /\ Turned(y, ks, p) \in Node
        /\ Turned(y, ks, p).children = ks
        /\ Turned(y, ks, p).wildChild = TRUE
        /\ Turned(y, ks, p).path = p
        /\ Turned(y, ks, p).handle = y.handle
        /\ Turned(y, ks, p).nType = y.nType
        /\ Turned(y, ks, p).maxParams = y.maxParams
        /\ Turned(y, ks, p).indices = y.indices
    BY <1>3, <1>5, TurnedNode
  <2>4. QED
    BY <2>1, <2>2, <2>3
<1>8. QED
  BY <1>2, <1>4, <1>7

\* The fields of the nodes InsertParam adds.
LEMMA ParamNodesAre ==
    ASSUME Types, WildAt # 0, wildcard > 0
    PROVE  /\ ParamNode \in Node /\ ParamNode.path = <<>> /\ ParamNode.handle = NoHandle
           /\ ParamNode.nType = "param" /\ ParamNode.children = <<>>
           /\ ParamNode.wildChild = FALSE /\ ParamNode.maxParams = wildcard
           /\ ParamNode.indices = <<>>
           /\ NamedNode \in Node /\ NamedNode.path = SubSeq(path, WildAt, NameEnd - 1)
           /\ NamedNode.handle = NoHandle /\ NamedNode.nType = "param"
           /\ NamedNode.children = <<Len(heap) + 2>>
           /\ NamedNode.wildChild = FALSE /\ NamedNode.maxParams = wildcard
           /\ NamedNode.indices = <<>>
           /\ RestNode \in Node /\ RestNode.path = <<>> /\ RestNode.handle = NoHandle
           /\ RestNode.nType = "static" /\ RestNode.children = <<>>
           /\ RestNode.wildChild = FALSE /\ RestNode.maxParams = wildcard - 1
           /\ RestNode.indices = <<>>
<1>1. Len(heap) \in Nat /\ path \in Seq(Bytes) /\ wildcard \in 1..255 /\ Len(path) \in Nat
  BY Nodes, LenProperties DEF Types, HeapOK
<1>2. /\ wildcard \in 0..255 /\ wildcard - 1 \in 0..255
      /\ "param" \in NTypes /\ "static" \in NTypes
      /\ <<>> \in Seq(Bytes) /\ <<>> \in Seq(Nat)
  BY <1>1, EmptySeq DEF NTypes
<1>3. PICK p : p = SubSeq(path, WildAt, NameEnd - 1)
  OBVIOUS
<1>4. p \in Seq(Bytes)
  <2>1. WildAt \in 1..Len(path) /\ NameEnd \in (WildAt + 1)..(Len(path) + 1)
    BY <1>1, WildAtIs
  <2>2. \A k \in WildAt..(NameEnd - 1) : path[k] \in Bytes
    <3>1. \A k \in WildAt..(NameEnd - 1) : k \in 1..Len(path)
      BY <1>1, <2>1
    <3>2. QED
      BY <1>1, <3>1, ElementOfSeq
  <2>3. WildAt \in Int /\ NameEnd - 1 \in Int
    BY <2>1, <1>1
  <2>4. QED
    BY <2>2, <2>3, <1>3, SubSeqProperties
<1>5. PICK ks : ks = <<Len(heap) + 2>>
  OBVIOUS
<1>6. ks \in Seq(Nat)
  BY <1>1, <1>5
<1>7. /\ ParamNode \in Node /\ RestNode \in Node
  <2>1. PICK o \in Int : o = 1
    OBVIOUS
  <2>2. /\ ParamNode = Typed(routerNode, "param", wildcard, o)
        /\ RestNode = Sized(routerNode, wildcard - 1, o)
    BY <2>1 DEF ParamNode, RestNode, Typed, Sized
  <2>3. QED
    BY <1>2, <2>2, FreshNode, MadeNodes
<1>8. /\ ParamNode \in Node /\ ParamNode.path = <<>> /\ ParamNode.handle = <<>>
      /\ ParamNode.nType = "param" /\ ParamNode.children = <<>>
      /\ ParamNode.wildChild = FALSE /\ ParamNode.maxParams = wildcard
      /\ ParamNode.indices = <<>>
  BY <1>7 DEF ParamNode, routerNode, NoHandle
<1>9. /\ NamedNode \in Node /\ NamedNode.path = p /\ NamedNode.handle = <<>>
      /\ NamedNode.nType = "param" /\ NamedNode.children = ks
      /\ NamedNode.wildChild = FALSE /\ NamedNode.maxParams = wildcard
      /\ NamedNode.indices = <<>>
  <2>1. NamedNode = Named(ParamNode, p, ks)
    BY <1>3, <1>5 DEF NamedNode, Named
  <2>2. PICK y \in Node : y = ParamNode
    BY <1>7
  <2>3. /\ Named(y, p, ks) \in Node
        /\ Named(y, p, ks).path = p /\ Named(y, p, ks).children = ks
        /\ Named(y, p, ks).handle = y.handle /\ Named(y, p, ks).nType = y.nType
        /\ Named(y, p, ks).wildChild = y.wildChild
        /\ Named(y, p, ks).maxParams = y.maxParams
        /\ Named(y, p, ks).indices = y.indices
    BY <1>4, <1>6, NamedIs
  <2>4. QED
    BY <1>8, <2>1, <2>2, <2>3
<1>10. /\ RestNode \in Node /\ RestNode.path = <<>> /\ RestNode.handle = <<>>
       /\ RestNode.nType = "static" /\ RestNode.children = <<>>
       /\ RestNode.wildChild = FALSE /\ RestNode.maxParams = wildcard - 1
       /\ RestNode.indices = <<>>
  BY <1>7 DEF RestNode, routerNode, NoHandle
<1>11. QED
  BY <1>3, <1>5, <1>8, <1>9, <1>10 DEF NoHandle

\* The heap after a parameter, whose path goes on after the name or not.
LEMMA InsertParamIs ==
    ASSUME Types, InsertParam
    PROVE  /\ AtWild /\ WildAt # 0 /\ ~BadWild /\ path[WildAt] = ":"
           /\ heap[n].children = <<>> /\ pc' = "scan"
           /\ wildcard' = wildcard - 1 /\ wildcard > 0
           /\ path' = Drop(path, NameEnd - 1) /\ path' \in Seq(Bytes)
           /\ \/ /\ NameEnd > Len(path) /\ n' = Len(heap) + 1
                 /\ IsExtended(heap, n, Bent, <<ParamNode>>, heap')
                 /\ Len(heap') = Len(heap) + 1
                 /\ heap'[n] = Bent /\ heap'[Len(heap) + 1] = ParamNode
              \/ /\ NameEnd <= Len(path) /\ n' = Len(heap) + 2
                 /\ IsExtended(heap, n, Bent, <<NamedNode, RestNode>>, heap')
                 /\ Len(heap') = Len(heap) + 2
                 /\ heap'[n] = Bent /\ heap'[Len(heap) + 1] = NamedNode
                 /\ heap'[Len(heap) + 2] = RestNode
           /\ UNCHANGED <<arg, answer, registered>>
<1>1. /\ AtWild /\ ~BadWild /\ path[WildAt] = ":" /\ pc' = "scan"
      /\ wildcard' = wildcard - 1 /\ path' = Drop(path, NameEnd - 1)
      /\ UNCHANGED <<arg, answer, registered>>
  BY DEF InsertParam
<1>2. WildAt # 0 /\ heap[n].children = <<>>
  BY <1>1 DEF BadWild
<1>3. wildcard > 0
  BY <1>1 DEF AtWild
<1>4. /\ heap \in Seq(Node) /\ n \in DOMAIN heap /\ DOMAIN heap = 1..Len(heap)
      /\ Len(heap) \in Nat /\ heap[n] \in Node /\ path \in Seq(Bytes)
      /\ Len(path) \in Nat
  BY Nodes, LenProperties DEF Types, HeapOK
<1>5. WildAt \in 1..Len(path) /\ NameEnd \in (WildAt + 1)..(Len(path) + 1)
  BY <1>2, <1>4, WildAtIs
<1>6. path' \in Seq(Bytes)
  <2>1. NameEnd - 1 \in 0..Len(path)
    BY <1>4, <1>5
  <2>2. QED
    BY <1>1, <1>4, <2>1, Cut
<1>7. Bent \in Node /\ ParamNode \in Node /\ NamedNode \in Node /\ RestNode \in Node
  BY <1>2, <1>3, BentIs, ParamNodesAre
<1> DEFINE new == Len(heap) + 1
           cut == [heap EXCEPT ![n].children = <<new>>, ![n].wildChild = TRUE,
                               ![n].path = IF WildAt > 1
                                             THEN SubSeq(path, 1, WildAt - 1)
                                             ELSE @]
<1>8. cut = [heap EXCEPT ![n] = Bent] /\ cut \in Seq(Node)
  <2>1. cut = [heap EXCEPT ![n] = Bent]
    BY <1>4 DEF Bent
  <2>2. PICK b \in Node : b = Bent
    BY <1>7
  <2> HIDE DEF cut
  <2>3. [heap EXCEPT ![n] = b] \in Seq(Node)
    BY <1>4, <2>2, Replaced
  <2>4. cut = [heap EXCEPT ![n] = b]
    BY <2>1, <2>2
  <2>5. QED
    BY <2>1, <2>3, <2>4
<1>9. IF NameEnd > Len(path)
        THEN heap' = Append(cut, ParamNode) /\ n' = new
        ELSE heap' = cut \o <<NamedNode, RestNode>> /\ n' = new + 1
  <2>1. IF NameEnd > Len(path)
        THEN /\ heap' = Append(cut, ParamNode)
             /\ n' = new
        ELSE /\ heap' = cut \o <<[ParamNode EXCEPT
                                 !.path = SubSeq(path, WildAt, NameEnd - 1),
                                 !.children = <<new + 1>>], RestNode>>
             /\ n' = new + 1
    BY DEF InsertParam, ParamNode, RestNode
  <2>2. new + 1 = Len(heap) + 2
    BY <1>4
  <2>3. NamedNode = [ParamNode EXCEPT !.path = SubSeq(path, WildAt, NameEnd - 1),
                                      !.children = <<new + 1>>]
    BY <2>2 DEF NamedNode
  <2> HIDE DEF cut, new
  <2>4. QED
    BY <2>1, <2>3
<1> HIDE DEF cut
<1>10. CASE NameEnd > Len(path)
  <2>1. heap' = cut \o <<ParamNode>> /\ n' = Len(heap) + 1
    <3>1. Append(cut, ParamNode) = cut \o <<ParamNode>>
      BY <1>7, <1>8
    <3>2. QED
      BY <1>9, <1>10, <3>1
  <2>2. <<ParamNode>> \in Seq(Node) /\ Len(<<ParamNode>>) = 1 /\ <<ParamNode>>[1] = ParamNode
    BY <1>7
  <2>3. IsExtended(heap, n, Bent, <<ParamNode>>, heap')
    BY <2>1, <2>2, <1>4, <1>7, <1>8, Extended
  <2>4. Len(heap') = Len(heap) + 1 /\ heap'[n] = Bent /\ heap'[Len(heap) + 1] = ParamNode
    BY <2>2, <2>3 DEF IsExtended
  <2>5. QED
    BY <1>1, <1>2, <1>3, <1>6, <1>10, <2>1, <2>3, <2>4
<1>11. CASE ~(NameEnd > Len(path))
  <2>1. heap' = cut \o <<NamedNode, RestNode>> /\ n' = Len(heap) + 2 /\ NameEnd <= Len(path)
    BY <1>4, <1>5, <1>9, <1>11
  <2>2. /\ <<NamedNode, RestNode>> \in Seq(Node) /\ Len(<<NamedNode, RestNode>>) = 2
        /\ <<NamedNode, RestNode>>[1] = NamedNode
        /\ <<NamedNode, RestNode>>[2] = RestNode
    BY <1>7
  <2>3. IsExtended(heap, n, Bent, <<NamedNode, RestNode>>, heap')
    BY <2>1, <2>2, <1>4, <1>7, <1>8, Extended
  <2>4. /\ Len(heap') = Len(heap) + 2 /\ heap'[n] = Bent
        /\ heap'[Len(heap) + 1] = NamedNode /\ heap'[Len(heap) + 2] = RestNode
    BY <2>2, <2>3 DEF IsExtended
  <2>5. QED
    BY <1>1, <1>2, <1>3, <1>6, <2>1, <2>3, <2>4
<1>12. QED
  BY <1>10, <1>11

\* InsertParam keeps Types.
LEMMA InsertParamTypes ==
    ASSUME Types, InsertParam
    PROVE  Types'
<1>1. /\ HeapOK(heap) /\ Len(heap) \in Nat /\ n \in DOMAIN heap
      /\ DOMAIN heap = 1..Len(heap) /\ Len(heap) >= 1
  BY Nodes DEF Types, HeapOK
<1>2. /\ WildAt # 0 /\ wildcard > 0 /\ Bent.nType = heap[n].nType
      /\ Bent.children = <<Len(heap) + 1>>
      /\ ParamNode \in Node /\ NamedNode \in Node /\ RestNode \in Node
      /\ ParamNode.nType = "param" /\ NamedNode.nType = "param"
      /\ ParamNode.children = <<>> /\ RestNode.children = <<>>
      /\ NamedNode.children = <<Len(heap) + 2>>
      /\ ParamNode.wildChild = FALSE /\ NamedNode.wildChild = FALSE
      /\ RestNode.wildChild = FALSE
  BY InsertParamIs, BentIs, ParamNodesAre
<1>3. wildcard' \in 0..255
  <2>1. wildcard \in 0..255 /\ wildcard > 0 /\ wildcard' = wildcard - 1
    BY InsertParamIs DEF Types
  <2>2. QED
    BY <2>1
<1>4. HeapOK(heap') /\ n' \in DOMAIN heap'
  <2>1. CASE /\ n' = Len(heap) + 1
             /\ IsExtended(heap, n, Bent, <<ParamNode>>, heap')
             /\ Len(heap') = Len(heap) + 1
             /\ heap'[n] = Bent /\ heap'[Len(heap) + 1] = ParamNode
    <3>1. <<ParamNode>> \in Seq(Node)
      BY <1>2
    <3>2. (Len(heap) + 1)..Len(heap') = {Len(heap) + 1}
      BY <2>1, <1>1
    <3>3. \A q \in {n} \cup ((Len(heap) + 1)..Len(heap')) :
             /\ \A k \in DOMAIN heap'[q].children : heap'[q].children[k] \in 2..Len(heap')
             /\ heap'[q].wildChild =>
                  /\ Len(heap'[q].children) = 1
                  /\ heap'[heap'[q].children[1]].nType \in {"param", "catchAll"}
      <4>1. Len(heap) + 1 \in 2..Len(heap')
        BY <2>1, <1>1
      <4>2. QED
        BY <4>1, <3>2, <2>1, <1>2
    <3>4. HeapOK(heap')
      BY <3>1, <3>3, <2>1, <1>1, <1>2, ExtendedOK
    <3>5. QED
      BY <3>4, <2>1, <1>1, Nodes DEF HeapOK
  <2>2. CASE /\ n' = Len(heap) + 2
             /\ IsExtended(heap, n, Bent, <<NamedNode, RestNode>>, heap')
             /\ Len(heap') = Len(heap) + 2
             /\ heap'[n] = Bent /\ heap'[Len(heap) + 1] = NamedNode
             /\ heap'[Len(heap) + 2] = RestNode
    <3>1. <<NamedNode, RestNode>> \in Seq(Node)
      BY <1>2
    <3>2. (Len(heap) + 1)..Len(heap') = {Len(heap) + 1, Len(heap) + 2}
      BY <2>2, <1>1
    <3>3. \A q \in {n} \cup ((Len(heap) + 1)..Len(heap')) :
             /\ \A k \in DOMAIN heap'[q].children : heap'[q].children[k] \in 2..Len(heap')
             /\ heap'[q].wildChild =>
                  /\ Len(heap'[q].children) = 1
                  /\ heap'[heap'[q].children[1]].nType \in {"param", "catchAll"}
      <4>1. Len(heap) + 1 \in 2..Len(heap') /\ Len(heap) + 2 \in 2..Len(heap')
        BY <2>2, <1>1
      <4>2. /\ \A k \in DOMAIN heap'[n].children : heap'[n].children[k] \in 2..Len(heap')
            /\ Len(heap'[n].children) = 1
            /\ heap'[heap'[n].children[1]].nType \in {"param", "catchAll"}
        <5>1. heap'[n].children = <<Len(heap) + 1>>
          BY <1>2, <2>2
        <5>2. heap'[Len(heap) + 1].nType = "param"
          BY <1>2, <2>2
        <5>3. QED
          BY <4>1, <5>1, <5>2
      <4>3. /\ \A k \in DOMAIN heap'[Len(heap) + 1].children :
                 heap'[Len(heap) + 1].children[k] \in 2..Len(heap')
            /\ ~heap'[Len(heap) + 1].wildChild
        <5>1. /\ heap'[Len(heap) + 1].children = <<Len(heap) + 2>>
              /\ heap'[Len(heap) + 1].wildChild = FALSE
          BY <1>2, <2>2
        <5>2. QED
          BY <4>1, <5>1
      <4>4. /\ \A k \in DOMAIN heap'[Len(heap) + 2].children :
                 heap'[Len(heap) + 2].children[k] \in 2..Len(heap')
            /\ ~heap'[Len(heap) + 2].wildChild
        <5>1. /\ heap'[Len(heap) + 2].children = <<>>
              /\ heap'[Len(heap) + 2].wildChild = FALSE
          BY <1>2, <2>2
        <5>2. QED
          BY <5>1
      <4>5. QED
        BY <3>2, <4>2, <4>3, <4>4
    <3>4. HeapOK(heap')
      BY <3>1, <3>3, <2>2, <1>1, <1>2, ExtendedOK
    <3>5. QED
      BY <3>4, <2>2, <1>1, Nodes DEF HeapOK
  <2>3. QED
    BY <2>1, <2>2, InsertParamIs
<1>5. QED
  BY <1>3, <1>4, InsertParamIs DEF Types, PCs

\* The nodes of InsertCatchAll.
CatchTop ==
    [heap[n] EXCEPT !.path = SubSeq(path, 1, WildAt - 2), !.maxParams = Max({@, 1}),
                    !.children = <<Len(heap) + 1>>, !.indices = <<"/">>]
CatchEmpty ==
    [routerNode EXCEPT !.nType = "catchAll", !.wildChild = TRUE, !.maxParams = 1,
                       !.priority = 1, !.children = <<Len(heap) + 2>>]
CatchLeaf ==
    [routerNode EXCEPT !.nType = "catchAll", !.maxParams = 1, !.priority = 1,
                       !.path = Drop(path, WildAt - 2), !.handle = arg]

Topped(y, p, k, cs, b)  == [y EXCEPT !.path = p, !.maxParams = k, !.children = cs,
                                     !.indices = b]
Emptied(y, t, w, k, o, cs) == [y EXCEPT !.nType = t, !.wildChild = w, !.maxParams = k,
                                        !.priority = o, !.children = cs]
Leafed(y, t, k, o, p, hd) == [y EXCEPT !.nType = t, !.maxParams = k, !.priority = o,
                                       !.path = p, !.handle = hd]

IsTopped(x, y, p, k, cs, b) ==
    /\ x \in Node /\ x.path = p /\ x.maxParams = k /\ x.children = cs /\ x.indices = b
    /\ x.wildChild = y.wildChild /\ x.nType = y.nType /\ x.handle = y.handle

\* The fields of the node InsertCatchAll hangs the catch-all on.
LEMMA ToppedIs ==
    ASSUME NEW y \in Node, NEW p \in Seq(Bytes), NEW k \in 0..255, NEW cs \in Seq(Nat),
           NEW b \in Seq(Bytes)
    PROVE  IsTopped(Topped(y, p, k, cs, b), y, p, k, cs, b)
<1>1. Topped(y, p, k, cs, b) \in Node
  BY DEF Node, Topped
<1>2. QED
  BY <1>1 DEF Node, Topped, IsTopped

\* The nodes InsertCatchAll adds are nodes.
LEMMA CatchMade ==
    ASSUME NEW y \in Node, NEW t \in NTypes, NEW w \in BOOLEAN, NEW k \in 0..255,
           NEW o \in Int, NEW cs \in Seq(Nat), NEW p \in Seq(Bytes), NEW hd \in Seq(Bytes)
    PROVE  Emptied(y, t, w, k, o, cs) \in Node /\ Leafed(y, t, k, o, p, hd) \in Node
<1>1. Emptied(y, t, w, k, o, cs) \in Node
  BY DEF Node, Emptied
<1>2. Leafed(y, t, k, o, p, hd) \in Node
  BY DEF Node, Leafed
<1>3. QED
  BY <1>1, <1>2

\* What InsertCatchAll does, and the fields of its three nodes.
LEMMA InsertCatchAllIs ==
    ASSUME Types, InsertCatchAll
    PROVE  /\ AtWild /\ WildAt > 1 /\ path[WildAt] = "*" /\ path[WildAt - 1] = "/"
           /\ heap[n].children = <<>> /\ wildcard = 1 /\ NameEnd = Len(path) + 1
           /\ NameEnd - WildAt >= 2
           /\ IsExtended(heap, n, CatchTop, <<CatchEmpty, CatchLeaf>>, heap')
           /\ Len(heap') = Len(heap) + 2 /\ heap'[n] = CatchTop
           /\ heap'[Len(heap) + 1] = CatchEmpty /\ heap'[Len(heap) + 2] = CatchLeaf
           /\ CatchTop \in Node /\ CatchTop.path = SubSeq(path, 1, WildAt - 2)
           /\ CatchTop.maxParams = Max({heap[n].maxParams, 1})
           /\ CatchTop.children = <<Len(heap) + 1>> /\ CatchTop.indices = <<"/">>
           /\ CatchTop.wildChild = heap[n].wildChild /\ CatchTop.nType = heap[n].nType
           /\ CatchTop.handle = heap[n].handle
           /\ CatchEmpty \in Node /\ CatchEmpty.path = <<>> /\ CatchEmpty.wildChild = TRUE
           /\ CatchEmpty.nType = "catchAll" /\ CatchEmpty.maxParams = 1
           /\ CatchEmpty.children = <<Len(heap) + 2>> /\ CatchEmpty.handle = NoHandle
           /\ CatchEmpty.indices = <<>>
           /\ CatchLeaf \in Node /\ CatchLeaf.path = Drop(path, WildAt - 2)
           /\ CatchLeaf.wildChild = FALSE /\ CatchLeaf.nType = "catchAll"
           /\ CatchLeaf.maxParams = 1 /\ CatchLeaf.children = <<>>
           /\ CatchLeaf.handle = arg /\ CatchLeaf.indices = <<>>
           /\ pc' = "register" /\ registered' = Append(registered, arg)
           /\ UNCHANGED <<arg, cursor, answer>>
<1>1. /\ AtWild /\ ~BadWild /\ path[WildAt] = "*" /\ ~BadCatchAll
      /\ pc' = "register" /\ registered' = Append(registered, arg)
      /\ UNCHANGED <<arg, cursor, answer>>
  BY DEF InsertCatchAll, Registered
<1>2. /\ WildAt # 0 /\ heap[n].children = <<>> /\ NameEnd - WildAt >= 2
      /\ wildcard \in 1..255 /\ wildcard <= 1
      /\ ~(NameEnd <= Len(path)) /\ (WildAt > 1 /\ path[WildAt - 1] = "/")
  <2>1. wildcard \in 0..255 /\ path \in Seq(Bytes) /\ Len(path) \in Nat
    BY LenProperties DEF Types
  <2>2. WildAt \in 1..Len(path) /\ NameEnd \in (WildAt + 1)..(Len(path) + 1)
    BY <1>1, <2>1, WildAtIs DEF BadWild
  <2>3. QED
    BY <1>1, <2>1, <2>2 DEF BadWild, BadCatchAll, AtWild
<1>3. /\ heap \in Seq(Node) /\ n \in DOMAIN heap /\ DOMAIN heap = 1..Len(heap)
      /\ Len(heap) \in Nat /\ heap[n] \in Node /\ heap[n].maxParams \in 0..255
      /\ path \in Seq(Bytes) /\ Len(path) \in Nat /\ arg \in Seq(Bytes)
  BY Nodes, LenProperties DEF Types, HeapOK
<1>4. WildAt \in 2..Len(path) /\ NameEnd = Len(path) + 1 /\ wildcard = 1
  <2>1. WildAt \in 1..Len(path) /\ NameEnd \in (WildAt + 1)..(Len(path) + 1)
    BY <1>2, <1>3, WildAtIs
  <2>2. PICK f, e, l : f = WildAt /\ e = NameEnd /\ l = Len(path)
    OBVIOUS
  <2>3. /\ f \in 1..l /\ e \in (f + 1)..(l + 1) /\ l \in Nat /\ ~(e <= l) /\ f > 1
    BY <1>2, <1>3, <2>1, <2>2
  <2>4. f \in 2..l /\ e = l + 1
    BY <2>3
  <2>5. wildcard = 1
    BY <1>2
  <2>6. QED
    BY <2>2, <2>4, <2>5
<1>5. SubSeq(path, 1, WildAt - 2) \in Seq(Bytes) /\ Drop(path, WildAt - 2) \in Seq(Bytes)
  <2>1. WildAt - 2 \in 0..Len(path)
    BY <1>3, <1>4
  <2>2. QED
    BY <1>3, <2>1, Cut
<1>6. PICK w : w = Max({heap[n].maxParams, 1})
  OBVIOUS
<1>7. w \in 0..255
  <2>1. {heap[n].maxParams, 1} \in SUBSET (0..255) /\ {heap[n].maxParams, 1} # {}
    BY <1>3
  <2>2. w \in {heap[n].maxParams, 1}
    BY <1>6, <2>1, MaxOfBounded
  <2>3. QED
    BY <2>1, <2>2
<1>8. PICK ks : ks = <<Len(heap) + 1>>
  OBVIOUS
<1>9. PICK ls : ls = <<Len(heap) + 2>>
  OBVIOUS
<1>10. PICK b : b = <<"/">>
  OBVIOUS
<1>11. ks \in Seq(Nat) /\ ls \in Seq(Nat) /\ b \in Seq(Bytes) /\ "catchAll" \in NTypes
  <2>1. ks \in Seq(Nat) /\ ls \in Seq(Nat)
    BY <1>3, <1>8, <1>9
  <2>2. b \in Seq(Bytes)
    BY <1>10 DEF Bytes
  <2>3. QED
    BY <2>1, <2>2 DEF NTypes
<1>12. PICK p : p = SubSeq(path, 1, WildAt - 2)
  OBVIOUS
<1>13. PICK y \in Node : y = heap[n]
  BY <1>3
<1>14. CatchTop = Topped(y, p, w, ks, b)
  BY <1>6, <1>8, <1>10, <1>12, <1>13 DEF CatchTop, Topped
<1>15. /\ CatchTop \in Node /\ CatchTop.path = p
       /\ CatchTop.maxParams = w
       /\ CatchTop.children = ks /\ CatchTop.indices = b
       /\ CatchTop.wildChild = heap[n].wildChild /\ CatchTop.nType = heap[n].nType
       /\ CatchTop.handle = heap[n].handle
  <2>1. p \in Seq(Bytes)
    BY <1>5, <1>12
  <2>2. IsTopped(Topped(y, p, w, ks, b), y, p, w, ks, b)
    BY <2>1, <1>7, <1>11, ToppedIs
  <2>3. QED
    BY <1>13, <1>14, <2>2 DEF IsTopped
<1>16. CatchEmpty \in Node /\ CatchLeaf \in Node
  <2>1. PICK o \in Int : o = 1
    OBVIOUS
  <2>2. PICK k \in 0..255 : k = 1
    OBVIOUS
  <2>3. PICK v \in BOOLEAN : v = TRUE
    OBVIOUS
  <2>4. CatchEmpty = Emptied(routerNode, "catchAll", v, k, o, ls)
    BY <1>9, <2>1, <2>2, <2>3 DEF CatchEmpty, Emptied
  <2>5. CatchLeaf = Leafed(routerNode, "catchAll", k, o, Drop(path, WildAt - 2), arg)
    BY <2>1, <2>2 DEF CatchLeaf, Leafed
  <2>6. QED
    BY <1>3, <1>5, <1>11, <2>4, <2>5, FreshNode, CatchMade
<1>17. /\ CatchEmpty.path = <<>> /\ CatchEmpty.wildChild = TRUE
       /\ CatchEmpty.nType = "catchAll" /\ CatchEmpty.maxParams = 1
       /\ CatchEmpty.children = <<Len(heap) + 2>> /\ CatchEmpty.handle = NoHandle
       /\ CatchEmpty.indices = <<>>
  BY DEF CatchEmpty, routerNode
<1>18. /\ CatchLeaf.path = Drop(path, WildAt - 2)
       /\ CatchLeaf.wildChild = FALSE /\ CatchLeaf.nType = "catchAll"
       /\ CatchLeaf.maxParams = 1 /\ CatchLeaf.children = <<>>
       /\ CatchLeaf.handle = arg /\ CatchLeaf.indices = <<>>
  BY DEF CatchLeaf, routerNode
<1>19. heap' = [heap EXCEPT ![n] = CatchTop] \o <<CatchEmpty, CatchLeaf>>
  <2>1. /\ WildAt - 1 - 1 = WildAt - 2 /\ Len(heap) + 1 + 1 = Len(heap) + 2
    BY <1>3, <1>4
  <2>2. heap' = [heap EXCEPT ![n].path = SubSeq(path, 1, WildAt - 1 - 1),
                             ![n].maxParams = Max({@, 1}),
                             ![n].children = <<Len(heap) + 1>>,
                             ![n].indices = <<"/">>]
                 \o <<[routerNode EXCEPT !.nType = "catchAll", !.wildChild = TRUE,
                        !.maxParams = 1, !.priority = 1,
                        !.children = <<Len(heap) + 1 + 1>>],
                      [routerNode EXCEPT !.nType = "catchAll", !.maxParams = 1,
                        !.priority = 1, !.path = Drop(path, WildAt - 1 - 1),
                        !.handle = arg]>>
    BY DEF InsertCatchAll
  <2>3. heap' = [heap EXCEPT ![n].path = SubSeq(path, 1, WildAt - 2),
                             ![n].maxParams = Max({@, 1}),
                             ![n].children = <<Len(heap) + 1>>,
                             ![n].indices = <<"/">>]
                 \o <<CatchEmpty, CatchLeaf>>
    BY <2>1, <2>2 DEF CatchEmpty, CatchLeaf
  <2>4. [heap EXCEPT ![n].path = SubSeq(path, 1, WildAt - 2),
                     ![n].maxParams = Max({@, 1}),
                     ![n].children = <<Len(heap) + 1>>,
                     ![n].indices = <<"/">>] = [heap EXCEPT ![n] = CatchTop]
    BY <1>3 DEF CatchTop
  <2>5. QED
    BY <2>3, <2>4
<1>20. PICK x1 \in Node : x1 = CatchEmpty
  BY <1>16
<1>21. PICK x2 \in Node : x2 = CatchLeaf
  BY <1>16
<1>22. <<x1, x2>> \in Seq(Node) /\ Len(<<x1, x2>>) = 2 /\ <<x1, x2>>[1] = x1 /\ <<x1, x2>>[2] = x2
  OBVIOUS
<1>23. IsExtended(heap, n, CatchTop, <<x1, x2>>, heap')
  BY <1>3, <1>15, <1>19, <1>20, <1>21, <1>22, Extended
<1>24. /\ Len(heap') = Len(heap) + 2 /\ heap'[n] = CatchTop
       /\ heap'[Len(heap) + 1] = x1 /\ heap'[Len(heap) + 2] = x2
  BY <1>22, <1>23 DEF IsExtended
<1>25. QED
  BY <1>1, <1>2, <1>4, <1>6, <1>8, <1>10, <1>12, <1>15, <1>16, <1>17, <1>18, <1>20,
     <1>21, <1>23, <1>24

\* InsertCatchAll keeps Types.
LEMMA InsertCatchAllTypes ==
    ASSUME Types, InsertCatchAll
    PROVE  Types'
<1>1. /\ HeapOK(heap) /\ heap \in Seq(Node) /\ Len(heap) \in Nat /\ n \in DOMAIN heap
      /\ DOMAIN heap = 1..Len(heap) /\ Len(heap) >= 1
  BY Nodes DEF Types, HeapOK
<1>2. heap[n].wildChild = FALSE
  <2>1. heap[n].children = <<>> /\ Len(<<>>) = 0
    BY InsertCatchAllIs
  <2>2. heap[n].wildChild => Len(heap[n].children) = 1
    BY <1>1 DEF HeapOK, Pointers
  <2>3. heap[n].wildChild \in BOOLEAN
    BY <1>1, Nodes
  <2>4. QED
    BY <2>1, <2>2, <2>3
<1>3. /\ IsExtended(heap, n, CatchTop, <<CatchEmpty, CatchLeaf>>, heap')
      /\ Len(heap') = Len(heap) + 2 /\ heap'[n] = CatchTop
      /\ heap'[Len(heap) + 1] = CatchEmpty /\ heap'[Len(heap) + 2] = CatchLeaf
      /\ CatchTop.nType = heap[n].nType
  BY InsertCatchAllIs
<1>4. /\ heap'[n].children = <<Len(heap) + 1>> /\ heap'[n].wildChild = FALSE
      /\ heap'[Len(heap) + 1].children = <<Len(heap) + 2>>
      /\ heap'[Len(heap) + 2].nType = "catchAll"
      /\ heap'[Len(heap) + 2].children = <<>> /\ heap'[Len(heap) + 2].wildChild = FALSE
  BY <1>2, InsertCatchAllIs
<1>5. <<CatchEmpty, CatchLeaf>> \in Seq(Node)
  BY InsertCatchAllIs
<1>6. (Len(heap) + 1)..Len(heap') = {Len(heap) + 1, Len(heap) + 2}
  BY <1>1, <1>3
<1>7. Len(heap) + 1 \in 2..Len(heap') /\ Len(heap) + 2 \in 2..Len(heap')
  BY <1>1, <1>3
<1>8. /\ \A k \in DOMAIN heap'[n].children : heap'[n].children[k] \in 2..Len(heap')
      /\ ~heap'[n].wildChild
  BY <1>4, <1>7
<1>9. /\ \A k \in DOMAIN heap'[Len(heap) + 1].children :
           heap'[Len(heap) + 1].children[k] \in 2..Len(heap')
      /\ Len(heap'[Len(heap) + 1].children) = 1
      /\ heap'[heap'[Len(heap) + 1].children[1]].nType \in {"param", "catchAll"}
  BY <1>4, <1>7
<1>10. /\ \A k \in DOMAIN heap'[Len(heap) + 2].children :
           heap'[Len(heap) + 2].children[k] \in 2..Len(heap')
       /\ ~heap'[Len(heap) + 2].wildChild
  BY <1>4
<1>11. \A q \in {n} \cup ((Len(heap) + 1)..Len(heap')) :
          /\ \A k \in DOMAIN heap'[q].children : heap'[q].children[k] \in 2..Len(heap')
          /\ heap'[q].wildChild =>
               /\ Len(heap'[q].children) = 1
               /\ heap'[heap'[q].children[1]].nType \in {"param", "catchAll"}
  BY <1>6, <1>8, <1>9, <1>10
<1>12. HeapOK(heap')
  BY <1>1, <1>3, <1>5, <1>11, ExtendedOK
<1>13. n' \in DOMAIN heap' /\ n' = n
  <2>1. n' = n
    BY InsertCatchAllIs DEF cursor
  <2>2. DOMAIN heap' = 1..Len(heap')
    BY <1>12, Nodes DEF HeapOK
  <2>3. QED
    BY <1>1, <1>3, <2>1, <2>2
<1>14. registered' \in Seq(Seq(Bytes))
  <2>1. registered \in Seq(Seq(Bytes)) /\ arg \in Seq(Bytes)
    BY DEF Types
  <2>2. registered' = Append(registered, arg)
    BY InsertCatchAllIs
  <2>3. QED
    BY <2>1, <2>2
<1>15. pc' = "register" /\ arg' = arg /\ path' = path /\ wildcard' = wildcard
  BY InsertCatchAllIs DEF cursor
<1>16. QED
  BY <1>12, <1>13, <1>14, <1>15 DEF Types, PCs

\* InsertEnd keeps Types.
LEMMA InsertEndTypes ==
    ASSUME Types, InsertEnd
    PROVE  Types'
<1>1. registered' \in Seq(Seq(Bytes))
  <2>1. registered \in Seq(Seq(Bytes)) /\ arg \in Seq(Bytes)
    BY DEF Types
  <2>2. registered' = Append(registered, arg)
    BY DEF InsertEnd, Registered
  <2>3. QED
    BY <2>1, <2>2
<1>2. QED
  BY <1>1 DEF Types, InsertEnd, Registered, PCs, cursor

\* Steps that leave the tree, the walk's place and the path alone.
LEMMA OutsideTypes ==
    ASSUME Types, \/ \E p \in Routes : InsertRefused(p)
                  \/ Listen
                  \/ Answered
    PROVE  Types'
  BY RoutesAreBytes DEF Types, InsertRefused, Listen, Answered, PCs, cursor, tree

\* The beginning of a lookup keeps Types.
LEMMA MatchTypes ==
    ASSUME Types, NEW p \in Paths, Match(p)
    PROVE  Types'
<1>1. 1 \in DOMAIN heap
  BY Nodes, EmptySeq DEF Types, HeapOK
<1>2. QED
  BY <1>1, RoutesAreBytes DEF Types, Match, PCs, tree

\* A lookup that stays at its node.
LEMMA StayTypes ==
    ASSUME Types, pc' \in PCs, UNCHANGED <<tree, arg, cursor>>
    PROVE  Types'
  BY DEF Types, tree, cursor

\* A lookup that goes on in a child.
LEMMA MoveTypes ==
    ASSUME Types, NEW m \in DOMAIN heap, NEW s \in Seq(Bytes), MoveTo(m, s),
           UNCHANGED <<tree, arg, wildcard>>
    PROVE  Types'
  BY DEF Types, MoveTo, tree

\* IsPrefix without the subsequence of s.
LEMMA PrefixIs ==
    ASSUME NEW S, NEW s \in Seq(S), NEW t \in Seq(S)
    PROVE  IsPrefix(s, t) <=> /\ Len(s) <= Len(t)
                              /\ s = SubSeq(t, 1, Len(s))
<1>1. Len(s) \in Nat /\ Len(t) \in Nat /\ DOMAIN s = 1..Len(s)
  BY LenProperties
<1>2. IsPrefix(s, t) <=> Len(s) <= Len(t) /\ s = SubSeq(t, 1, Len(s))
  BY DEF IsPrefix
<1>3. QED
  BY <1>2

\* The path is the node's and the rest.
LEMMA InsideRest ==
    ASSUME Types, Inside
    PROVE  /\ Rest \in Seq(Bytes) /\ Len(Rest) = Len(path) - Len(heap[n].path)
           /\ Len(Rest) > 0 /\ Len(Rest) \in Nat /\ Rest # <<>>
           /\ path = heap[n].path \o Rest
<1>1. /\ heap[n].path \in Seq(Bytes) /\ Len(heap[n].path) \in Nat
      /\ path \in Seq(Bytes) /\ Len(path) \in Nat
  BY Nodes, LenProperties DEF Types, HeapOK
<1>2. PICK l : l = Len(heap[n].path)
  OBVIOUS
<1>3. l \in 0..Len(path) /\ Len(path) > l
  BY <1>1, <1>2 DEF Inside
<1>4. /\ Drop(path, l) \in Seq(Bytes) /\ Len(Drop(path, l)) = Len(path) - l
      /\ SubSeq(path, 1, l) \o Drop(path, l) = path
  BY <1>1, <1>3, Cut
<1>5. Rest = Drop(path, l)
  BY <1>2 DEF Rest
<1>6. Len(Rest) > 0 /\ Len(Rest) \in Nat
  BY <1>1, <1>3, <1>4, <1>5
<1>7. SubSeq(path, 1, l) = heap[n].path
  <2>1. IsPrefix(heap[n].path, path)
    BY DEF Inside
  <2>2. QED
    BY <1>1, <1>2, <2>1, PrefixIs
<1>8. path = heap[n].path \o Rest
  BY <1>4, <1>5, <1>7
<1>9. Rest # <<>>
  BY <1>6
<1>10. Rest \in Seq(Bytes) /\ Len(Rest) = Len(path) - Len(heap[n].path)
  BY <1>2, <1>4, <1>5
<1>11. QED
  BY <1>6, <1>8, <1>9, <1>10

\* Every step of a lookup keeps Types.
LEMMA LookupTypes ==
    ASSUME Types, GetValue
    PROVE  Types'
<1>1. /\ HeapOK(heap) /\ heap \in Seq(Node) /\ n \in DOMAIN heap
      /\ DOMAIN heap = 1..Len(heap) /\ Len(heap) \in Nat
  BY Nodes DEF Types, HeapOK
<1>2. CASE LookupChild
  <2>1. PICK k : k = IndexOf(heap[n], Rest[1])
    OBVIOUS
  <2>2. CASE k \in DOMAIN heap[n].children
    <3>1. heap[n].children[k] \in DOMAIN heap
      BY <1>1, <2>2 DEF HeapOK, Pointers
    <3>2. Rest \in Seq(Bytes) /\ MoveTo(heap[n].children[k], Rest)
          /\ UNCHANGED <<tree, arg, wildcard>>
      BY <1>2, <2>1, <2>2, InsideRest DEF LookupChild
    <3>3. QED
      BY <3>1, <3>2, MoveTypes
  <2>3. CASE k \notin DOMAIN heap[n].children
    <3>1. pc' = "answer" /\ UNCHANGED <<tree, arg, n, path, wildcard>>
      BY <1>2, <2>1, <2>3 DEF LookupChild, Return, Answer
    <3>2. QED
      BY <3>1, StayTypes DEF PCs, cursor
  <2>4. QED
    BY <2>2, <2>3
<1>3. CASE LookupParam
  <2>1. /\ AtWildChild("param") /\ UNCHANGED <<tree, arg, wildcard>>
        /\ LET end == SegmentEnd(Rest, 1)
           IN  IF end <= Len(Rest) /\ Child.children # <<>>
                 THEN MoveTo(Child.children[1], Drop(Rest, end - 1))
                 ELSE pc' = "answer" /\ UNCHANGED <<n, path>>
    BY <1>3 DEF LookupParam, Return, Answer
  <2>2. PICK e : e = SegmentEnd(Rest, 1)
    OBVIOUS
  <2>3. CASE e <= Len(Rest) /\ Child.children # <<>>
    <3>1. heap[n].wildChild /\ Inside
      BY <2>1 DEF AtWildChild
    <3>2. PICK c : c = heap[n].children[1]
      OBVIOUS
    <3>3. c \in DOMAIN heap /\ Child = heap[c]
      <4>1. Len(heap[n].children) = 1
        BY <1>1, <3>1 DEF HeapOK, Pointers
      <4>2. QED
        BY <3>2, <4>1, ChildInside, <1>1 DEF Child
    <3>4. heap[c].children[1] \in DOMAIN heap
      <4>1. heap[c].children \in Seq(Nat) /\ heap[c].children # <<>>
        BY <1>1, <2>3, <3>3, Nodes
      <4>2. 1 \in DOMAIN heap[c].children
        BY <4>1, EmptySeq, LenProperties
      <4>3. QED
        BY <1>1, <3>3, <4>2 DEF HeapOK, Pointers
    <3>5. Drop(Rest, e - 1) \in Seq(Bytes)
      <4>1. Rest \in Seq(Bytes) /\ Len(Rest) \in Nat /\ Len(Rest) > 0
        BY <3>1, InsideRest
      <4>2. e \in 1..(Len(Rest) + 1)
        BY <2>2, <4>1, SegmentEndIs
      <4>3. e - 1 \in 0..Len(Rest)
        BY <2>3, <4>1, <4>2
      <4>4. QED
        BY <4>1, <4>3, Cut
    <3>6. MoveTo(heap[c].children[1], Drop(Rest, e - 1))
      BY <2>1, <2>2, <2>3, <3>3
    <3>7. QED
      BY <2>1, <3>4, <3>5, <3>6, MoveTypes
  <2>4. CASE ~(e <= Len(Rest) /\ Child.children # <<>>)
    <3>1. pc' = "answer" /\ UNCHANGED <<tree, arg, n, path, wildcard>>
      BY <2>1, <2>2, <2>4
    <3>2. QED
      BY <3>1, StayTypes DEF PCs, cursor
  <2>5. QED
    BY <2>3, <2>4
<1>4. CASE LookupParamPanic \/ LookupCatchAll \/ LookupEnd \/ LookupMiss
  <2>1. pc' = "answer" /\ UNCHANGED <<tree, arg, cursor>>
    BY <1>4 DEF LookupParamPanic, LookupCatchAll, LookupEnd, LookupMiss, Return, Answer
  <2>2. QED
    BY <2>1, StayTypes DEF PCs
<1>5. QED
  BY <1>2, <1>3, <1>4 DEF GetValue

\* Every step of a registration keeps Types.
LEMMA AddRouteTypes ==
    ASSUME Types, AddRoute
    PROVE  Types'
<1>1. CASE Walk
  BY <1>1, WalkTypes
<1>2. CASE DescendWild
  BY <1>2, DescendWildTypes
<1>3. CASE DescendNothing \/ InsertBadWild \/ InsertBadCatchAll
  BY <1>3, PanicTypes DEF DescendNothing, InsertBadWild, InsertBadCatchAll
<1>4. CASE DescendSlash
  BY <1>4, DescendSlashTypes
<1>5. CASE DescendIndex
  BY <1>5, DescendIndexTypes
<1>6. CASE AddChild
  BY <1>6, AddChildTypes
<1>7. CASE InsertLeaf
  BY <1>7, InsertLeafTypes
<1>8. CASE InsertParam
  BY <1>8, InsertParamTypes
<1>9. CASE InsertCatchAll
  BY <1>9, InsertCatchAllTypes
<1>10. CASE InsertEnd
  BY <1>10, InsertEndTypes
<1>11. QED
  BY <1>1, <1>2, <1>3, <1>4, <1>5, <1>6, <1>7, <1>8, <1>9, <1>10 DEF AddRoute


\* pre gives every node the bytes above it: what a lookup has matched when it
\* arrives there.
Reads(h, pre) ==
    /\ pre \in [DOMAIN h -> Seq(Bytes)]
    /\ pre[1] = <<>>
    /\ \A m \in DOMAIN h :
         /\ ~h[m].wildChild
         /\ h[m].handle # NoHandle => h[m].handle = pre[m] \o h[m].path
         /\ \A k \in DOMAIN h[m].children :
              pre[h[m].children[k]] = pre[m] \o h[m].path

\* One of the routes rs begins with s.
Covered(s, rs) == \E k \in DOMAIN rs : \E u \in Seq(Bytes) : rs[k] = s \o u

\* A node on the way to a registered route.
Live(h, pre, rs, m) == Covered(pre[m] \o h[m].path, rs)

\* What begins a covered path is covered.
LEMMA CoveredPrefix ==
    ASSUME NEW s \in Seq(Bytes), NEW t \in Seq(Bytes), NEW rs, Covered(s \o t, rs)
    PROVE  Covered(s, rs)
<1>1. PICK k \in DOMAIN rs : \E u \in Seq(Bytes) : rs[k] = (s \o t) \o u
  BY DEF Covered
<1>2. PICK u \in Seq(Bytes) : rs[k] = (s \o t) \o u
  BY <1>1
<1>3. rs[k] = s \o (t \o u) /\ t \o u \in Seq(Bytes)
  BY <1>2, ConcatAssociative, ConcatProperties
<1>4. QED
  BY <1>3 DEF Covered

\* Another route uncovers nothing and covers itself.
LEMMA CoveredAppend ==
    ASSUME NEW rs \in Seq(Seq(Bytes)), NEW r \in Seq(Bytes)
    PROVE  /\ \A s : Covered(s, rs) => Covered(s, Append(rs, r))
           /\ Covered(r, Append(rs, r))
<1>1. /\ Len(rs) \in Nat /\ DOMAIN rs = 1..Len(rs)
      /\ DOMAIN Append(rs, r) = 1..(Len(rs) + 1)
      /\ \A k \in 1..Len(rs) : Append(rs, r)[k] = rs[k]
      /\ Append(rs, r)[Len(rs) + 1] = r
  BY LenProperties, AppendProperties
<1>2. ASSUME NEW s, Covered(s, rs) PROVE Covered(s, Append(rs, r))
  <2>1. PICK k \in DOMAIN rs : \E u \in Seq(Bytes) : rs[k] = s \o u
    BY <1>2 DEF Covered
  <2>2. k \in DOMAIN Append(rs, r) /\ Append(rs, r)[k] = rs[k]
    BY <1>1
  <2>3. QED
    BY <2>1, <2>2 DEF Covered
<1>3. Covered(r, Append(rs, r))
  <2>1. Len(rs) + 1 \in DOMAIN Append(rs, r)
    BY <1>1
  <2>2. r = r \o <<>> /\ <<>> \in Seq(Bytes)
    BY ConcatEmptySeq, EmptySeq
  <2>3. QED
    BY <1>1, <2>1, <2>2 DEF Covered
<1>4. QED
  BY <1>2, <1>3

\* Covered, said with IsPrefix.
LEMMA CoveredIsPrefix ==
    ASSUME NEW s \in Seq(Bytes), NEW rs \in Seq(Seq(Bytes)), Covered(s, rs)
    PROVE  \E k \in DOMAIN rs : IsPrefix(s, rs[k])
<1>1. PICK k \in DOMAIN rs : \E u \in Seq(Bytes) : rs[k] = s \o u
  BY DEF Covered
<1>2. PICK u \in Seq(Bytes) : rs[k] = s \o u
  BY <1>1
<1>3. rs[k] \in Seq(Bytes) /\ Len(s) \in Nat /\ Len(u) \in Nat /\ Len(rs[k]) = Len(s) + Len(u)
  BY <1>2, ConcatProperties, LenProperties
<1>4. SubSeq(s \o u, 1, Len(s)) = s
  <2>1. Len(s) \in 0..Len(s)
    BY <1>3
  <2>2. SubSeq(s \o u, 1, Len(s)) = SubSeq(s, 1, Len(s))
    BY <2>1, SubSeqOfConcat1
  <2>3. SubSeq(s, 1, Len(s)) = s
    BY SubSeqFull
  <2>4. QED
    BY <2>2, <2>3
<1>5. Len(s) <= Len(rs[k])
  BY <1>3
<1>6. IsPrefix(s, rs[k])
  BY <1>2, <1>3, <1>4, <1>5, PrefixIs
<1>7. QED
  BY <1>6

\* The tail of a path without wildcards has none.
LEMMA PlainTail ==
    ASSUME NEW s \in Seq(Bytes), NEW t \in Seq(Bytes), wildcardNum(s \o t) = 0
    PROVE  \A k \in DOMAIN t : ~IsWild(t[k])
<1>1. /\ s \o t \in Seq(Bytes) /\ Len(s) \in Nat /\ Len(t) \in Nat
      /\ DOMAIN t = 1..Len(t) /\ Len(s \o t) = Len(s) + Len(t)
      /\ \A i \in 1..(Len(s) + Len(t)) :
            (s \o t)[i] = IF i <= Len(s) THEN s[i] ELSE t[i - Len(s)]
  BY ConcatProperties, LenProperties
<1>2. DOMAIN (s \o t) = 1..(Len(s) + Len(t))
  BY <1>1, LenProperties
<1>3. \A k \in DOMAIN (s \o t) : ~IsWild((s \o t)[k])
  BY <1>1, WildcardNumIs
<1>4. ASSUME NEW k \in DOMAIN t PROVE ~IsWild(t[k])
  <2>1. Len(s) + k \in DOMAIN (s \o t) /\ ~(Len(s) + k <= Len(s)) /\ Len(s) + k - Len(s) = k
    BY <1>1, <1>2
  <2>2. (s \o t)[Len(s) + k] = t[k]
    BY <1>1, <1>2, <2>1
  <2>3. QED
    BY <1>3, <2>1, <2>2
<1>5. QED
  BY <1>4

\* Reads and Live look at paths, handles and pointers only.
LEMMA SameReads ==
    ASSUME NEW h, HeapOK(h), NEW g, SameShapes(h, g), NEW pre, Reads(h, pre)
    PROVE  /\ Reads(g, pre) /\ DOMAIN g = DOMAIN h
           /\ \A rs, m : m \in DOMAIN h => (Live(g, pre, rs, m) <=> Live(h, pre, rs, m))
<1>1. /\ DOMAIN h = 1..Len(h) /\ DOMAIN g = DOMAIN h
      /\ \A m \in DOMAIN h : SameShape(h[m], g[m])
  BY Nodes DEF HeapOK, SameShapes
<1>2. ASSUME NEW m \in DOMAIN g
      PROVE  /\ ~g[m].wildChild
             /\ g[m].handle # NoHandle => g[m].handle = pre[m] \o g[m].path
  <2>1. /\ g[m].path = h[m].path /\ g[m].handle = h[m].handle
        /\ g[m].wildChild = h[m].wildChild
    BY <1>1 DEF SameShape
  <2>2. QED
    BY <1>1, <2>1 DEF Reads
<1>3. ASSUME NEW m \in DOMAIN g, NEW j \in DOMAIN g[m].children
      PROVE  pre[g[m].children[j]] = pre[m] \o g[m].path
  <2>1. PICK k \in DOMAIN h[m].children : g[m].children[j] = h[m].children[k]
    BY <1>1 DEF SameShape
  <2>2. g[m].path = h[m].path
    BY <1>1 DEF SameShape
  <2>3. QED
    BY <1>1, <2>1, <2>2 DEF Reads
<1>4. ASSUME NEW rs, NEW m \in DOMAIN h
      PROVE  Live(g, pre, rs, m) <=> Live(h, pre, rs, m)
  <2>1. g[m].path = h[m].path
    BY <1>1 DEF SameShape
  <2>2. QED
    BY <2>1 DEF Live
<1>5. QED
  BY <1>1, <1>2, <1>3, <1>4 DEF Reads

\* Concatenation of byte sequences.
LEMMA Assoc ==
    \A a, b, c \in Seq(Bytes) : (a \o b) \o c = a \o (b \o c) /\ a \o b \in Seq(Bytes)
  BY ConcatAssociative, ConcatProperties

\* A split edge leaves every route where it was.
LEMMA SplitReads ==
    ASSUME NEW h, HeapOK(h), NEW m \in DOMAIN h, NEW i \in 0..Len(h[m].path),
           NEW g, HeapOK(g), IsSplit(h, m, i, g), NEW pre, Reads(h, pre),
           NEW rs, \A q \in DOMAIN h : Live(h, pre, rs, q)
    PROVE  \E new : /\ Reads(g, new) /\ new[m] = pre[m]
                    /\ \A q \in DOMAIN g : Live(g, new, rs, q)
<1> DEFINE c   == Len(h) + 1
           top == SubSeq(h[m].path, 1, i)
           low == Drop(h[m].path, i)
           new == [q \in DOMAIN g |-> IF q = c THEN pre[m] \o top ELSE pre[q]]
<1>1. /\ h \in Seq(Node) /\ g \in Seq(Node) /\ Len(h) \in Nat /\ DOMAIN h = 1..Len(h)
      /\ DOMAIN g = 1..c /\ h # <<>>
      /\ pre \in [DOMAIN h -> Seq(Bytes)] /\ pre[m] \in Seq(Bytes)
      /\ h[m].path \in Seq(Bytes)
  BY Nodes DEF HeapOK, IsSplit, Reads
<1>2. /\ top \in Seq(Bytes) /\ low \in Seq(Bytes)
      /\ top \o low = h[m].path
  BY <1>1, Cut
<1>12. (pre[m] \o top) \o low = pre[m] \o h[m].path
  <2> HIDE DEF top, low
  <2>1. pre[m] \in Seq(Bytes) /\ top \in Seq(Bytes) /\ low \in Seq(Bytes)
    BY <1>1, <1>2
  <2>2. (pre[m] \o top) \o low = pre[m] \o (top \o low)
    BY <2>1, Assoc
  <2>3. QED
    BY <2>2, <1>2
<1>3. /\ \A q \in DOMAIN h : q # c /\ new[q] = pre[q]
      /\ new[c] = pre[m] \o top /\ pre[m] \o top \in Seq(Bytes)
      /\ c \in DOMAIN g /\ \A q \in DOMAIN g : q # c => q \in DOMAIN h
  <2>1. pre[m] \o top \in Seq(Bytes)
    BY <1>1, <1>2, ConcatProperties
  <2>2. \A q \in DOMAIN h : q # c /\ q \in DOMAIN g
    BY <1>1
  <2>3. c \in DOMAIN g /\ \A q \in DOMAIN g : q # c => q \in DOMAIN h
    BY <1>1
  <2>4. QED
    BY <2>1, <2>2, <2>3
<1>4. new \in [DOMAIN g -> Seq(Bytes)]
  BY <1>1, <1>3
<1>5. /\ \A q \in DOMAIN h : q # m => g[q] = h[q]
      /\ g[m].path = top /\ g[m].handle = NoHandle /\ ~g[m].wildChild
      /\ g[m].children = <<c>>
      /\ g[c].path = low /\ g[c].handle = h[m].handle
      /\ g[c].wildChild = h[m].wildChild /\ g[c].children = h[m].children
  BY DEF IsSplit
<1> HIDE DEF new, top, low
<1>6. new[c] \o g[c].path = pre[m] \o h[m].path
  BY <1>3, <1>5, <1>12
<1>7. \A q \in DOMAIN h : \A k \in DOMAIN h[q].children :
         /\ h[q].children[k] \in DOMAIN h
         /\ pre[h[q].children[k]] = pre[q] \o h[q].path
  <2>1. \A q \in DOMAIN h : \A k \in DOMAIN h[q].children : h[q].children[k] \in 2..Len(h)
    BY DEF HeapOK, Pointers
  <2>2. 2..Len(h) \subseteq DOMAIN h
    BY <1>1
  <2>3. QED
    BY <2>1, <2>2 DEF Reads
<1>8. ASSUME NEW q \in DOMAIN g
      PROVE  /\ ~g[q].wildChild
             /\ g[q].handle # NoHandle => g[q].handle = new[q] \o g[q].path
             /\ \A k \in DOMAIN g[q].children :
                  new[g[q].children[k]] = new[q] \o g[q].path
             /\ Live(g, new, rs, q)
  <2>1. CASE q = c
    <3>1. ~g[q].wildChild
      BY <2>1, <1>5 DEF Reads
    <3>2. g[q].handle # NoHandle => g[q].handle = new[q] \o g[q].path
      BY <2>1, <1>5, <1>6 DEF Reads
    <3>3. \A k \in DOMAIN g[q].children : new[g[q].children[k]] = new[q] \o g[q].path
      <4>1. g[q].children = h[m].children /\ new[q] \o g[q].path = pre[m] \o h[m].path
        BY <2>1, <1>5, <1>6
      <4>2. \A k \in DOMAIN h[m].children :
              /\ h[m].children[k] \in DOMAIN h
              /\ pre[h[m].children[k]] = pre[m] \o h[m].path
        BY <1>7
      <4>3. \A k \in DOMAIN h[m].children : new[h[m].children[k]] = pre[m] \o h[m].path
        BY <1>3, <4>2
      <4>4. QED
        BY <4>1, <4>3
    <3>4. Live(g, new, rs, q)
      BY <2>1, <1>6 DEF Live
    <3>5. QED
      BY <3>1, <3>2, <3>3, <3>4
  <2>2. CASE q = m
    <3>1. \A k \in DOMAIN g[q].children : new[g[q].children[k]] = new[q] \o g[q].path
      <4>1. new[c] = new[m] \o g[m].path
        BY <1>3, <1>5
      <4>2. \A k \in DOMAIN g[q].children : g[q].children[k] = c
        BY <2>2, <1>5
      <4>3. QED
        BY <2>2, <4>1, <4>2
    <3>2. Live(g, new, rs, q)
      <4>1. Covered((pre[m] \o top) \o low, rs)
        BY <1>12 DEF Live
      <4>2. Covered(pre[m] \o top, rs)
        BY <4>1, <1>2, <1>3, CoveredPrefix
      <4>3. QED
        BY <4>2, <2>2, <1>3, <1>5 DEF Live
    <3>3. QED
      BY <3>1, <3>2, <2>2, <1>5
  <2>3. CASE q # c /\ q # m
    <3>1. q \in DOMAIN h /\ g[q] = h[q] /\ new[q] = pre[q]
      BY <2>3, <1>3, <1>5
    <3>2. \A k \in DOMAIN g[q].children : new[g[q].children[k]] = new[q] \o g[q].path
      BY <3>1, <1>3, <1>7
    <3>3. QED
      BY <3>1, <3>2 DEF Reads, Live
  <2>4. QED
    BY <2>1, <2>2, <2>3
<1>9. new[1] = <<>>
  <2>1. 1 \in DOMAIN h
    BY <1>1, EmptySeq
  <2>2. QED
    BY <2>1, <1>3 DEF Reads
<1>10. Reads(g, new) /\ new[m] = pre[m]
  BY <1>3, <1>4, <1>8, <1>9 DEF Reads
<1>11. QED
  BY <1>8, <1>10

\* A new leaf below n: what arrives there has matched n's path.
LEMMA AddedReads ==
    ASSUME Types, ~heap[n].wildChild, path # <<>>, NEW pre, Reads(heap, pre), NEW rs,
           \A q \in DOMAIN heap : Live(heap, pre, rs, q)
    PROVE  \E new : /\ Reads(Added, new)
                    /\ new[Len(heap) + 1] = pre[n] \o heap[n].path
                    /\ \A q \in DOMAIN heap : Live(Added, new, rs, q)
<1> DEFINE c   == Len(heap) + 1
           new == [q \in DOMAIN Added |-> IF q = c THEN pre[n] \o heap[n].path ELSE pre[q]]
<1>1. /\ heap \in Seq(Node) /\ Len(heap) \in Nat /\ DOMAIN heap = 1..Len(heap)
      /\ heap # <<>> /\ n \in DOMAIN heap /\ HeapOK(heap)
      /\ pre \in [DOMAIN heap -> Seq(Bytes)] /\ pre[n] \in Seq(Bytes)
      /\ heap[n].path \in Seq(Bytes)
      /\ heap[n].children \in Seq(Nat) /\ Len(heap[n].children) \in Nat
      /\ DOMAIN heap[n].children = 1..Len(heap[n].children)
  BY Nodes DEF Types, HeapOK, Reads
<1>2. /\ DOMAIN Added = 1..c /\ Added[n] = Parent
      /\ \A q \in DOMAIN heap : q # n => Added[q] = heap[q]
      /\ Added[c] = Newborn
  <2>1. IsExtended(heap, n, Parent, <<Newborn>>, Added)
    BY AddedIs
  <2>2. Len(<<Newborn>>) = 1 /\ <<Newborn>>[1] = Newborn
    OBVIOUS
  <2>3. QED
    BY <2>1, <2>2, <1>1 DEF IsExtended
<1>3. /\ Parent.path = heap[n].path /\ Parent.handle = heap[n].handle
      /\ Parent.wildChild = FALSE
      /\ Parent.children = Append(heap[n].children, c)
      /\ Newborn.path = <<>> /\ Newborn.handle = NoHandle
      /\ Newborn.wildChild = FALSE /\ Newborn.children = <<>>
  BY AddedIs
<1>4. /\ \A q \in DOMAIN heap : q # c /\ new[q] = pre[q]
      /\ new[c] = pre[n] \o heap[n].path /\ pre[n] \o heap[n].path \in Seq(Bytes)
      /\ c \in DOMAIN Added /\ \A q \in DOMAIN Added : q # c => q \in DOMAIN heap
  <2>1. pre[n] \o heap[n].path \in Seq(Bytes)
    BY <1>1, ConcatProperties
  <2>2. \A q \in DOMAIN heap : q # c /\ q \in DOMAIN Added
    BY <1>1, <1>2
  <2>3. c \in DOMAIN Added /\ \A q \in DOMAIN Added : q # c => q \in DOMAIN heap
    BY <1>1, <1>2
  <2>4. QED
    BY <2>1, <2>2, <2>3
<1>5. new \in [DOMAIN Added -> Seq(Bytes)]
  BY <1>1, <1>4
<1> HIDE DEF new
<1>6. \A q \in DOMAIN heap : \A k \in DOMAIN heap[q].children :
         /\ heap[q].children[k] \in DOMAIN heap
         /\ new[heap[q].children[k]] = new[q] \o heap[q].path
  <2>1. \A q \in DOMAIN heap : \A k \in DOMAIN heap[q].children :
           heap[q].children[k] \in 2..Len(heap)
    BY <1>1 DEF HeapOK, Pointers
  <2>2. 2..Len(heap) \subseteq DOMAIN heap
    BY <1>1
  <2>3. QED
    BY <2>1, <2>2, <1>4 DEF Reads
<1>7. ASSUME NEW q \in DOMAIN Added
      PROVE  /\ ~Added[q].wildChild
             /\ Added[q].handle # NoHandle => Added[q].handle = new[q] \o Added[q].path
             /\ \A k \in DOMAIN Added[q].children :
                  new[Added[q].children[k]] = new[q] \o Added[q].path
             /\ q # c => Live(Added, new, rs, q)
  <2>1. CASE q = c
    BY <2>1, <1>2, <1>3
  <2>2. CASE q = n
    <3>1. q # c /\ new[q] = pre[q] /\ Added[q].path = heap[q].path
          /\ Added[q].handle = heap[q].handle /\ ~Added[q].wildChild
      BY <2>2, <1>1, <1>2, <1>3, <1>4
    <3>2. \A k \in DOMAIN Added[q].children : new[Added[q].children[k]] = new[q] \o Added[q].path
      <4>1. /\ DOMAIN Append(heap[n].children, c) = 1..(Len(heap[n].children) + 1)
            /\ \A k \in 1..Len(heap[n].children) :
                  Append(heap[n].children, c)[k] = heap[n].children[k]
            /\ Append(heap[n].children, c)[Len(heap[n].children) + 1] = c
        BY <1>1, AppendProperties
      <4>2. Added[q].children = Append(heap[n].children, c)
        BY <2>2, <1>2, <1>3
      <4>3. ASSUME NEW k \in DOMAIN Added[q].children
            PROVE  new[Added[q].children[k]] = new[q] \o Added[q].path
        <5>1. CASE k \in DOMAIN heap[n].children
          BY <5>1, <4>1, <4>2, <3>1, <2>2, <1>1, <1>6, ZenonT(60)
        <5>2. CASE k \notin DOMAIN heap[n].children
          <6>1. k = Len(heap[n].children) + 1
            BY <5>2, <4>1, <4>2, <1>1
          <6>2. Added[q].children[k] = c
            BY <6>1, <4>1, <4>2
          <6>3. QED
            BY <6>2, <3>1, <2>2, <1>4
        <5>3. QED
          BY <5>1, <5>2
      <4>4. QED
        BY <4>3
    <3>3. Live(Added, new, rs, q)
      BY <3>1, <2>2, <1>1 DEF Live
    <3>4. QED
      BY <3>1, <3>2, <3>3, <2>2, <1>1 DEF Reads
  <2>3. CASE q # c /\ q # n
    <3>1. q \in DOMAIN heap /\ Added[q] = heap[q] /\ new[q] = pre[q]
      BY <2>3, <1>2, <1>4
    <3>2. \A k \in DOMAIN Added[q].children : new[Added[q].children[k]] = new[q] \o Added[q].path
      BY <3>1, <1>6
    <3>3. QED
      BY <3>1, <3>2 DEF Reads, Live
  <2>4. QED
    BY <2>1, <2>2, <2>3
<1>8. new[1] = <<>>
  <2>1. 1 \in DOMAIN heap
    BY <1>1, EmptySeq
  <2>2. QED
    BY <2>1, <1>4 DEF Reads
<1>9. Reads(Added, new)
  BY <1>5, <1>7, <1>8 DEF Reads
<1>10. ASSUME NEW q \in DOMAIN heap PROVE Live(Added, new, rs, q)
  <2>1. q \in DOMAIN Added /\ q # c
    BY <1>1, <1>2, <1>4
  <2>2. QED
    BY <1>7, <2>1
<1>11. new[c] = pre[n] \o heap[n].path
  BY <1>4
<1>12. QED
  BY <1>9, <1>10, <1>11

-----------------------------------------------------------------------------
\* What the tree is while no wildcard has been registered.

\* No route has a wildcard, and the one being inserted has none.
Plain ==
    /\ \A k \in DOMAIN registered : wildcardNum(registered[k]) = 0
    /\ pc \in {"walk", "descend", "insert", "scan", "panic"} => wildcardNum(arg) = 0

\* What has been matched, what the current node holds and what is left of the
\* path make up the path.
Placed(pre) ==
    /\ pc # "scan"
    /\ pc \in {"walk", "descend", "insert"} => wildcard = 0
    /\ pc \in {"walk", "insert", "lookup"} => arg = pre[n] \o path
    /\ pc = "descend" => /\ arg = (pre[n] \o heap[n].path) \o path
                         /\ path = <<>> => Covered(arg, registered)
    /\ pc = "insert" => heap[n].path = <<>> /\ heap[n].children = <<>>
    /\ pc = "lookup" => params = <<>>

\* Every node is on the way to a route, but for the new leaf and the root of
\* an empty tree.
Kept(pre) ==
    \A m \in DOMAIN heap :
      \/ Live(heap, pre, registered, m)
      \/ pc = "insert" /\ m = n
      \/ /\ m = 1 /\ heap[1].path = <<>> /\ heap[1].children = <<>>
         /\ pc \notin {"walk", "descend"}

Charted == \E pre : Reads(heap, pre) /\ Placed(pre) /\ Kept(pre)

Refused ==
    \/ Desynced
    \/ arg = <<>> \/ arg[1] # "/"
    \/ Covered(arg, registered)

PlainInv ==
    Plain => /\ pc = "panic" => Refused
             /\ pc # "panic" => Charted
             /\ Hit => result.handle = arg /\ params = <<>>

\* Once the routes have a wildcard they always have one.
LEMMA PlainBefore ==
    ASSUME Types, [Next]_vars, Plain'
    PROVE  Plain
<1>1. CASE UNCHANGED vars
  BY <1>1 DEF vars, Plain
<1>2. CASE \E p \in Routes : InsertRefused(p) \/ Insert(p)
  BY <1>2 DEF Plain, InsertRefused, Insert, tree
<1>3. CASE AddRoute
  <2>1. CASE UNCHANGED <<registered, arg>> /\ pc' \in {"walk", "descend", "insert", "scan", "panic"}
    BY <2>1 DEF Plain
  <2>2. CASE registered' = Append(registered, arg)
    <3>1. registered \in Seq(Seq(Bytes)) /\ arg \in Seq(Bytes)
      BY DEF Types
    <3>2. /\ Len(registered) \in Nat /\ DOMAIN registered = 1..Len(registered)
          /\ DOMAIN registered' = 1..(Len(registered) + 1)
          /\ \A k \in 1..Len(registered) : registered'[k] = registered[k]
          /\ registered'[Len(registered) + 1] = arg
      BY <2>2, <3>1, LenProperties, AppendProperties
    <3>3. \A k \in DOMAIN registered' : wildcardNum(registered'[k]) = 0
      BY DEF Plain
    <3>4. wildcardNum(arg) = 0
      <4>1. Len(registered) + 1 \in DOMAIN registered'
        BY <3>2
      <4>2. QED
        BY <3>2, <3>3, <4>1
    <3>5. \A k \in DOMAIN registered : wildcardNum(registered[k]) = 0
      <4>1. \A k \in DOMAIN registered : k \in DOMAIN registered'
        BY <3>2
      <4>2. QED
        BY <3>2, <3>3, <4>1
    <3>6. QED
      BY <3>4, <3>5 DEF Plain
  <2>3. QED
    BY <1>3, <2>1, <2>2 DEF AddRoute, Walk, DescendWild, DescendNothing, DescendSlash,
         DescendIndex, AddChild, InsertLeaf, InsertBadWild, InsertParam,
         InsertBadCatchAll, InsertCatchAll, InsertEnd, Panic, Registered
<1>4. CASE Listen \/ Answered \/ (\E p \in Paths : Match(p)) \/ GetValue
  <2>1. UNCHANGED registered /\ pc \notin {"walk", "descend", "insert", "scan", "panic"}
    BY <1>4 DEF Listen, Answered, Match, GetValue, LookupChild, LookupParamPanic,
         LookupParam, LookupCatchAll, LookupEnd, LookupMiss, AtWildChild, AtNode, tree
  <2>2. QED
    BY <2>1 DEF Plain
<1>5. QED
  BY <1>1, <1>2, <1>3, <1>4 DEF Next

\* While a route walks down, every node is on the way to a route.
LEMMA AllLive ==
    ASSUME NEW pre, Kept(pre), pc \in {"walk", "descend"}
    PROVE  \A m \in DOMAIN heap : Live(heap, pre, registered, m)
  BY DEF Kept

\* The walk goes on in a child.
LEMMA GoDown ==
    ASSUME Types, pc = "descend", NEW pre, Reads(heap, pre), Placed(pre), Kept(pre),
           SameShapes(heap, heap'), NEW k \in DOMAIN heap[n].children,
           n' = heap[n].children[k], pc' = "walk",
           UNCHANGED <<arg, path, wildcard, registered>>
    PROVE  Charted'
<1>1. HeapOK(heap) /\ n \in DOMAIN heap
  BY DEF Types
<1>2. /\ Reads(heap', pre) /\ DOMAIN heap' = DOMAIN heap
      /\ \A m \in DOMAIN heap : Live(heap', pre, registered, m)
  BY <1>1, SameReads, AllLive
<1>3. pre[n'] = pre[n] \o heap[n].path
  BY <1>1 DEF Reads
<1>4. Placed(pre)'
  BY <1>3 DEF Placed
<1>5. Kept(pre)'
  BY <1>2 DEF Kept
<1>6. QED
  BY <1>2, <1>4, <1>5 DEF Charted

\* Descending keeps the tree charted; it panics only when index bytes and
\* children are out of step.
LEMMA DescendCharted ==
    ASSUME Types, Plain, PlainInv, Plain', DescendSlash \/ DescendIndex \/ DescendWild
    PROVE  /\ pc' = "panic" => Refused'
           /\ pc' # "panic" => Charted'
<1>1. pc = "descend" /\ Charted
  BY DEF DescendSlash, DescendIndex, DescendWild, AtByte, PlainInv
<1>2. PICK pre : Reads(heap, pre) /\ Placed(pre) /\ Kept(pre)
  BY <1>1 DEF Charted
<1>3. n \in DOMAIN heap /\ ~heap[n].wildChild
  BY <1>2 DEF Types, Reads
<1>4. CASE DescendWild
  BY <1>3, <1>4 DEF DescendWild
<1>5. CASE DescendSlash
  <2>1. /\ n' = heap[n].children[1] /\ SameShapes(heap, heap')
        /\ pc' = "walk" /\ UNCHANGED <<arg, path, wildcard, registered>>
    BY <1>5, DescendSlashIs DEF DescendSlash
  <2>2. 1 \in DOMAIN heap[n].children
    <3>1. Len(heap[n].children) = 1
      BY <1>5, DescendSlashIs
    <3>2. QED
      BY <3>1, <1>3, ChildInside
  <2>3. QED
    BY <1>1, <1>2, <2>1, <2>2, GoDown
<1>6. CASE DescendIndex
  <2> DEFINE k == IndexOf(heap[n], path[1])
  <2>1. /\ k \in 1..Len(heap[n].indices)
        /\ \/ k > Len(heap[n].children) /\ Panic
           \/ /\ k <= Len(heap[n].children) /\ SameNodes(heap, heap')
              /\ n' = heap[n].children[k] /\ pc' = "walk"
              /\ k \in DOMAIN heap[n].children
              /\ UNCHANGED <<arg, path, wildcard, registered>>
    BY <1>6, DescendIndexIs
  <2> HIDE DEF k
  <2>2. CASE k > Len(heap[n].children) /\ Panic
    <3>1. heap' = heap /\ pc' = "panic"
      BY <2>2 DEF Panic
    <3>2. Len(heap[n].indices) > Len(heap[n].children)
      <4>1. Len(heap[n].indices) \in Nat /\ Len(heap[n].children) \in Nat
        BY <1>3, Nodes DEF Types, HeapOK
      <4>2. QED
        BY <4>1, <2>1, <2>2
    <3>3. Desynced'
      BY <3>1, <3>2, <1>3 DEF Desynced
    <3>4. QED
      BY <3>1, <3>3 DEF Refused
  <2>3. CASE SameNodes(heap, heap') /\ n' = heap[n].children[k] /\ pc' = "walk"
             /\ k \in DOMAIN heap[n].children
             /\ UNCHANGED <<arg, path, wildcard, registered>>
    <3>1. SameShapes(heap, heap')
      BY <2>3, SameNodesShapes
    <3>2. QED
      BY <1>1, <1>2, <2>3, <3>1, GoDown
  <2>4. QED
    BY <2>1, <2>2, <2>3
<1>7. QED
  BY <1>4, <1>5, <1>6

\* With no path left the route begins a registered one.
LEMMA NothingLeft ==
    ASSUME Types, Plain, PlainInv, DescendNothing
    PROVE  pc' = "panic" /\ Refused'
<1>1. pc = "descend" /\ path = <<>> /\ pc' = "panic" /\ UNCHANGED <<arg, registered>>
  BY DEF DescendNothing, Panic
<1>2. PICK pre : Placed(pre)
  BY <1>1 DEF PlainInv, Charted
<1>3. Covered(arg, registered)
  BY <1>1, <1>2 DEF Placed
<1>4. QED
  BY <1>1, <1>3 DEF Refused

\* A new leaf keeps the tree charted; adding it panics only when index bytes
\* and children are out of step.
LEMMA AddChildCharted ==
    ASSUME Types, Plain, PlainInv, AddChild
    PROVE  /\ pc' = "panic" => Refused'
           /\ pc' # "panic" => Charted'
<1>1. /\ pc = "descend" /\ ~heap[n].wildChild /\ path # <<>> /\ n \in DOMAIN heap
      /\ UNCHANGED <<arg, path, wildcard, registered>>
  BY AddChildIs DEF Types
<1>2. PICK pre : Reads(heap, pre) /\ Placed(pre) /\ Kept(pre)
  BY <1>1 DEF PlainInv, Charted
<1>3. /\ pre[n] \o heap[n].path \in Seq(Bytes) /\ path \in Seq(Bytes) /\ heap \in Seq(Node)
      /\ Len(heap) \in Nat /\ DOMAIN heap = 1..Len(heap)
  <2>1. pre[n] \in Seq(Bytes)
    BY <1>1, <1>2 DEF Reads
  <2>2. heap[n].path \in Seq(Bytes)
    BY <1>1, Nodes DEF Types, HeapOK
  <2>3. QED
    BY <2>1, <2>2, Assoc, Nodes DEF Types, HeapOK
<1>4. ~IsWild(path[1])
  <2>1. wildcardNum((pre[n] \o heap[n].path) \o path) = 0
    BY <1>1, <1>2 DEF Placed, Plain
  <2>2. 1 \in DOMAIN path
    BY <1>1, <1>3, EmptySeq, LenProperties
  <2>3. QED
    BY <1>3, <2>1, <2>2, PlainTail
<1>5. CASE pc' = "panic" /\ heap' = Added /\ Len(Added[n].indices) > Len(Added[n].children)
  <2>1. n \in DOMAIN Added
    <3>1. IsExtended(heap, n, Parent, <<Newborn>>, Added)
      BY <1>1, AddedIs
    <3>2. DOMAIN Added = 1..(Len(heap) + 1)
      BY <3>1 DEF IsExtended
    <3>3. QED
      BY <3>2, <1>1, <1>3
  <2>2. Desynced'
    BY <1>5, <2>1 DEF Desynced
  <2>3. QED
    BY <1>5, <2>2 DEF Refused
<1>6. CASE pc' = "insert" /\ SameNodes(Added, heap') /\ n' = Len(heap) + 1
  <2>1. PICK new : /\ Reads(Added, new)
                   /\ new[Len(heap) + 1] = pre[n] \o heap[n].path
                   /\ \A q \in DOMAIN heap : Live(Added, new, registered, q)
    BY <1>1, <1>2, AddedReads, AllLive
  <2>2. HeapOK(Added) /\ SameShapes(Added, heap')
    BY <1>1, <1>6, AddedIs, SameNodesShapes
  <2>3. /\ DOMAIN Added = 1..(Len(heap) + 1) /\ Added[Len(heap) + 1] = Newborn
    <3>1. IsExtended(heap, n, Parent, <<Newborn>>, Added)
      BY <1>1, AddedIs
    <3>2. Len(<<Newborn>>) = 1 /\ <<Newborn>>[1] = Newborn
      OBVIOUS
    <3>3. QED
      BY <3>1, <3>2 DEF IsExtended
  <2>4. n' \in DOMAIN Added /\ Added[n'] = Newborn
    BY <1>3, <1>6, <2>3
  <2>5. /\ Reads(heap', new) /\ DOMAIN heap' = DOMAIN Added
        /\ \A q \in DOMAIN heap : Live(heap', new, registered, q)
    <3>1. DOMAIN heap \subseteq DOMAIN Added
      BY <1>3, <2>3
    <3>2. /\ Reads(heap', new) /\ DOMAIN heap' = DOMAIN Added
          /\ \A rs, m : m \in DOMAIN Added =>
                (Live(heap', new, rs, m) <=> Live(Added, new, rs, m))
      BY <2>1, <2>2, SameReads
    <3>3. QED
      BY <2>1, <3>1, <3>2
  <2>6. heap'[n'].path = <<>> /\ heap'[n'].children = <<>>
    <3>1. SameNode(Added[n'], heap'[n'])
      BY <1>6, <2>4 DEF SameNodes
    <3>2. Newborn.path = <<>> /\ Newborn.children = <<>>
      BY <1>1, AddedIs
    <3>3. heap'[n'].path = <<>> /\ Len(heap'[n'].children) = 0
      BY <2>4, <3>1, <3>2 DEF SameNode
    <3>4. heap'[n'].children \in Seq(Nat)
      <4>1. heap' \in Seq(Node)
        BY <1>6 DEF SameNodes
      <4>2. QED
        BY <4>1, <2>4, <2>5, Nodes
    <3>5. QED
      BY <3>3, <3>4, EmptySeq
  <2>7. Placed(new)'
    <3>1. arg' = new[n'] \o path' /\ wildcard' = 0
      BY <1>1, <1>2, <1>6, <2>1 DEF Placed
    <3>2. QED
      BY <1>6, <2>6, <3>1 DEF Placed
  <2>8. Kept(new)'
    <3>1. \A m \in DOMAIN heap' : m \in DOMAIN heap \/ m = n'
      BY <1>3, <1>6, <2>3, <2>5
    <3>2. QED
      BY <1>1, <1>6, <2>5, <3>1 DEF Kept
  <2>9. QED
    BY <1>6, <2>5, <2>7, <2>8 DEF Charted
<1>7. QED
  BY <1>4, <1>5, <1>6, AddChildIs

\* The path ends inside the node: it is the beginning of a route.
LEMMA WalkCovered ==
    ASSUME Types, Walk, NEW pre, Reads(heap, pre), Placed(pre), Kept(pre),
           Common = Len(path)
    PROVE  Covered(arg, registered)
<1>1. /\ n \in DOMAIN heap /\ path \in Seq(Bytes) /\ heap[n].path \in Seq(Bytes)
      /\ pre[n] \in Seq(Bytes) /\ pc = "walk"
  BY Nodes DEF Types, HeapOK, Reads, Walk
<1>2. /\ Common \in 0..Len(heap[n].path)
      /\ SubSeq(path, 1, Common) = SubSeq(heap[n].path, 1, Common)
  BY WalkIs
<1>3. SubSeq(path, 1, Common) = path
  BY <1>1, SubSeqFull
<1>4. PICK d \in Seq(Bytes) : heap[n].path = path \o d
  <2>1. /\ Drop(heap[n].path, Common) \in Seq(Bytes)
        /\ SubSeq(heap[n].path, 1, Common) \o Drop(heap[n].path, Common) = heap[n].path
    BY <1>1, <1>2, Cut
  <2>2. path \o Drop(heap[n].path, Common) = heap[n].path
    BY <1>2, <1>3, <2>1
  <2>3. QED
    BY <2>1, <2>2
<1>5. Covered(pre[n] \o heap[n].path, registered)
  BY <1>1, AllLive DEF Live
<1>6. pre[n] \o heap[n].path = (pre[n] \o path) \o d /\ pre[n] \o path \in Seq(Bytes)
  <2>1. PICK x \in Seq(Bytes) : x = pre[n]
    BY <1>1
  <2>2. (x \o path) \o d = x \o (path \o d) /\ x \o path \in Seq(Bytes)
    BY <1>1, Assoc
  <2>3. QED
    BY <1>4, <2>1, <2>2
<1>7. Covered(pre[n] \o path, registered)
  BY <1>5, <1>6, CoveredPrefix
<1>8. QED
  BY <1>1, <1>7 DEF Placed

\* A split edge and the handle of an in-path leaf keep the tree charted; Walk
\* panics only for a path that begins a route.
LEMMA WalkCharted ==
    ASSUME Types, Plain, PlainInv, Walk
    PROVE  /\ pc' = "panic" => Refused'
           /\ pc' # "panic" => Charted'
<1>1. /\ pc = "walk" /\ n \in DOMAIN heap /\ path \in Seq(Bytes) /\ Len(path) \in Nat
      /\ heap[n].path \in Seq(Bytes) /\ HeapOK(heap)
      /\ UNCHANGED <<arg, n, wildcard, registered>>
      /\ arg \in Seq(Bytes)
  BY Nodes, LenProperties DEF Types, HeapOK, Walk
<1>2. PICK pre : Reads(heap, pre) /\ Placed(pre) /\ Kept(pre)
  BY <1>1 DEF PlainInv, Charted
<1>3. Common = Len(path) => Covered(arg, registered)
  BY <1>2, WalkCovered
<1>4. CASE pc' = "panic"
  <2>1. Common = Len(path)
    <3>1. LeafTaken(Common, Parted[n])
      BY <1>4, WalkIs
    <3>2. QED
      BY <3>1 DEF LeafTaken
  <2>2. QED
    BY <1>1, <1>3, <1>4, <2>1 DEF Refused
<1>5. CASE pc' # "panic"
  <2> DEFINE top == SubSeq(path, 1, Common)
  <2>1. /\ Common \in 0..Len(path) /\ Common \in 0..Len(heap[n].path)
        /\ top = SubSeq(heap[n].path, 1, Common)
        /\ path' = Drop(path, Common) /\ pc' = "descend"
        /\ HeapOK(Parted) /\ n \in DOMAIN Parted /\ Parted \in Seq(Node)
        /\ heap' = IF Common = Len(path)
                     THEN [Parted EXCEPT ![n] = Refilled(Parted[n], Parted[n].path, arg)]
                     ELSE Parted
    BY <1>5, WalkIs
  <2>2. top \in Seq(Bytes) /\ path' \in Seq(Bytes) /\ top \o path' = path
    BY <1>1, <2>1, Cut
  <2>3. /\ HeapOK(Lifted) /\ SameShapes(heap, Lifted) /\ DOMAIN Lifted = DOMAIN heap
        /\ Lifted[n].path = heap[n].path
    BY <1>1, LiftedOK
  <2>4. Reads(Lifted, pre) /\ \A m \in DOMAIN Lifted : Live(Lifted, pre, registered, m)
    BY <1>1, <1>2, <2>3, SameReads, AllLive
  <2>5. \E new : /\ Reads(Parted, new) /\ new[n] = pre[n]
                 /\ \A m \in DOMAIN Parted : Live(Parted, new, registered, m)
    <3>1. CASE Common = Len(heap[n].path)
      <4>1. Parted = Lifted
        BY <3>1, WalkIs
      <4>2. QED
        BY <4>1, <2>4
    <3>2. CASE Common # Len(heap[n].path)
      <4>1. IsSplit(Lifted, n, Common, Parted)
        BY <3>2, WalkIs
      <4>2. Common \in 0..Len(Lifted[n].path) /\ n \in DOMAIN Lifted
        BY <1>1, <2>1, <2>3
      <4>3. PICK h, g, i : h = Lifted /\ g = Parted /\ i = Common
        OBVIOUS
      <4>4. /\ HeapOK(h) /\ n \in DOMAIN h /\ i \in 0..Len(h[n].path) /\ HeapOK(g)
            /\ IsSplit(h, n, i, g) /\ Reads(h, pre)
            /\ \A q \in DOMAIN h : Live(h, pre, registered, q)
        BY <2>1, <2>3, <2>4, <4>1, <4>2, <4>3
      <4>5. \E new : /\ Reads(g, new) /\ new[n] = pre[n]
                     /\ \A q \in DOMAIN g : Live(g, new, registered, q)
        BY <4>4, SplitReads, ZenonT(60)
      <4>6. QED
        BY <4>3, <4>5
    <3>3. QED
      BY <3>1, <3>2
  <2>6. PICK new : /\ Reads(Parted, new) /\ new[n] = pre[n]
                   /\ \A m \in DOMAIN Parted : Live(Parted, new, registered, m)
    BY <2>5
  <2>7. Parted[n].path = top
    <3>1. CASE Common = Len(heap[n].path)
      <4>1. Parted = Lifted
        BY <3>1, WalkIs
      <4>2. top = heap[n].path
        BY <1>1, <2>1, <3>1, SubSeqFull
      <4>3. QED
        BY <4>1, <4>2, <2>3
    <3>2. CASE Common # Len(heap[n].path)
      <4>1. IsSplit(Lifted, n, Common, Parted)
        BY <3>2, WalkIs
      <4>2. Parted[n].path = SubSeq(Lifted[n].path, 1, Common)
        BY <4>1 DEF IsSplit
      <4>3. QED
        BY <4>2, <2>1, <2>3
    <3>3. QED
      BY <3>1, <3>2
  <2> HIDE DEF top
  <2>8. pre[n] \in Seq(Bytes) /\ arg = pre[n] \o path /\ wildcard = 0
    BY <1>1, <1>2 DEF Reads, Placed
  <2>9. arg = (pre[n] \o top) \o path'
    BY <2>2, <2>8, Assoc
  <2>10. /\ Reads(heap', new) /\ \A m \in DOMAIN heap' : Live(heap', new, registered, m)
         /\ heap'[n].path = top
    <3>1. CASE Common # Len(path)
      BY <3>1, <2>1, <2>6, <2>7
    <3>2. CASE Common = Len(path)
      <4>1. heap' = [Parted EXCEPT ![n] = Refilled(Parted[n], Parted[n].path, arg)]
        BY <2>1, <3>2
      <4>2. Parted[n].path \in Seq(Bytes)
        BY <2>2, <2>7
      <4>3. /\ DOMAIN heap' = DOMAIN Parted
            /\ \A q \in DOMAIN Parted : q # n => heap'[q] = Parted[q]
            /\ heap'[n].path = top /\ heap'[n].handle = arg
            /\ \A q \in DOMAIN Parted : /\ heap'[q].children = Parted[q].children
                                        /\ heap'[q].wildChild = Parted[q].wildChild
        <5>1. PICK h, p : h = Parted /\ p = Parted[n].path
          OBVIOUS
        <5>2. /\ HeapOK(h) /\ n \in DOMAIN h /\ p \in Seq(Bytes)
              /\ heap' = [h EXCEPT ![n] = Refilled(h[n], p, arg)]
          BY <2>1, <4>1, <4>2, <5>1
        <5>3. /\ DOMAIN heap' = DOMAIN h
              /\ \A q \in DOMAIN h : q # n => heap'[q] = h[q]
              /\ heap'[n].path = p /\ heap'[n].handle = arg
              /\ \A q \in DOMAIN h : /\ heap'[q].children = h[q].children
                                     /\ heap'[q].wildChild = h[q].wildChild
          BY <1>1, <5>2, RefilledNode
        <5>4. QED
          BY <2>7, <5>1, <5>3
      <4>4. \A q \in DOMAIN Parted : heap'[q].path = Parted[q].path
        BY <4>3, <2>7
      <4>5. path' = <<>>
        BY <1>1, <2>1, <3>2, Cut
      <4>6. arg = new[n] \o heap'[n].path
        <5>1. path = top
          BY <2>2, <4>5, ConcatEmptySeq
        <5>2. QED
          BY <5>1, <2>6, <2>8, <4>3
      <4>7. ASSUME NEW q \in DOMAIN heap'
            PROVE  /\ ~heap'[q].wildChild
                   /\ heap'[q].handle # NoHandle => heap'[q].handle = new[q] \o heap'[q].path
                   /\ \A k \in DOMAIN heap'[q].children :
                        new[heap'[q].children[k]] = new[q] \o heap'[q].path
                   /\ Live(heap', new, registered, q)
        <5>1. heap'[q].children = Parted[q].children /\ heap'[q].path = Parted[q].path
              /\ heap'[q].wildChild = Parted[q].wildChild /\ q \in DOMAIN Parted
          BY <4>3, <4>4
        <5>2. heap'[q].handle # NoHandle => heap'[q].handle = new[q] \o heap'[q].path
          <6>1. CASE q = n
            BY <6>1, <4>3, <4>6
          <6>2. CASE q # n
            BY <6>2, <4>3, <5>1, <2>6 DEF Reads
          <6>3. QED
            BY <6>1, <6>2
        <5>3. QED
          BY <5>1, <5>2, <2>6 DEF Reads, Live
      <4>8. Reads(heap', new)
        BY <2>6, <4>3, <4>7 DEF Reads
      <4>9. QED
        BY <4>3, <4>7, <4>8
    <3>3. QED
      BY <3>1, <3>2
  <2>11. Placed(new)'
    <3>1. path' = <<>> => Covered(arg, registered)
      <4>1. ASSUME path' = <<>> PROVE Common = Len(path)
        <5>1. Len(path') = Len(path) - Common
          BY <1>1, <2>1, Cut
        <5>2. Len(path') = 0
          BY <4>1
        <5>3. QED
          BY <5>1, <5>2, <1>1, <2>1
      <4>2. QED
        BY <4>1, <1>3
    <3>2. arg' = (new[n'] \o heap'[n'].path) \o path' /\ wildcard' = 0
      BY <1>1, <2>6, <2>8, <2>9, <2>10
    <3>3. QED
      BY <1>1, <2>1, <3>1, <3>2 DEF Placed
  <2>12. Kept(new)'
    BY <1>1, <2>10 DEF Kept
  <2>13. QED
    BY <2>1, <2>10, <2>11, <2>12 DEF Charted
<1>6. QED
  BY <1>4, <1>5

\* The new leaf gets the rest of the path and the handle.
LEMMA LeafCharted ==
    ASSUME Types, Plain, PlainInv, InsertLeaf
    PROVE  pc' = "register" /\ Charted'
<1>1. /\ pc = "insert" /\ n \in DOMAIN heap /\ path \in Seq(Bytes) /\ HeapOK(heap)
      /\ arg \in Seq(Bytes) /\ registered \in Seq(Seq(Bytes))
      /\ heap' = [heap EXCEPT ![n] = Refilled(heap[n], path, arg)]
      /\ registered' = Append(registered, arg) /\ pc' = "register"
  BY InsertLeafIs DEF Types
<1>2. PICK pre : Reads(heap, pre) /\ Placed(pre) /\ Kept(pre)
  BY <1>1 DEF PlainInv, Charted
<1>3. arg = pre[n] \o path /\ heap[n].children = <<>>
  BY <1>1, <1>2 DEF Placed
<1>4. /\ DOMAIN heap' = DOMAIN heap
      /\ \A q \in DOMAIN heap : q # n => heap'[q] = heap[q]
      /\ heap'[n].path = path /\ heap'[n].handle = arg
      /\ \A q \in DOMAIN heap : /\ heap'[q].children = heap[q].children
                                /\ heap'[q].wildChild = heap[q].wildChild
  BY <1>1, RefilledNode
<1>5. ASSUME NEW q \in DOMAIN heap'
      PROVE  /\ ~heap'[q].wildChild
             /\ heap'[q].handle # NoHandle => heap'[q].handle = pre[q] \o heap'[q].path
             /\ \A k \in DOMAIN heap'[q].children :
                  pre[heap'[q].children[k]] = pre[q] \o heap'[q].path
  <2>1. CASE q = n
    <3>1. heap'[q].children = <<>> /\ ~heap'[q].wildChild
      BY <2>1, <1>1, <1>2, <1>3, <1>4 DEF Reads
    <3>2. QED
      BY <3>1, <2>1, <1>3, <1>4
  <2>2. CASE q # n
    BY <2>2, <1>2, <1>4 DEF Reads
  <2>3. QED
    BY <2>1, <2>2
<1>6. Reads(heap', pre)
  BY <1>2, <1>4, <1>5 DEF Reads
<1>7. Placed(pre)'
  BY <1>1 DEF Placed
<1>8. ASSUME NEW m \in DOMAIN heap'
      PROVE  \/ Live(heap', pre, registered', m)
             \/ m = 1 /\ heap'[1].path = <<>> /\ heap'[1].children = <<>>
  <2>1. CASE m = n
    BY <2>1, <1>1, <1>3, <1>4, CoveredAppend DEF Live
  <2>2. CASE m # n
    <3>1. heap'[m] = heap[m] /\ m \in DOMAIN heap
      BY <2>2, <1>4
    <3>2. CASE Live(heap, pre, registered, m)
      BY <3>1, <3>2, <1>1, CoveredAppend DEF Live
    <3>3. CASE m = 1 /\ heap[1].path = <<>> /\ heap[1].children = <<>>
      BY <3>1, <3>3
    <3>4. QED
      BY <3>1, <3>2, <3>3, <2>2, <1>2 DEF Kept
  <2>3. QED
    BY <2>1, <2>2
<1>9. Kept(pre)'
  BY <1>1, <1>8 DEF Kept
<1>10. QED
  BY <1>1, <1>6, <1>7, <1>9 DEF Charted

\* No other step of insertChild can be taken.
LEMMA NoWildcards ==
    ASSUME Plain, PlainInv,
           InsertBadWild \/ InsertParam \/ InsertBadCatchAll \/ InsertCatchAll \/ InsertEnd
    PROVE  FALSE
<1>1. pc = "scan" \/ (pc = "insert" /\ wildcard > 0)
  BY DEF InsertBadWild, InsertParam, InsertBadCatchAll, InsertCatchAll, InsertEnd, AtWild
<1>2. PICK pre : Placed(pre)
  BY <1>1 DEF PlainInv, Charted
<1>3. wildcard = 0
  BY <1>1, <1>2 DEF Placed
<1>4. QED
  BY <1>1, <1>2, <1>3 DEF Placed

\* The beginning of addRoute keeps the tree charted.
LEMMA InsertCharted ==
    ASSUME Types, Plain, Plain', PlainInv, NEW p \in Routes, Insert(p)
    PROVE  pc' # "panic" /\ Charted'
<1>1. /\ pc = "register" /\ HeapOK(heap) /\ p \in Seq(Bytes) /\ 1 \in DOMAIN heap
  BY RoutesAreBytes, Nodes, EmptySeq DEF Types, HeapOK, Insert
<1>2. PICK pre : Reads(heap, pre) /\ Placed(pre) /\ Kept(pre)
  BY <1>1 DEF PlainInv, Charted
<1>3. /\ arg' = p /\ n' = 1 /\ path' = p /\ wildcard' = wildcardNum(p)
      /\ registered' = registered
      /\ pc' = IF heap[1].path = <<>> /\ heap[1].children = <<>> THEN "insert" ELSE "walk"
      /\ SameShapes(heap, heap')
  BY InsertTypes DEF Insert
<1>4. wildcard' = 0
  BY <1>3 DEF Plain
<1>5. /\ Reads(heap', pre) /\ DOMAIN heap' = DOMAIN heap
      /\ \A m \in DOMAIN heap : Live(heap', pre, registered, m) <=> Live(heap, pre, registered, m)
  BY <1>1, <1>2, <1>3, SameReads
<1>6. arg' = pre[n'] \o path'
  <2>1. pre[1] = <<>>
    BY <1>2 DEF Reads
  <2>2. QED
    BY <2>1, <1>1, <1>3, ConcatEmptySeq
<1>7. /\ heap'[1].path = heap[1].path
      /\ heap[1].children = <<>> => heap'[1].children = <<>>
  <2>1. SameShape(heap[1], heap'[1])
    BY <1>1, <1>3 DEF SameShapes
  <2>2. heap'[1].children \in Seq(Nat)
    <3>1. heap' \in Seq(Node)
      BY <1>3 DEF SameShapes
    <3>2. QED
      BY <3>1, <1>1, <1>5, Nodes
  <2>3. heap[1].children = <<>> => Len(heap'[1].children) = 0
    BY <2>1 DEF SameShape
  <2>4. QED
    BY <2>1, <2>2, <2>3, EmptySeq DEF SameShape
<1>8. CASE heap[1].path = <<>> /\ heap[1].children = <<>>
  <2>1. pc' = "insert"
    BY <1>3, <1>8
  <2>2. Placed(pre)'
    BY <1>3, <1>4, <1>6, <1>7, <1>8, <2>1 DEF Placed
  <2>3. Kept(pre)'
    BY <1>1, <1>2, <1>3, <1>5, <1>7, <1>8, <2>1 DEF Kept
  <2>4. QED
    BY <1>5, <2>1, <2>2, <2>3 DEF Charted
<1>9. CASE ~(heap[1].path = <<>> /\ heap[1].children = <<>>)
  <2>1. pc' = "walk"
    BY <1>3, <1>9
  <2>2. Placed(pre)'
    BY <1>4, <1>6, <2>1 DEF Placed
  <2>3. \A m \in DOMAIN heap : Live(heap, pre, registered, m)
    BY <1>1, <1>2, <1>9 DEF Kept
  <2>4. Kept(pre)'
    BY <1>3, <1>5, <2>3 DEF Kept
  <2>5. QED
    BY <1>5, <2>1, <2>2, <2>4 DEF Charted
<1>10. QED
  BY <1>8, <1>9

RightHit == Hit => result.handle = arg /\ params = <<>>

\* The beginning of a lookup keeps the tree charted.
LEMMA MatchCharted ==
    ASSUME Types, Plain, PlainInv, NEW p \in Paths, Match(p)
    PROVE  pc' = "lookup" /\ Charted'
<1>1. /\ pc = "serve" /\ HeapOK(heap) /\ p \in Seq(Bytes) /\ 1 \in DOMAIN heap
  BY RoutesAreBytes, Nodes, EmptySeq DEF Types, HeapOK, Match
<1>2. PICK pre : Reads(heap, pre) /\ Placed(pre) /\ Kept(pre)
  BY <1>1 DEF PlainInv, Charted
<1>3. /\ arg' = p /\ n' = 1 /\ path' = p /\ params' = <<>>
      /\ registered' = registered /\ heap' = heap /\ pc' = "lookup"
  BY DEF Match, tree
<1>4. arg' = pre[n'] \o path'
  <2>1. pre[1] = <<>>
    BY <1>2 DEF Reads
  <2>2. QED
    BY <2>1, <1>1, <1>3, ConcatEmptySeq
<1>5. Placed(pre)'
  BY <1>3, <1>4 DEF Placed
<1>6. Kept(pre)'
  BY <1>1, <1>2, <1>3 DEF Kept
<1>7. QED
  BY <1>2, <1>3, <1>5, <1>6 DEF Charted

\* A lookup without wildcards: it moves to the child of the next byte, misses,
\* panics, or has read the whole path at a node with a handle.
LEMMA LookupCharted ==
    ASSUME Types, Plain, PlainInv, GetValue
    PROVE  pc' # "panic" /\ Charted' /\ RightHit'
<1>1. /\ pc = "lookup" /\ n \in DOMAIN heap /\ path \in Seq(Bytes) /\ HeapOK(heap)
      /\ heap[n].path \in Seq(Bytes) /\ heap' = heap /\ registered' = registered
      /\ arg' = arg
  BY Nodes DEF Types, HeapOK, GetValue, LookupChild, LookupParamPanic, LookupParam,
     LookupCatchAll, LookupEnd, LookupMiss, AtWildChild, AtNode, tree
<1>2. PICK pre : Reads(heap, pre) /\ Placed(pre) /\ Kept(pre)
  BY <1>1 DEF PlainInv, Charted
<1>3. /\ arg = pre[n] \o path /\ params = <<>> /\ pre[n] \in Seq(Bytes)
      /\ ~heap[n].wildChild
  BY <1>1, <1>2 DEF Placed, Reads
<1>4. ASSUME pc' = "answer" PROVE Charted'
  <2>1. Placed(pre)' /\ Kept(pre)'
    BY <1>1, <1>2, <1>4 DEF Placed, Kept
  <2>2. QED
    BY <1>1, <1>2, <2>1 DEF Charted
<1>5. CASE LookupParamPanic \/ LookupParam \/ LookupCatchAll
  BY <1>3, <1>5 DEF LookupParamPanic, LookupParam, LookupCatchAll, AtWildChild
<1>6. CASE LookupMiss
  <2>1. pc' = "answer" /\ result'.kind = "miss"
    BY <1>6 DEF LookupMiss, Return, Answer
  <2>2. QED
    BY <2>1, <1>4 DEF RightHit, Hit
<1>7. CASE LookupEnd
  <2>1. pc' = "answer" /\ params' = params /\ path = heap[n].path
    BY <1>7 DEF LookupEnd, AtEnd, Return, Answer, answer
  <2>2. result'.kind = "hit" => result'.handle = heap[n].handle /\ heap[n].handle # NoHandle
    BY <1>7 DEF LookupEnd, Return, Answer
  <2>3. heap[n].handle # NoHandle => heap[n].handle = arg
    BY <1>1, <1>2, <1>3, <2>1 DEF Reads
  <2>4. RightHit'
    BY <1>1, <1>3, <2>1, <2>2, <2>3 DEF RightHit, Hit
  <2>5. QED
    BY <2>1, <2>4, <1>4
<1>8. CASE LookupChild
  <2>1. PICK k : k = IndexOf(heap[n], Rest[1])
    OBVIOUS
  <2>2. CASE k \in DOMAIN heap[n].children
    <3>1. /\ n' = heap[n].children[k] /\ path' = Rest /\ pc' = "lookup"
          /\ params' = params /\ Inside
      BY <1>1, <1>8, <2>1, <2>2 DEF LookupChild, MoveTo
    <3>2. pre[n'] = pre[n] \o heap[n].path
      BY <1>1, <1>2, <2>2, <3>1 DEF Reads
    <3>3. Rest \in Seq(Bytes) /\ path = heap[n].path \o Rest
      BY <3>1, InsideRest
    <3>4. (pre[n] \o heap[n].path) \o Rest = pre[n] \o (heap[n].path \o Rest)
      <4>1. PICK x \in Seq(Bytes), y \in Seq(Bytes), z \in Seq(Bytes) :
               x = pre[n] /\ y = heap[n].path /\ z = Rest
        BY <1>1, <1>3, <3>3
      <4>2. (x \o y) \o z = x \o (y \o z)
        BY Assoc
      <4>3. QED
        BY <4>1, <4>2
    <3>5. arg' = pre[n'] \o path'
      BY <1>1, <1>3, <3>1, <3>2, <3>3, <3>4
    <3>6. Placed(pre)'
      BY <1>3, <3>1, <3>5 DEF Placed
    <3>7. Kept(pre)'
      BY <1>1, <1>2, <3>1 DEF Kept
    <3>8. QED
      BY <1>1, <1>2, <3>1, <3>6, <3>7 DEF Charted, RightHit, Hit
  <2>3. CASE k \notin DOMAIN heap[n].children
    <3>1. pc' = "answer" /\ result'.kind \in {"miss", "panic"}
      BY <1>8, <2>1, <2>3 DEF LookupChild, Return, Answer
    <3>2. QED
      BY <3>1, <1>4 DEF RightHit, Hit
  <2>4. QED
    BY <2>2, <2>3
<1>9. QED
  BY <1>5, <1>6, <1>7, <1>8 DEF GetValue

\* Neither the end of the set-up nor of a request touches the tree.
LEMMA OutsideCharted ==
    ASSUME Types, Plain, PlainInv, Listen \/ Answered
    PROVE  pc' = "serve" /\ Charted'
<1>1. /\ pc \in {"register", "answer"} /\ pc' = "serve" /\ heap' = heap
      /\ registered' = registered
  BY DEF Listen, Answered, tree
<1>2. PICK pre : Reads(heap, pre) /\ Placed(pre) /\ Kept(pre)
  BY <1>1 DEF PlainInv, Charted
<1>3. Placed(pre)' /\ Kept(pre)'
  BY <1>1, <1>2 DEF Placed, Kept
<1>4. QED
  BY <1>1, <1>2, <1>3 DEF Charted

\* Every step of a registration keeps the tree charted or panics for a known
\* reason.
LEMMA AddRouteCharted ==
    ASSUME Types, Plain, Plain', PlainInv, AddRoute
    PROVE  /\ pc' # "answer"
           /\ pc' = "panic" => Refused'
           /\ pc' # "panic" => Charted'
<1>1. pc' # "answer"
  BY DEF AddRoute, Walk, DescendWild, DescendNothing, DescendSlash, DescendIndex, AddChild,
     InsertLeaf, InsertBadWild, InsertParam, InsertBadCatchAll, InsertCatchAll, InsertEnd,
     Panic, Registered
<1>2. CASE Walk
  BY <1>1, <1>2, WalkCharted
<1>3. CASE DescendWild \/ DescendSlash \/ DescendIndex
  BY <1>1, <1>3, DescendCharted
<1>4. CASE DescendNothing
  BY <1>1, <1>4, NothingLeft
<1>5. CASE AddChild
  BY <1>1, <1>5, AddChildCharted
<1>6. CASE InsertLeaf
  BY <1>1, <1>6, LeafCharted
<1>7. CASE InsertBadWild \/ InsertParam \/ InsertBadCatchAll \/ InsertCatchAll \/ InsertEnd
  BY <1>7, NoWildcards
<1>8. QED
  BY <1>2, <1>3, <1>4, <1>5, <1>6, <1>7 DEF AddRoute

\* PlainInv holds before the first registration.
LEMMA InitPlain == Init => PlainInv
<1> SUFFICES ASSUME Init PROVE PlainInv
  OBVIOUS
<1>1. heap = <<routerNode>> /\ DOMAIN heap = {1} /\ heap[1] = routerNode /\ pc = "register"
  BY DEF Init
<1>2. PICK pre : pre = [m \in {1} |-> <<>>]
  OBVIOUS
<1>3. Reads(heap, pre)
  BY <1>1, <1>2, FreshNode, EmptySeq DEF Reads
<1>4. Placed(pre)
  BY <1>1 DEF Placed
<1>5. Kept(pre)
  BY <1>1, FreshNode DEF Kept
<1>6. QED
  BY <1>1, <1>3, <1>4, <1>5 DEF PlainInv, Charted, Hit

\* Every step preserves PlainInv.
LEMMA PlainInductive ==
    ASSUME Types, PlainInv, [Next]_vars
    PROVE  PlainInv'
<1> SUFFICES ASSUME Plain'
             PROVE  /\ pc' = "panic" => Refused'
                    /\ pc' # "panic" => Charted'
                    /\ RightHit'
  BY DEF PlainInv, RightHit
<1>1. Plain
  BY PlainBefore
<1>2. CASE UNCHANGED vars
  <2>1. Refused => Refused'
    BY <1>2 DEF vars, Refused, Desynced
  <2>2. Charted => Charted'
    <3>1. \A pre : Reads(heap, pre)' <=> Reads(heap, pre)
      BY <1>2 DEF vars
    <3>2. \A pre : Placed(pre) => Placed(pre)'
      BY <1>2 DEF vars, Placed
    <3>3. \A pre : Kept(pre) => Kept(pre)'
      BY <1>2 DEF vars, Kept
    <3>4. QED
      BY <1>2, <3>2, <3>3 DEF vars, Charted
  <2>3. RightHit => RightHit'
    BY <1>2 DEF vars, RightHit, Hit
  <2>4. pc' = pc
    BY <1>2 DEF vars
  <2>5. QED
    BY <1>1, <2>1, <2>2, <2>3, <2>4 DEF PlainInv, RightHit
<1>3. CASE \E p \in Routes : InsertRefused(p)
  BY <1>3 DEF InsertRefused, Refused, RightHit, Hit
<1>4. CASE \E p \in Routes : Insert(p)
  <2>1. pc' # "answer"
    BY <1>4 DEF Insert
  <2>2. QED
    BY <1>1, <1>4, <2>1, InsertCharted DEF RightHit, Hit
<1>5. CASE AddRoute
  BY <1>1, <1>5, AddRouteCharted DEF RightHit, Hit
<1>6. CASE Listen \/ Answered
  BY <1>1, <1>6, OutsideCharted DEF RightHit, Hit
<1>7. CASE \E p \in Paths : Match(p)
  BY <1>1, <1>7, MatchCharted DEF RightHit, Hit
<1>8. CASE GetValue
  BY <1>1, <1>8, LookupCharted
<1>9. QED
  BY <1>2, <1>3, <1>4, <1>5, <1>6, <1>7, <1>8 DEF Next

\* Every step preserves Types.
LEMMA TypesInductive ==
    ASSUME Types, [Next]_vars
    PROVE  Types'
<1>1. CASE \E p \in Routes : InsertRefused(p) \/ Insert(p)
  BY <1>1, InsertTypes, OutsideTypes
<1>2. CASE AddRoute
  BY <1>2, AddRouteTypes
<1>3. CASE Listen \/ Answered
  BY <1>3, OutsideTypes
<1>4. CASE \E p \in Paths : Match(p)
  BY <1>4, MatchTypes
<1>5. CASE GetValue
  BY <1>5, LookupTypes
<1>6. CASE UNCHANGED vars
  BY <1>6 DEF vars, Types
<1>7. QED
  BY <1>1, <1>2, <1>3, <1>4, <1>5, <1>6 DEF Next

\* Both parts of the invariant hold in every reachable state.
LEMMA Charting == Spec => [](Types /\ PlainInv)
<1>1. Init => Types /\ PlainInv
  BY InitTypes, InitPlain
<1>2. Types /\ PlainInv /\ [Next]_vars => (Types /\ PlainInv)'
  BY TypesInductive, PlainInductive
<1>3. QED
  BY <1>1, <1>2, PTL DEF Spec

\* Every registration and every lookup, whatever the routes and the requests
\* are, keeps the fields in their types and the pointers inside the tree, the
\* one child of a wildcard node being a parameter or a catch-all: getValue
\* never indexes children that are not there below a wildcard node and never
\* reaches its "invalid routerNode type".
THEOREM TreeStaysWellFormed == Spec => []TypeOK
<1>1. Init => Types
  BY InitTypes
<1>2. Types /\ [Next]_vars => Types'
  BY TypesInductive
<1>3. QED
  BY <1>1, <1>2, TypesEnough, PTL DEF Spec

\* A route table without wildcards never answers a request with the handler of
\* another path and binds no parameter, for every set of routes registered in
\* every order: neither the edge splits of addRoute nor incrementChildPrio, even
\* when it leaves index bytes and children out of step, leads getValue to a wrong
\* node.
THEOREM StaticRoutesAreExact == Spec => []StaticHitIsRight
<1>1. Types /\ PlainInv => StaticHitIsRight
  <2> SUFFICES ASSUME Types, PlainInv, Hit,
                      \A k \in DOMAIN registered : wildcardNum(registered[k]) = 0
               PROVE  result.handle = arg /\ params = <<>>
    BY DEF StaticHitIsRight
  <2>1. Plain
    BY DEF Plain, Hit
  <2>2. QED
    BY <2>1 DEF PlainInv
<1>2. QED
  BY <1>1, Charting, PTL

\* While no wildcards are involved, addRoute panics only for a path that is a
\* prefix of a registered one (a route shorter than one registered before it
\* included, since the walk loop goes on with no path left), for one that does
\* not begin with a slash, or when index bytes and children are out of step.
THEOREM StaticPanicsAreKnown == Spec => []InsertPanics
<1>1. Types /\ PlainInv => InsertPanics
  <2> SUFFICES ASSUME Types, PlainInv, pc = "panic", wildcardNum(arg) = 0, ~Desynced,
                      \A k \in DOMAIN registered : wildcardNum(registered[k]) = 0
               PROVE  \/ arg = <<>> \/ arg[1] # "/"
                      \/ \E k \in DOMAIN registered : IsPrefix(arg, registered[k])
    BY DEF InsertPanics
  <2>1. Plain
    BY DEF Plain
  <2>2. Refused
    BY <2>1 DEF PlainInv
  <2>3. CASE Covered(arg, registered)
    BY <2>3, CoveredIsPrefix DEF Types
  <2>4. QED
    BY <2>2, <2>3 DEF Refused
<1>2. QED
  BY <1>1, Charting, PTL

-----------------------------------------------------------------------------
(* The nodes are a tree, as long as no registration has panicked.            *)

\* Node m of h has a pointer to c.
Hangs(h, m, c) ==
    m \in DOMAIN h /\ \E k \in DOMAIN h[m].children : h[m].children[k] = c

\* What a node and a child of it are: below a wildcard child's node comes the
\* parameter or the catch-all with its name, below any other node a literal
\* or the empty node in front of a catch-all.
Joint(x, y) ==
    IF x.wildChild THEN y.nType = "catchAll" => Len(y.path) >= 2
    ELSE \/ y.nType = "static"
         \/ y.nType = "catchAll" /\ y.path = <<>> /\ y.wildChild

\* The heap is a forest of such nodes, and parameters have names with a colon.
Forest(h) ==
    /\ h[1].nType \in {"static", "root"}
    /\ \A m \in DOMAIN h : h[m].nType = "param" /\ h[m].path # <<>>
                              => IsWild(h[m].path[1])
    /\ \A m \in DOMAIN h : \A c \in DOMAIN h : Hangs(h, m, c) => Joint(h[m], h[c])
    /\ \A m1 \in DOMAIN h : \A m2 \in DOMAIN h : \A c \in DOMAIN h :
          Hangs(h, m1, c) /\ Hangs(h, m2, c) => m1 = m2

\* Heap g has the nodes of h with the same paths and no new pointers; the
\* first node may have become the root.
Alike(h, g) ==
    /\ DOMAIN g = DOMAIN h
    /\ \A q \in DOMAIN h :
         /\ g[q].path = h[q].path /\ g[q].wildChild = h[q].wildChild
         /\ \A k \in DOMAIN g[q].children : \E j \in DOMAIN h[q].children :
               g[q].children[k] = h[q].children[j]
         /\ g[q].nType = h[q].nType \/ (q = 1 /\ g[q].nType = "root")

\* Such a heap is a forest if h is one.
LEMMA ForestAlike ==
    ASSUME NEW h, HeapOK(h), Forest(h), NEW g, Alike(h, g)
    PROVE  Forest(g) /\ \A m, c : Hangs(g, m, c) => Hangs(h, m, c)
<1>1. DOMAIN h = 1..Len(h) /\ Len(h) \in Nat /\ 1 \in DOMAIN h
  <2>1. h \in Seq(Node) /\ h # <<>>
    BY DEF HeapOK
  <2>2. QED
    BY <2>1, LenProperties, EmptySeq
<1>2. \A m, c : Hangs(g, m, c) => Hangs(h, m, c)
  <2> SUFFICES ASSUME NEW m, NEW c, Hangs(g, m, c) PROVE Hangs(h, m, c)
    OBVIOUS
  <2>1. m \in DOMAIN h
    BY DEF Hangs, Alike
  <2>2. PICK k \in DOMAIN g[m].children : g[m].children[k] = c
    BY DEF Hangs
  <2>3. PICK j \in DOMAIN h[m].children : g[m].children[k] = h[m].children[j]
    BY <2>1 DEF Alike
  <2>4. QED
    BY <2>1, <2>2, <2>3 DEF Hangs
<1>3. \A m, c : Hangs(h, m, c) => c # 1 /\ c \in DOMAIN h
  <2> SUFFICES ASSUME NEW m, NEW c, Hangs(h, m, c) PROVE c # 1 /\ c \in DOMAIN h
    OBVIOUS
  <2>1. c \in 2..Len(h)
    BY DEF Hangs, HeapOK, Pointers
  <2>2. QED
    BY <2>1, <1>1
<1>4. ASSUME NEW m \in DOMAIN h, NEW c \in DOMAIN h, Hangs(g, m, c)
      PROVE  Joint(g[m], g[c])
  <2>1. Hangs(h, m, c) /\ c # 1
    BY <1>2, <1>3, <1>4
  <2>2. Joint(h[m], h[c])
    BY <2>1 DEF Forest
  <2>3. /\ g[m].wildChild = h[m].wildChild /\ g[c].wildChild = h[c].wildChild
        /\ g[c].path = h[c].path /\ g[c].nType = h[c].nType
    BY <2>1 DEF Alike
  <2>4. QED
    BY <2>2, <2>3 DEF Joint
<1>5. g[1].nType \in {"static", "root"}
  BY <1>1 DEF Alike, Forest
<1>6. ASSUME NEW m \in DOMAIN h, g[m].nType = "param", g[m].path # <<>>
      PROVE  IsWild(g[m].path[1])
  <2>1. h[m].nType = "param" /\ h[m].path = g[m].path
    BY <1>6 DEF Alike
  <2>2. QED
    BY <2>1, <1>6 DEF Forest
<1>7. DOMAIN g = DOMAIN h
  BY DEF Alike
<1>8. \A m1 \in DOMAIN g : \A m2 \in DOMAIN g : \A c \in DOMAIN g :
          Hangs(g, m1, c) /\ Hangs(g, m2, c) => m1 = m2
  BY <1>2, <1>7 DEF Forest
<1>9. QED
  BY <1>2, <1>4, <1>5, <1>6, <1>7, <1>8 DEF Forest

\* A pointer leads to a node, never to the first.
LEMMA HangsIs ==
    ASSUME NEW h, HeapOK(h), NEW m, NEW c, Hangs(h, m, c)
    PROVE  m \in DOMAIN h /\ c \in DOMAIN h /\ c # 1
<1>1. DOMAIN h = 1..Len(h) /\ Len(h) \in Nat
  BY Nodes DEF HeapOK
<1>2. c \in 2..Len(h) /\ m \in DOMAIN h
  BY DEF Hangs, HeapOK, Pointers
<1>3. QED
  BY <1>1, <1>2

\* The nodes of g that are not in h, and the changed one.
Touched(h, m, g) == {m} \cup (DOMAIN g \ DOMAIN h)

\* Heap g has the nodes of h, of which only m changed, and new ones; the
\* changed and the new nodes point to new nodes or to what m pointed to.
Grows(h, m, g) ==
    /\ DOMAIN h \subseteq DOMAIN g
    /\ \A q \in DOMAIN h : q # m => g[q] = h[q]
    /\ g[m].nType = h[m].nType
    /\ \A q \in Touched(h, m, g) : \A c \in DOMAIN g : Hangs(g, q, c) =>
          /\ c \notin DOMAIN h \/ Hangs(h, m, c)
          /\ \A o \in Touched(h, m, g) : Hangs(g, o, c) => o = q

\* Where the pointers of a grown heap come from.
LEMMA GrownPointers ==
    ASSUME NEW h, HeapOK(h), NEW m \in DOMAIN h, NEW g, Grows(h, m, g),
           NEW q \in DOMAIN g, NEW c \in DOMAIN g, Hangs(g, q, c)
    PROVE  q \in Touched(h, m, g) \/ (q \in DOMAIN h /\ q # m /\ Hangs(h, q, c))
<1>1. CASE q \in DOMAIN h /\ q # m
  <2>1. g[q] = h[q]
    BY <1>1 DEF Grows
  <2>2. QED
    BY <1>1, <2>1 DEF Hangs
<1>2. QED
  BY <1>1 DEF Touched

\* A grown heap is a forest if the pointers of the changed and the new nodes
\* are those of one.
LEMMA ForestGrown ==
    ASSUME NEW h, HeapOK(h), Forest(h), NEW m \in DOMAIN h, NEW g, Grows(h, m, g),
           h[m].nType \notin {"param", "catchAll"} \/ g[m].path = h[m].path,
           h[m].nType # "catchAll" \/ g[m].wildChild = h[m].wildChild,
           \A q \in DOMAIN g \ DOMAIN h :
              g[q].nType = "param" /\ g[q].path # <<>> => IsWild(g[q].path[1]),
           \A q \in Touched(h, m, g) : \A c \in DOMAIN g :
              Hangs(g, q, c) => \/ Joint(g[q], g[c])
                                \/ c \in DOMAIN h /\ Joint(g[q], h[c])
    PROVE  Forest(g)
<1>1. /\ DOMAIN h \subseteq DOMAIN g /\ g[m].nType = h[m].nType
      /\ \A q \in DOMAIN h : q # m => g[q] = h[q]
      /\ 1 \in DOMAIN h
  <2>1. h \in Seq(Node) /\ h # <<>>
    BY DEF HeapOK
  <2>2. 1 \in DOMAIN h
    BY <2>1, Nodes, EmptySeq
  <2>3. QED
    BY <2>2 DEF Grows
<1>2. \A q \in DOMAIN h : g[q].nType = h[q].nType
  BY <1>1
<1>3. ASSUME NEW x, NEW c \in DOMAIN h, Joint(x, h[c])
      PROVE  Joint(x, g[c])
  <2>1. CASE c # m
    BY <2>1, <1>1, <1>3
  <2>2. CASE c = m
    BY <2>2, <1>2, <1>3 DEF Joint
  <2>3. QED
    BY <2>1, <2>2
<1>4. g[1].nType \in {"static", "root"}
  BY <1>1, <1>2 DEF Forest
<1>5. ASSUME NEW q \in DOMAIN g, g[q].nType = "param", g[q].path # <<>>
      PROVE  IsWild(g[q].path[1])
  <2>1. CASE q \notin DOMAIN h
    BY <2>1, <1>5
  <2>2. CASE q \in DOMAIN h
    <3>1. g[q].path = h[q].path /\ h[q].nType = "param"
      BY <2>2, <1>1, <1>2, <1>5
    <3>2. QED
      BY <2>2, <3>1, <1>5 DEF Forest
  <2>3. QED
    BY <2>1, <2>2
<1>6. ASSUME NEW q \in DOMAIN g, NEW c \in DOMAIN g, Hangs(g, q, c)
      PROVE  Joint(g[q], g[c])
  <2>1. CASE q \in Touched(h, m, g)
    BY <2>1, <1>3, <1>6
  <2>2. CASE q \in DOMAIN h /\ q # m /\ Hangs(h, q, c)
    <3>1. c \in DOMAIN h /\ g[q] = h[q]
      BY <2>2, <1>1, HangsIs
    <3>2. Joint(g[q], h[c])
      BY <2>2, <3>1 DEF Forest
    <3>3. QED
      BY <3>1, <3>2, <1>3
  <2>3. QED
    BY <2>1, <2>2, <1>6, GrownPointers
<1>7. ASSUME NEW q \in DOMAIN g, NEW o \in DOMAIN g, NEW c \in DOMAIN g,
             Hangs(g, q, c), Hangs(g, o, c)
      PROVE  q = o
  <2>1. \/ q \in Touched(h, m, g)
        \/ q \in DOMAIN h /\ q # m /\ Hangs(h, q, c)
    BY <1>7, GrownPointers
  <2>2. \/ o \in Touched(h, m, g)
        \/ o \in DOMAIN h /\ o # m /\ Hangs(h, o, c)
    BY <1>7, GrownPointers
  <2>3. CASE q \in Touched(h, m, g) /\ o \in Touched(h, m, g)
    BY <2>3, <1>7 DEF Grows
  <2>4. CASE q \in Touched(h, m, g) /\ o \in DOMAIN h /\ o # m /\ Hangs(h, o, c)
    <3>1. c \in DOMAIN h
      BY <2>4, HangsIs
    <3>2. Hangs(h, m, c)
      BY <3>1, <2>4, <1>7 DEF Grows
    <3>3. QED
      BY <3>1, <3>2, <2>4 DEF Forest
  <2>5. CASE o \in Touched(h, m, g) /\ q \in DOMAIN h /\ q # m /\ Hangs(h, q, c)
    <3>1. c \in DOMAIN h
      BY <2>5, HangsIs
    <3>2. Hangs(h, m, c)
      BY <3>1, <2>5, <1>7 DEF Grows
    <3>3. QED
      BY <3>1, <3>2, <2>5 DEF Forest
  <2>6. CASE /\ q \in DOMAIN h /\ Hangs(h, q, c)
             /\ o \in DOMAIN h /\ Hangs(h, o, c)
    <3>1. c \in DOMAIN h
      BY <2>6, HangsIs
    <3>2. QED
      BY <3>1, <2>6 DEF Forest
  <2>7. QED
    BY <2>1, <2>2, <2>3, <2>4, <2>5, <2>6
<1>8. QED
  BY <1>4, <1>5, <1>6, <1>7 DEF Forest

\* The path ends after k bytes or goes on with a slash.
SlashNext(k) == k = Len(path) \/ path[k + 1] = "/"

\* Where addRoute stands: it enters a parameter only with the whole name in
\* front of it, passes the empty node of a catch-all only to be refused at its
\* leaf, and adds nothing to either.
Stands ==
    /\ pc \in {"walk", "descend"} /\ heap[n].nType = "catchAll"
          => heap[n].path = <<>> /\ heap[n].wildChild
    /\ pc = "walk" /\ heap[n].nType = "param"
          => IsPrefix(heap[n].path, path) /\ SlashNext(Len(heap[n].path))
    /\ pc = "descend" /\ heap[n].nType = "param" => SlashNext(0)
    /\ pc = "insert" => heap[n].nType \in {"static", "root"}
    /\ pc = "scan" => \/ heap[n].nType = "static"
                      \/ heap[n].nType = "param" /\ path = <<>>

\* The shape of the tree while no registration has panicked.
Grafted == pc # "panic" => Forest(heap) /\ Stands

\* A path that begins with the node's shares all of it.
LEMMA CommonPrefixWhole ==
    ASSUME NEW s \in Seq(Bytes), NEW t \in Seq(Bytes), IsPrefix(t, s)
    PROVE  CommonPrefix(s, t) = Len(t)
<1> DEFINE l == Min({Len(s), Len(t)})
           C == {k \in 0..l : SubSeq(s, 1, k) = SubSeq(t, 1, k)}
<1>1. Len(s) \in Nat /\ Len(t) \in Nat /\ Len(t) <= Len(s) /\ t = SubSeq(s, 1, Len(t))
  BY LenProperties, PrefixIs
<1>2. l \in {Len(s), Len(t)} /\ l <= Len(s) /\ l <= Len(t)
  BY <1>1, MinIsLeast
<1> HIDE DEF l
<1>3. l = Len(t)
  BY <1>1, <1>2
<1>4. SubSeq(t, 1, Len(t)) = t
  BY SubSeqFull
<1>5. l \in C /\ C \in SUBSET (0..l) /\ l \in Nat
  BY <1>1, <1>3, <1>4
<1>6. Max(C) \in C /\ Max(C) >= l
  <2> HIDE DEF C
  <2>1. QED
    BY <1>5, MaxOfBounded
<1>7. PICK c \in 0..l : c = Max(C) /\ c >= l
  BY <1>6
<1>8. c = l
  BY <1>5, <1>7
<1>9. CommonPrefix(s, t) = Max(C)
  BY DEF CommonPrefix, l
<1>10. QED
  BY <1>3, <1>7, <1>8, <1>9

\* The heap in place of another with the same pointers and shapes.
LEMMA SameShapesAlike ==
    ASSUME NEW h, HeapOK(h), NEW g, SameShapes(h, g),
           \A q \in DOMAIN h : g[q].nType = h[q].nType \/ (q = 1 /\ g[q].nType = "root")
    PROVE  Alike(h, g)
<1>1. DOMAIN g = DOMAIN h
  <2>1. h \in Seq(Node) /\ g \in Seq(Node) /\ Len(g) = Len(h)
    BY DEF HeapOK, SameShapes
  <2>2. QED
    BY <2>1, LenProperties
<1>2. QED
  BY <1>1 DEF Alike, SameShapes, SameShape

\* The order of the children does not matter.
LEMMA SameNodesAlike ==
    ASSUME NEW h, HeapOK(h), NEW g, SameNodes(h, g)
    PROVE  Alike(h, g) /\ \A q \in DOMAIN h : g[q].maxParams = h[q].maxParams
<1>1. DOMAIN g = DOMAIN h
  <2>1. h \in Seq(Node) /\ g \in Seq(Node) /\ Len(g) = Len(h)
    BY DEF HeapOK, SameNodes
  <2>2. QED
    BY <2>1, LenProperties
<1>2. QED
  BY <1>1 DEF Alike, SameNodes, SameNode

\* What the beginning of addRoute does to the root.
LEMMA InsertIs ==
    ASSUME Types, NEW p \in Routes, Insert(p)
    PROVE  /\ Alike(heap, heap') /\ 1 \in DOMAIN heap
           /\ \A q \in DOMAIN heap : heap'[q].maxParams = heap[q].maxParams
           /\ pc' \in {"insert", "walk"}
           /\ pc' = "insert" => heap'[1].nType = "root" /\ heap[1].children = <<>>
<1> DEFINE empty == heap[1].path = <<>> /\ heap[1].children = <<>>
           t == IF empty THEN "root" ELSE heap[1].nType
<1>0. HeapOK(heap) /\ heap \in Seq(Node) /\ heap # <<>>
  BY DEF Types, HeapOK
<1>1. 1 \in DOMAIN heap /\ heap[1] \in Node
  BY <1>0, Nodes, EmptySeq
<1>2. PICK z : z = heap[1].priority + 1
  OBVIOUS
<1>3. /\ heap' = [heap EXCEPT ![1].priority = z, ![1].nType = t]
      /\ pc' = IF empty THEN "insert" ELSE "walk"
  BY <1>2 DEF Insert
<1>4. \A y \in Node : \A p1, t1 :
         LET x == [y EXCEPT !.priority = p1, !.nType = t1]
         IN  x.nType = t1 /\ x.maxParams = y.maxParams
  BY DEF Node
<1>5. heap'[1] = [heap[1] EXCEPT !.priority = z, !.nType = t]
      /\ \A q \in DOMAIN heap : q # 1 => heap'[q] = heap[q]
  <2> HIDE DEF t
  <2>1. QED
    BY <1>1, <1>3
<1>6. heap'[1].nType = t /\ heap'[1].maxParams = heap[1].maxParams
  <2> HIDE DEF t
  <2>1. QED
    BY <1>1, <1>4, <1>5
<1>7. \A q \in DOMAIN heap : heap'[q].nType = heap[q].nType \/ (q = 1 /\ heap'[q].nType = "root")
  BY <1>5, <1>6
<1>8. Alike(heap, heap')
  BY <1>0, <1>7, InsertTypes, SameShapesAlike
<1>9. QED
  BY <1>1, <1>3, <1>5, <1>6, <1>8

\* The beginning of addRoute keeps the shape.
LEMMA InsertGrafted ==
    ASSUME Types, Grafted, NEW p \in Routes, Insert(p)
    PROVE  Grafted'
<1>1. Forest(heap) /\ HeapOK(heap)
  BY DEF Types, Grafted, Insert
<1>2. Forest(heap') /\ n' = 1
  BY <1>1, InsertIs, ForestAlike DEF Insert
<1>3. heap'[1].nType \in {"static", "root"}
  BY <1>2 DEF Forest
<1>4. Stands'
  BY <1>2, <1>3, InsertIs DEF Stands
<1>5. QED
  BY <1>2, <1>4 DEF Grafted

\* A split edge: one node more, which takes the pointers of the other.
LEMMA SplitGrows ==
    ASSUME NEW h, HeapOK(h), NEW m \in DOMAIN h, NEW i, NEW g \in Seq(Node),
           IsSplit(h, m, i, g)
    PROVE  /\ Grows(h, m, g) /\ Touched(h, m, g) = {m, Len(h) + 1}
           /\ Len(h) + 1 \notin DOMAIN h /\ Len(h) + 1 # 1
           /\ \A c : Hangs(g, m, c) => c = Len(h) + 1
           /\ \A c : Hangs(g, Len(h) + 1, c) <=> Hangs(h, m, c)
<1>1. /\ DOMAIN h = 1..Len(h) /\ Len(h) \in Nat /\ Len(h) # 0
      /\ DOMAIN g = 1..(Len(h) + 1) /\ DOMAIN h \subseteq DOMAIN g
      /\ Touched(h, m, g) = {m, Len(h) + 1} /\ Len(h) + 1 \notin DOMAIN h
  <2>1. DOMAIN h = 1..Len(h) /\ Len(h) \in Nat
    BY Nodes DEF HeapOK
  <2>2. DOMAIN g = 1..(Len(h) + 1)
    BY LenProperties DEF IsSplit
  <2>3. QED
    BY <2>1, <2>2 DEF Touched
<1>2. PICK new : new = Len(h) + 1
  OBVIOUS
<1>3. /\ g[m].children = <<new>> /\ g[new].children = h[m].children
      /\ \A q \in DOMAIN h : q # m => g[q] = h[q]
      /\ g[m].nType = h[m].nType
  BY <1>2 DEF IsSplit
<1>4. m \in DOMAIN g /\ new \in DOMAIN g /\ new \notin DOMAIN h
  BY <1>1, <1>2
<1>5. \A c : Hangs(g, m, c) => c = new
  BY <1>3 DEF Hangs
<1>6. \A c : Hangs(g, new, c) <=> Hangs(h, m, c)
  BY <1>3, <1>4 DEF Hangs
<1>7. \A c : Hangs(h, m, c) => c \in DOMAIN h
  BY HangsIs
<1>8. \A q \in {m, new} : \A c : Hangs(g, q, c) =>
          /\ c \notin DOMAIN h \/ Hangs(h, m, c)
          /\ \A o \in {m, new} : Hangs(g, o, c) => o = q
  BY <1>4, <1>5, <1>6, <1>7
<1>9. Grows(h, m, g)
  BY <1>1, <1>2, <1>3, <1>8 DEF Grows
<1>10. QED
  BY <1>1, <1>2, <1>5, <1>6, <1>9

\* Walk splits neither a parameter nor a catch-all.
LEMMA WalkWhole ==
    ASSUME Types, Stands, Walk, heap[n].nType \in {"param", "catchAll"}
    PROVE  Common = Len(heap[n].path) /\ Parted = Lifted
<1>1. pc = "walk" /\ path \in Seq(Bytes) /\ heap[n].path \in Seq(Bytes)
  BY Nodes DEF Types, HeapOK, Walk
<1>2. CASE heap[n].nType = "param"
  <2>1. IsPrefix(heap[n].path, path)
    BY <1>1, <1>2 DEF Stands
  <2>2. Common = Len(heap[n].path)
    BY <1>1, <2>1, CommonPrefixWhole DEF Common
  <2>3. QED
    BY <2>2, WalkIs
<1>3. CASE heap[n].nType = "catchAll"
  <2>1. heap[n].path = <<>>
    BY <1>1, <1>3 DEF Stands
  <2>2. Common \in 0..0
    BY <2>1, WalkIs
  <2>3. Common = Len(heap[n].path)
    BY <2>1, <2>2
  <2>4. QED
    BY <2>3, WalkIs
<1>4. QED
  BY <1>2, <1>3

\* The heap Walk leaves: the fields of the forest in it, and the pointers.
LEMMA WalkForest ==
    ASSUME Types, Forest(heap), Stands, Walk
    PROVE  /\ Forest(Lifted) /\ Forest(Parted) /\ Forest(heap')
           /\ Alike(heap, Lifted) /\ Alike(Parted, heap')
           /\ \A q \in DOMAIN Parted : heap'[q].maxParams = Parted[q].maxParams
<1>1. HeapOK(heap) /\ HeapOK(Lifted) /\ n \in DOMAIN heap /\ n \in DOMAIN Lifted
  BY LiftedOK DEF Types
<1>2. Alike(heap, Lifted)
  BY LiftedOK DEF Alike
<1>3. Forest(Lifted)
  BY <1>1, <1>2, ForestAlike
<1>4. Forest(Parted)
  <2>1. CASE Common = Len(heap[n].path)
    BY <2>1, <1>3, WalkIs
  <2>2. CASE Common # Len(heap[n].path)
    <3>1. IsSplit(Lifted, n, Common, Parted) /\ Parted \in Seq(Node)
      BY <2>2, WalkIs
    <3>2. Lifted[n].nType \notin {"param", "catchAll"}
      BY <2>2, <1>1, WalkWhole, LiftedOK
    <3>3. PICK h : h = Lifted
      OBVIOUS
    <3>4. PICK g \in Seq(Node) : g = Parted
      BY <3>1
    <3>5. PICK new : new = Len(h) + 1
      OBVIOUS
    <3>6. HeapOK(h) /\ Forest(h) /\ n \in DOMAIN h /\ IsSplit(h, n, Common, g)
      BY <1>1, <1>3, <3>1, <3>3, <3>4
    <3>7. /\ Grows(h, n, g) /\ Touched(h, n, g) = {n, new} /\ new \notin DOMAIN h
          /\ \A c : Hangs(g, n, c) => c = new
          /\ \A c : Hangs(g, new, c) <=> Hangs(h, n, c)
      BY <3>5, <3>6, SplitGrows
    <3>8. /\ g[new].nType = "static" /\ g[new].wildChild = h[n].wildChild
          /\ ~g[n].wildChild
      BY <3>5, <3>6 DEF IsSplit
    <3>9. \A q \in DOMAIN g \ DOMAIN h : q = new
      BY <3>6, <3>7 DEF Touched
    <3>10. \A c : Hangs(g, n, c) => Joint(g[n], g[c])
      BY <3>7, <3>8 DEF Joint
    <3>11. \A c : Hangs(g, new, c) => c \in DOMAIN h /\ Joint(g[new], h[c])
      <4> SUFFICES ASSUME NEW c, Hangs(g, new, c)
                   PROVE  c \in DOMAIN h /\ Joint(g[new], h[c])
        OBVIOUS
      <4>1. Hangs(h, n, c) /\ c \in DOMAIN h
        BY <3>6, <3>7, HangsIs
      <4>2. Joint(h[n], h[c])
        BY <4>1, <3>6 DEF Forest
      <4>3. QED
        BY <4>1, <4>2, <3>8 DEF Joint
    <3>12. /\ h[n].nType \notin {"param", "catchAll"}
           /\ \A q \in DOMAIN g \ DOMAIN h :
                g[q].nType = "param" /\ g[q].path # <<>> => IsWild(g[q].path[1])
      BY <3>2, <3>3, <3>8, <3>9
    <3>13. \A q \in Touched(h, n, g) : \A c \in DOMAIN g :
              Hangs(g, q, c) => \/ Joint(g[q], g[c])
                                \/ c \in DOMAIN h /\ Joint(g[q], h[c])
      BY <3>7, <3>10, <3>11
    <3>14. Forest(g)
      BY <3>6, <3>7, <3>12, <3>13, ForestGrown
    <3>15. QED
      BY <3>4, <3>14
  <2>3. QED
    BY <2>1, <2>2
<1>5. /\ Alike(Parted, heap')
      /\ \A q \in DOMAIN Parted : heap'[q].maxParams = Parted[q].maxParams
  <2>1. CASE heap' = Parted
    BY <2>1 DEF Alike
  <2>2. CASE heap' = [Parted EXCEPT ![n] = Refilled(Parted[n], Parted[n].path, arg)]
    <3>1. PICK h : h = Parted
      OBVIOUS
    <3>2. HeapOK(h) /\ n \in DOMAIN h /\ h[n].path \in Seq(Bytes) /\ arg \in Seq(Bytes)
      BY <3>1, WalkIs, Nodes DEF Types, HeapOK
    <3>3. /\ DOMAIN heap' = DOMAIN h
          /\ \A q \in DOMAIN h : q # n => heap'[q] = h[q]
          /\ heap'[n].path = h[n].path
          /\ \A q \in DOMAIN h : /\ heap'[q].children = h[q].children
                                 /\ heap'[q].wildChild = h[q].wildChild
                                 /\ heap'[q].nType = h[q].nType
                                 /\ heap'[q].maxParams = h[q].maxParams
      BY <3>1, <3>2, <2>2, RefilledNode
    <3>4. QED
      BY <3>1, <3>3 DEF Alike
  <2>3. QED
    BY <2>1, <2>2, WalkIs
<1>6. Forest(heap')
  BY <1>4, <1>5, WalkIs, ForestAlike
<1>7. QED
  BY <1>2, <1>3, <1>4, <1>5, <1>6

\* Walk keeps the shape.
LEMMA WalkGrafted ==
    ASSUME Types, Grafted, Walk
    PROVE  Grafted'
<1>1. Forest(heap) /\ Stands /\ pc = "walk"
  BY DEF Grafted, Walk
<1>2. Forest(heap') /\ Alike(Parted, heap')
  BY <1>1, WalkForest
<1>3. n' = n /\ n \in DOMAIN Parted /\ pc' \in {"panic", "descend"}
  BY WalkIs DEF Walk
<1>4. heap'[n].nType = heap[n].nType \/ heap'[n].nType = "root"
  <2>1. Parted[n].nType = heap[n].nType
    <3>1. Lifted[n].nType = heap[n].nType
      BY LiftedOK DEF Types
    <3>2. Parted = Lifted \/ IsSplit(Lifted, n, Common, Parted)
      BY WalkIs
    <3>3. QED
      BY <3>1, <3>2 DEF IsSplit
  <2>2. QED
    BY <2>1, <1>2, <1>3 DEF Alike
<1>5. ASSUME heap[n].nType \in {"param", "catchAll"}
      PROVE  /\ heap'[n].path = heap[n].path /\ heap'[n].wildChild = heap[n].wildChild
             /\ path' = Drop(path, Len(heap[n].path))
  <2>1. Parted = Lifted /\ path' = Drop(path, Len(heap[n].path))
    BY <1>1, <1>5, WalkWhole, WalkIs
  <2>2. Lifted[n].path = heap[n].path /\ Lifted[n].wildChild = heap[n].wildChild
    BY LiftedOK DEF Types
  <2>3. QED
    BY <2>1, <2>2, <1>2, <1>3 DEF Alike
<1>6. ASSUME heap[n].nType = "param"
      PROVE  SlashNext(0)'
  <2>1. PICK l : l = Len(heap[n].path)
    OBVIOUS
  <2>2. SlashNext(l) /\ path' = Drop(path, l) /\ l \in 0..Len(path)
    <3>1. Common = l /\ Common \in 0..Len(path)
      BY <1>1, <1>6, <2>1, WalkWhole, WalkIs
    <3>2. QED
      BY <1>1, <1>5, <1>6, <2>1, <3>1 DEF Stands
  <2>3. /\ Len(path') = Len(path) - l /\ Len(path) \in Nat
        /\ \A k \in 1..(Len(path) - l) : path'[k] = path[l + k]
    BY <2>2, Cut, LenProperties DEF Types
  <2>4. CASE l = Len(path)
    BY <2>3, <2>4 DEF SlashNext
  <2>5. CASE l # Len(path)
    <3>0. \A z \in Nat : \A x \in 0..z : x # z => 1 \in 1..(z - x)
      OBVIOUS
    <3>1. path[l + 1] = "/" /\ 1 \in 1..(Len(path) - l)
      BY <2>2, <2>3, <2>5, <3>0 DEF SlashNext
    <3>2. path'[1] = "/"
      BY <2>3, <3>1
    <3>3. QED
      BY <3>2 DEF SlashNext
  <2>6. QED
    BY <2>4, <2>5
<1>7. ASSUME pc' = "descend" PROVE Stands'
  BY <1>1, <1>3, <1>4, <1>5, <1>6, <1>7 DEF Stands
<1>8. QED
  BY <1>2, <1>3, <1>7 DEF Grafted

\* Heap g is h with the maxParams of c set to w and other priorities.
Passed(h, c, w, g) ==
    /\ Alike(h, g) /\ g[c].maxParams = w
    /\ \A q \in DOMAIN h : q # c => g[q].maxParams = h[q].maxParams

\* The heap of a step down the tree, with what happens to maxParams.
LEMMA PassedAlike ==
    ASSUME Types, NEW c \in DOMAIN heap, NEW w \in 0..255, NEW g,
           g = [heap EXCEPT ![c].priority = @ + 1, ![c].maxParams = w]
    PROVE  Passed(heap, c, w, g)
<1>1. PICK x \in Node : x = heap[c] /\ x.priority \in Int
  BY Nodes DEF Types, HeapOK
<1>2. PICK z : z = x.priority + 1
  OBVIOUS
<1>3. PICK e : e = [x EXCEPT !.priority = z, !.maxParams = w]
  OBVIOUS
<1>4. g = [heap EXCEPT ![c] = e]
  BY <1>1, <1>2, <1>3
<1>5. /\ e.path = x.path /\ e.children = x.children /\ e.wildChild = x.wildChild
      /\ e.nType = x.nType /\ e.maxParams = w
  BY <1>3 DEF Node
<1>6. DOMAIN g = DOMAIN heap /\ g[c] = e /\ \A q \in DOMAIN heap : q # c => g[q] = heap[q]
  BY <1>4
<1>7. Alike(heap, g)
  <2>1. \A q \in DOMAIN heap : /\ g[q].path = heap[q].path
                               /\ g[q].children = heap[q].children
                               /\ g[q].wildChild = heap[q].wildChild
                               /\ g[q].nType = heap[q].nType
    BY <1>1, <1>5, <1>6
  <2>2. DOMAIN g = DOMAIN heap
    BY <1>6
  <2> HIDE <1>4
  <2>3. QED
    BY <2>1, <2>2, Zenon DEF Alike
<1>8. QED
  BY <1>5, <1>6, <1>7 DEF Passed

\* DescendWild keeps the shape.
LEMMA DescendWildGrafted ==
    ASSUME Types, Grafted, DescendWild
    PROVE  Grafted' /\ Alike(heap, heap')
<1>1. PICK c : c = heap[n].children[1]
  OBVIOUS
<1>2. PICK w : w = Raised(heap[c])
  OBVIOUS
<1>3. /\ c \in DOMAIN heap /\ c # 1 /\ w \in 0..255
      /\ heap' = [heap EXCEPT ![c].priority = @ + 1, ![c].maxParams = w]
      /\ heap[c].nType \in {"param", "catchAll"}
  BY <1>1, <1>2, DescendWildIs
<1>4. Passed(heap, c, w, heap') /\ Alike(heap, heap')
  <2>1. Passed(heap, c, w, heap')
    BY <1>3, PassedAlike, ZenonT(30)
  <2>2. QED
    BY <2>1 DEF Passed
<1>5. Forest(heap) /\ n' = c /\ path' = path
      /\ pc' = IF WildMatches(heap[c]) THEN "walk" ELSE "panic"
  BY <1>1 DEF Grafted, DescendWild
<1>6. Forest(heap')
  BY <1>4, <1>5, ForestAlike DEF Types
<1>7. ASSUME pc' # "panic" PROVE Stands'
  <2>1. /\ IsPrefix(heap[c].path, path) /\ heap[c].nType = "param" /\ pc' = "walk"
        /\ Len(heap[c].path) = Len(path) \/ path[Len(heap[c].path) + 1] = "/"
    BY <1>3, <1>5, <1>7 DEF WildMatches
  <2>2. heap'[c].nType = "param" /\ heap'[c].path = heap[c].path
    BY <1>3, <1>4, <2>1 DEF Alike
  <2>3. QED
    BY <2>1, <2>2, <1>5 DEF Stands, SlashNext
<1>8. QED
  BY <1>4, <1>6, <1>7 DEF Grafted

\* A child that is not behind a wildcard.
LEMMA PlainChild ==
    ASSUME Types, Grafted, pc = "descend", ~heap[n].wildChild,
           NEW c, Hangs(heap, n, c), NEW g, Alike(heap, g)
    PROVE  /\ c \in DOMAIN heap /\ c # 1
           /\ \/ g[c].nType = "static"
              \/ g[c].nType = "catchAll" /\ g[c].path = <<>> /\ g[c].wildChild
<1>1. c \in DOMAIN heap /\ c # 1 /\ n \in DOMAIN heap
  BY HangsIs DEF Types
<1>2. Joint(heap[n], heap[c])
  BY <1>1 DEF Grafted, Forest
<1>3. QED
  BY <1>1, <1>2 DEF Joint, Alike

\* DescendSlash keeps the shape.
LEMMA DescendSlashGrafted ==
    ASSUME Types, Grafted, DescendSlash
    PROVE  Grafted' /\ Alike(heap, heap')
<1>1. PICK c : c = n'
  OBVIOUS
<1>2. PICK w : w = heap[c].maxParams
  OBVIOUS
<1>3. /\ c \in DOMAIN heap /\ w \in 0..255 /\ c = heap[n].children[1]
      /\ heap' = [heap EXCEPT ![c].priority = @ + 1, ![c].maxParams = w]
      /\ Len(heap[n].children) = 1
  BY <1>1, <1>2, DescendSlashIs
<1>4. Passed(heap, c, w, heap') /\ Alike(heap, heap')
  <2>1. Passed(heap, c, w, heap')
    BY <1>3, PassedAlike, ZenonT(30)
  <2>2. QED
    BY <2>1 DEF Passed
<1>5. Forest(heap) /\ pc' = "walk" /\ pc = "descend" /\ ~heap[n].wildChild
  BY DEF Grafted, DescendSlash, AtByte
<1>6. Forest(heap')
  BY <1>4, <1>5, ForestAlike DEF Types
<1>7. Hangs(heap, n, c)
  <2>1. 1 \in DOMAIN heap[n].children /\ n \in DOMAIN heap
    BY <1>3, ChildInside DEF Types
  <2>2. QED
    BY <1>3, <2>1 DEF Hangs
<1>8. Stands'
  BY <1>1, <1>4, <1>5, <1>7, PlainChild DEF Stands
<1>9. QED
  BY <1>4, <1>6, <1>8 DEF Grafted

\* DescendIndex keeps the shape.
LEMMA DescendIndexGrafted ==
    ASSUME Types, Grafted, DescendIndex, pc' # "panic"
    PROVE  /\ Grafted' /\ Alike(heap, heap') /\ Hangs(heap, n, n')
           /\ pc = "descend" /\ pc' = "walk"
           /\ \A q \in DOMAIN heap : heap'[q].maxParams = heap[q].maxParams
           /\ UNCHANGED <<path, wildcard>>
<1>1. PICK k : k = IndexOf(heap[n], path[1])
  OBVIOUS
<1>2. /\ ~heap[n].wildChild /\ pc = "descend" /\ SameNodes(heap, heap')
      /\ n' = heap[n].children[k] /\ k \in DOMAIN heap[n].children /\ pc' = "walk"
      /\ UNCHANGED <<path, wildcard>>
  BY <1>1, DescendIndexIs DEF Panic
<1>3. /\ Alike(heap, heap')
      /\ \A q \in DOMAIN heap : heap'[q].maxParams = heap[q].maxParams
  BY <1>2, SameNodesAlike DEF Types
<1>4. Forest(heap)
  BY <1>2 DEF Grafted
<1>5. Forest(heap')
  BY <1>3, <1>4, ForestAlike DEF Types
<1>6. Hangs(heap, n, n')
  BY <1>2 DEF Hangs, Types
<1>7. Stands'
  BY <1>2, <1>3, <1>6, PlainChild DEF Stands
<1>8. QED
  BY <1>2, <1>3, <1>5, <1>6, <1>7 DEF Grafted

\* The heap AddChild makes: one node more, below n.
LEMMA AddedGrows ==
    ASSUME Types, ~heap[n].wildChild, path # <<>>
    PROVE  /\ Grows(heap, n, Added) /\ Touched(heap, n, Added) = {n, Len(heap) + 1}
           /\ HeapOK(Added) /\ DOMAIN Added = 1..(Len(heap) + 1)
           /\ Len(heap) + 1 \notin DOMAIN heap /\ n # Len(heap) + 1
           /\ Added[n] = Parent /\ Added[Len(heap) + 1] = Newborn
           /\ \A q \in DOMAIN heap : q # n => Added[q] = heap[q]
           /\ \A c : Hangs(Added, n, c) => c = Len(heap) + 1 \/ Hangs(heap, n, c)
           /\ \A c : ~Hangs(Added, Len(heap) + 1, c)
<1>1. /\ heap \in Seq(Node) /\ Len(heap) \in Nat /\ DOMAIN heap = 1..Len(heap)
      /\ n \in DOMAIN heap /\ heap[n].children \in Seq(Nat) /\ HeapOK(heap)
      /\ DOMAIN heap[n].children = 1..Len(heap[n].children)
      /\ Len(heap[n].children) \in Nat
  BY Nodes DEF Types, HeapOK
<1>2. /\ IsExtended(heap, n, Parent, <<Newborn>>, Added) /\ HeapOK(Added)
      /\ Parent.children = Append(heap[n].children, Len(heap) + 1)
      /\ Newborn.children = <<>> /\ Parent.nType = heap[n].nType
  BY AddedIs
<1>3. PICK new : new = Len(heap) + 1
  OBVIOUS
<1>4. /\ DOMAIN Added = 1..new /\ Added[n] = Parent /\ Added[new] = Newborn
      /\ \A q \in DOMAIN heap : q # n => Added[q] = heap[q]
  <2>1. Len(<<Newborn>>) = 1 /\ <<Newborn>>[1] = Newborn /\ 1 \in 1..Len(<<Newborn>>)
    OBVIOUS
  <2>2. QED
    BY <1>2, <1>3, <2>1 DEF IsExtended
<1>5. /\ DOMAIN heap \subseteq DOMAIN Added /\ new \notin DOMAIN heap /\ n # new
      /\ Touched(heap, n, Added) = {n, new} /\ n \in DOMAIN Added /\ new \in DOMAIN Added
  BY <1>1, <1>3, <1>4 DEF Touched
<1>6. \A k \in DOMAIN Parent.children :
         \/ Parent.children[k] = new
         \/ k \in DOMAIN heap[n].children /\ Parent.children[k] = heap[n].children[k]
  <2>1. PICK ks \in Seq(Nat) : ks = heap[n].children
    BY <1>1
  <2>2. /\ DOMAIN ks = 1..Len(ks) /\ Len(ks) \in Nat
        /\ DOMAIN Append(ks, new) = 1..(Len(ks) + 1)
        /\ \A k \in 1..Len(ks) : Append(ks, new)[k] = ks[k]
        /\ Append(ks, new)[Len(ks) + 1] = new
    BY <1>1, <2>1, <1>3
  <2>3. QED
    BY <1>2, <1>3, <2>1, <2>2
<1>7. \A c : Hangs(Added, n, c) => c = new \/ Hangs(heap, n, c)
  <2> SUFFICES ASSUME NEW c, Hangs(Added, n, c)
               PROVE  c = new \/ Hangs(heap, n, c)
    OBVIOUS
  <2>1. PICK k \in DOMAIN Parent.children : Parent.children[k] = c
    BY <1>4 DEF Hangs
  <2>2. QED
    BY <2>1, <1>1, <1>6 DEF Hangs
<1>8. \A c : ~Hangs(Added, new, c)
  BY <1>2, <1>4 DEF Hangs
<1>9. \A q \in {n, new} : \A c : Hangs(Added, q, c) =>
         /\ c \notin DOMAIN heap \/ Hangs(heap, n, c)
         /\ \A o \in {n, new} : Hangs(Added, o, c) => o = q
  BY <1>5, <1>7, <1>8
<1>10. Grows(heap, n, Added)
  BY <1>2, <1>4, <1>5, <1>9 DEF Grows
<1>11. QED
  BY <1>2, <1>3, <1>4, <1>5, <1>7, <1>8, <1>10

\* That heap is a forest.
LEMMA AddedForest ==
    ASSUME Types, Forest(heap), ~heap[n].wildChild, path # <<>>
    PROVE  Forest(Added)
<1>1. PICK g : g = Added
  OBVIOUS
<1>2. PICK new : new = Len(heap) + 1
  OBVIOUS
<1>3. /\ Grows(heap, n, g) /\ Touched(heap, n, g) = {n, new}
      /\ g[n] = Parent /\ g[new] = Newborn
      /\ \A c : Hangs(g, n, c) => c = new \/ Hangs(heap, n, c)
      /\ \A c : ~Hangs(g, new, c)
  BY <1>1, <1>2, AddedGrows
<1>4. /\ HeapOK(heap) /\ n \in DOMAIN heap /\ heap[n].wildChild = FALSE
  BY Nodes DEF Types, HeapOK
<1>5. /\ g[n].path = heap[n].path /\ g[n].wildChild = heap[n].wildChild
      /\ g[new].nType = "static" /\ ~g[n].wildChild
  BY <1>3, <1>4, AddedIs
<1>6. \A q \in DOMAIN g \ DOMAIN heap :
         g[q].nType = "param" /\ g[q].path # <<>> => IsWild(g[q].path[1])
  BY <1>3, <1>4, <1>5 DEF Touched
<1>7. ASSUME NEW c, Hangs(g, n, c)
      PROVE  Joint(g[n], g[c]) \/ (c \in DOMAIN heap /\ Joint(g[n], heap[c]))
  <2>1. CASE c = new
    BY <2>1, <1>5 DEF Joint
  <2>2. CASE Hangs(heap, n, c)
    <3>1. c \in DOMAIN heap
      BY <2>2, <1>4, HangsIs
    <3>2. Joint(heap[n], heap[c])
      BY <3>1, <2>2, <1>4 DEF Forest
    <3>3. QED
      BY <3>1, <3>2, <1>5 DEF Joint
  <2>3. QED
    BY <2>1, <2>2, <1>3, <1>7
<1>8. \A q \in Touched(heap, n, g) : \A c \in DOMAIN g :
         Hangs(g, q, c) => \/ Joint(g[q], g[c])
                           \/ c \in DOMAIN heap /\ Joint(g[q], heap[c])
  BY <1>3, <1>7
<1>9. Forest(g)
  BY <1>3, <1>4, <1>5, <1>6, <1>8, ForestGrown
<1>10. QED
  BY <1>1, <1>9

\* AddChild keeps the shape.
LEMMA AddChildGrafted ==
    ASSUME Types, Grafted, AddChild, pc' # "panic"
    PROVE  /\ Grafted' /\ pc = "descend" /\ pc' = "insert"
           /\ ~heap[n].wildChild /\ path # <<>>
           /\ UNCHANGED <<path, wildcard>>
           /\ \/ heap' = heap /\ n' = n
              \/ /\ Alike(Added, heap') /\ n' = Len(heap) + 1
                 /\ \A q \in DOMAIN Added : heap'[q].maxParams = Added[q].maxParams
<1>1. /\ pc = "descend" /\ ~heap[n].wildChild /\ path # <<>> /\ pc' = "insert"
      /\ UNCHANGED <<path, wildcard>>
  BY AddChildIs
<1>2. Forest(heap) /\ Stands
  BY <1>1 DEF Grafted
<1>3. CASE IsWild(path[1]) /\ heap' = heap /\ n' = n
  <2>1. path \in Seq(Bytes) /\ Len(path) # 0 /\ heap[n].nType \in NTypes
    BY <1>1, Nodes, EmptySeq DEF Types, HeapOK
  <2>2. heap[n].nType # "catchAll"
    BY <1>1, <1>2 DEF Stands
  <2>3. heap[n].nType # "param"
    <3>1. SlashNext(0) => path[1] = "/"
      BY <2>1 DEF SlashNext
    <3>2. ~IsWild("/")
      BY DEF IsWild
    <3>3. QED
      BY <3>1, <3>2, <1>1, <1>2, <1>3 DEF Stands
  <2>4. Stands'
    BY <2>1, <2>2, <2>3, <1>1, <1>3 DEF Stands, NTypes
  <2>5. QED
    BY <2>4, <1>1, <1>2, <1>3 DEF Grafted
<1>4. CASE SameNodes(Added, heap') /\ n' = Len(heap) + 1
  <2>1. /\ HeapOK(Added) /\ Added[Len(heap) + 1] = Newborn
        /\ DOMAIN Added = 1..(Len(heap) + 1) /\ Len(heap) \in Nat
        /\ Newborn.nType = "static"
    BY <1>1, AddedGrows, AddedIs, Nodes DEF Types, HeapOK
  <2>2. /\ Alike(Added, heap')
        /\ \A q \in DOMAIN Added : heap'[q].maxParams = Added[q].maxParams
    BY <1>4, <2>1, SameNodesAlike
  <2>3. Forest(heap')
    BY <2>1, <2>2, <1>1, <1>2, AddedForest, ForestAlike
  <2>4. heap'[n'].nType \in {"static", "root"}
    <3>1. n' \in DOMAIN Added
      BY <1>4, <2>1
    <3>2. QED
      BY <3>1, <1>4, <2>1, <2>2 DEF Alike
  <2>5. Stands'
    BY <2>4, <1>1 DEF Stands
  <2>6. QED
    BY <2>2, <2>3, <2>5, <1>1, <1>4 DEF Grafted
<1>5. QED
  BY <1>3, <1>4, AddChildIs

\* A chain of one or two new nodes below a node without children.
LEMMA ChainGrows ==
    ASSUME NEW h, HeapOK(h), NEW m \in DOMAIN h, NEW e, NEW xs \in Seq(Node), NEW g,
           IsExtended(h, m, e, xs, g), e.nType = h[m].nType,
           e.children = <<Len(h) + 1>>,
           \/ Len(xs) = 1 /\ xs[1].children = <<>>
           \/ Len(xs) = 2 /\ xs[1].children = <<Len(h) + 2>> /\ xs[2].children = <<>>
    PROVE  /\ Grows(h, m, g)
           /\ Touched(h, m, g) \subseteq {m, Len(h) + 1, Len(h) + 2}
           /\ Len(h) + 1 \notin DOMAIN h /\ Len(h) + 2 \notin DOMAIN h
           /\ \A c : Hangs(g, m, c) => c = Len(h) + 1
           /\ \A c : Hangs(g, Len(h) + 1, c) => Len(xs) = 2 /\ c = Len(h) + 2
           /\ \A c : ~Hangs(g, Len(h) + 2, c)
<1>1. /\ Len(h) \in Nat /\ DOMAIN h = 1..Len(h) /\ Len(h) >= 1
      /\ Len(xs) \in {1, 2} /\ DOMAIN g = 1..(Len(h) + Len(xs))
      /\ g[m] = e /\ \A q \in DOMAIN h : q # m => g[q] = h[q]
      /\ \A k \in 1..Len(xs) : g[Len(h) + k] = xs[k]
  BY Nodes DEF HeapOK, IsExtended
<1>2. PICK a : a = Len(h) + 1
  OBVIOUS
<1>3. PICK b : b = Len(h) + 2
  OBVIOUS
<1>4. /\ a \notin DOMAIN h /\ b \notin DOMAIN h /\ m # a /\ m # b /\ a # b
      /\ a # 1 /\ b # 1
      /\ DOMAIN h \subseteq DOMAIN g /\ m \in DOMAIN g
      /\ Len(xs) = 1 => b \notin DOMAIN g
  BY <1>1, <1>2, <1>3
<1>5. g[a] = xs[1] /\ (Len(xs) = 2 => g[b] = xs[2])
  BY <1>1, <1>2, <1>3
<1>7. \A x \in DOMAIN g \ DOMAIN h : x = a \/ x = b
  <2>1. \A l \in Nat : \A j \in {1, 2} : \A x \in 1..(l + j) :
           x \notin 1..l => x = l + 1 \/ x = l + 2
    OBVIOUS
  <2>2. QED
    BY <1>1, <1>2, <1>3, <2>1
<1>8. \A c : Hangs(g, m, c) => c = a
  BY <1>1, <1>2 DEF Hangs
<1>9. \A c : Hangs(g, a, c) => Len(xs) = 2 /\ c = b
  BY <1>1, <1>3, <1>5 DEF Hangs
<1>10. \A c : ~Hangs(g, b, c)
  BY <1>1, <1>4, <1>5 DEF Hangs
<1>12. \A q \in Touched(h, m, g) : q \in {m, a, b}
  BY <1>7 DEF Touched
<1>13. \A q \in {m, a, b} : \A c : Hangs(g, q, c) =>
          /\ c \notin DOMAIN h
          /\ \A o \in {m, a, b} : Hangs(g, o, c) => o = q
  BY <1>4, <1>8, <1>9, <1>10
<1>14. Grows(h, m, g)
  <2>1. DOMAIN h \subseteq DOMAIN g /\ g[m].nType = h[m].nType
    BY <1>1, <1>4
  <2>2. QED
    BY <2>1, <1>1, <1>12, <1>13 DEF Grows
<1>15. QED
  BY <1>2, <1>3, <1>4, <1>8, <1>9, <1>10, <1>12, <1>14

\* InsertLeaf keeps the shape.
LEMMA InsertLeafGrafted ==
    ASSUME Types, Grafted, InsertLeaf
    PROVE  Grafted'
<1>1. /\ HeapOK(heap) /\ Forest(heap) /\ n \in DOMAIN heap /\ pc' = "register"
      /\ heap' = [heap EXCEPT ![n] = Refilled(heap[n], path, arg)]
      /\ path \in Seq(Bytes) /\ arg \in Seq(Bytes)
      /\ heap[n].nType \in {"static", "root"}
  BY InsertLeafIs DEF Types, Grafted, Stands
<1>2. PICK g : g = heap'
  OBVIOUS
<1>3. /\ DOMAIN g = DOMAIN heap
      /\ \A q \in DOMAIN heap : q # n => g[q] = heap[q]
      /\ \A q \in DOMAIN heap : /\ g[q].children = heap[q].children
                                /\ g[q].wildChild = heap[q].wildChild
                                /\ g[q].nType = heap[q].nType
  BY <1>1, <1>2, RefilledNode
<1>4. \A q, c : Hangs(g, q, c) <=> Hangs(heap, q, c)
  BY <1>3 DEF Hangs
<1>5. Touched(heap, n, g) = {n}
  BY <1>3 DEF Touched
<1>6. Grows(heap, n, g)
  BY <1>1, <1>3, <1>4, <1>5 DEF Grows
<1>7. \A c : Hangs(g, n, c) => c \in DOMAIN heap /\ Joint(g[n], heap[c])
  <2> SUFFICES ASSUME NEW c, Hangs(g, n, c)
               PROVE  c \in DOMAIN heap /\ Joint(g[n], heap[c])
    OBVIOUS
  <2>1. c \in DOMAIN heap /\ Hangs(heap, n, c)
    BY <1>1, <1>4, HangsIs
  <2>2. Joint(heap[n], heap[c])
    BY <2>1, <1>1 DEF Forest
  <2>3. QED
    BY <2>1, <2>2, <1>1, <1>3 DEF Joint
<1>8. Forest(g)
  BY <1>1, <1>3, <1>5, <1>6, <1>7, ForestGrown
<1>9. QED
  BY <1>1, <1>2, <1>8 DEF Grafted, Stands

\* A node insertChild hangs a wildcard on is neither a parameter nor a
\* catch-all.
LEMMA OnLiteral ==
    ASSUME Types, Grafted, AtWild, WildAt # 0
    PROVE  heap[n].nType \in {"static", "root"} /\ Forest(heap)
<1>1. path # <<>>
  <2>1. WildAt \in 0..Len(path)
    BY WildAtIs DEF Types
  <2>2. ASSUME path = <<>> PROVE FALSE
    BY <2>1, <2>2
  <2>3. QED
    BY <2>2
<1>2. QED
  BY <1>1 DEF AtWild, Grafted, Stands

\* The heap InsertParam leaves: its new nodes and its pointers.
LEMMA InsertParamGrows ==
    ASSUME Types, InsertParam
    PROVE  /\ Grows(heap, n, heap') /\ DOMAIN heap \subseteq DOMAIN heap'
           /\ Len(heap) + 1 \notin DOMAIN heap /\ Len(heap) + 2 \notin DOMAIN heap
           /\ Touched(heap, n, heap') \subseteq {n, Len(heap) + 1, Len(heap) + 2}
           /\ heap'[n] = Bent
           /\ \A c : Hangs(heap', n, c) => c = Len(heap) + 1
           /\ \A c : Hangs(heap', Len(heap) + 1, c) => c = Len(heap) + 2
           /\ \A c : ~Hangs(heap', Len(heap) + 2, c)
           /\ \/ /\ NameEnd > Len(path) /\ n' = Len(heap) + 1
                 /\ heap'[Len(heap) + 1] = ParamNode
                 /\ Len(heap) + 2 \notin DOMAIN heap'
              \/ /\ NameEnd <= Len(path) /\ n' = Len(heap) + 2
                 /\ heap'[Len(heap) + 1] = NamedNode
                 /\ heap'[Len(heap) + 2] = RestNode
<1>1. /\ HeapOK(heap) /\ n \in DOMAIN heap /\ Len(heap) \in Nat
      /\ DOMAIN heap = 1..Len(heap)
  BY Nodes DEF Types, HeapOK
<1>2. /\ ParamNode \in Node /\ NamedNode \in Node /\ RestNode \in Node
      /\ ParamNode.children = <<>> /\ NamedNode.children = <<Len(heap) + 2>>
      /\ RestNode.children = <<>>
      /\ Bent.children = <<Len(heap) + 1>> /\ Bent.nType = heap[n].nType
  BY InsertParamIs, ParamNodesAre, BentIs
<1>3. Len(heap) + 1 \notin DOMAIN heap /\ Len(heap) + 2 \notin DOMAIN heap
  BY <1>1
<1>4. CASE /\ NameEnd > Len(path) /\ n' = Len(heap) + 1
           /\ IsExtended(heap, n, Bent, <<ParamNode>>, heap')
           /\ Len(heap') = Len(heap) + 1
           /\ heap'[n] = Bent /\ heap'[Len(heap) + 1] = ParamNode
  <2>1. PICK xs : xs = <<ParamNode>>
    OBVIOUS
  <2>2. xs \in Seq(Node) /\ Len(xs) = 1 /\ xs[1].children = <<>>
    BY <2>1, <1>2
  <2>3. IsExtended(heap, n, Bent, xs, heap')
    BY <2>1, <1>4
  <2>4. /\ Grows(heap, n, heap')
        /\ Touched(heap, n, heap') \subseteq {n, Len(heap) + 1, Len(heap) + 2}
        /\ \A c : Hangs(heap', n, c) => c = Len(heap) + 1
        /\ \A c : Hangs(heap', Len(heap) + 1, c) => Len(xs) = 2 /\ c = Len(heap) + 2
        /\ \A c : ~Hangs(heap', Len(heap) + 2, c)
    <3>1. PICK e : e = Bent
      OBVIOUS
    <3>2. /\ e.nType = heap[n].nType /\ e.children = <<Len(heap) + 1>>
          /\ IsExtended(heap, n, e, xs, heap')
      BY <2>3, <3>1, <1>2
    <3>3. PICK g : g = heap'
      OBVIOUS
    <3>4. \/ Len(xs) = 1 /\ xs[1].children = <<>>
          \/ /\ Len(xs) = 2 /\ xs[1].children = <<Len(heap) + 2>>
             /\ xs[2].children = <<>>
      BY <2>2
    <3>5. IsExtended(heap, n, e, xs, g) /\ xs \in Seq(Node)
      BY <2>2, <3>2, <3>3
    <3>6. /\ Grows(heap, n, g)
          /\ Touched(heap, n, g) \subseteq {n, Len(heap) + 1, Len(heap) + 2}
          /\ \A c : Hangs(g, n, c) => c = Len(heap) + 1
          /\ \A c : Hangs(g, Len(heap) + 1, c) => Len(xs) = 2 /\ c = Len(heap) + 2
          /\ \A c : ~Hangs(g, Len(heap) + 2, c)
      BY <1>1, <3>2, <3>4, <3>5, ChainGrows
    <3>7. QED
      BY <3>3, <3>6
  <2>6. Len(heap) + 2 \notin DOMAIN heap'
    BY <2>2, <2>3, <1>1 DEF IsExtended
  <2>7. DOMAIN heap \subseteq DOMAIN heap'
    BY <2>4 DEF Grows
  <2>8. QED
    BY <2>2, <2>4, <2>6, <2>7, <1>3, <1>4
<1>5. CASE /\ NameEnd <= Len(path) /\ n' = Len(heap) + 2
           /\ IsExtended(heap, n, Bent, <<NamedNode, RestNode>>, heap')
           /\ heap'[n] = Bent /\ heap'[Len(heap) + 1] = NamedNode
           /\ heap'[Len(heap) + 2] = RestNode
  <2>1. PICK xs : xs = <<NamedNode, RestNode>>
    OBVIOUS
  <2>2. /\ xs \in Seq(Node) /\ Len(xs) = 2 /\ xs[1].children = <<Len(heap) + 2>>
        /\ xs[2].children = <<>>
    BY <2>1, <1>2
  <2>3. IsExtended(heap, n, Bent, xs, heap')
    BY <2>1, <1>5
  <2>4. /\ Grows(heap, n, heap')
        /\ Touched(heap, n, heap') \subseteq {n, Len(heap) + 1, Len(heap) + 2}
        /\ \A c : Hangs(heap', n, c) => c = Len(heap) + 1
        /\ \A c : Hangs(heap', Len(heap) + 1, c) => Len(xs) = 2 /\ c = Len(heap) + 2
        /\ \A c : ~Hangs(heap', Len(heap) + 2, c)
    <3>1. PICK e : e = Bent
      OBVIOUS
    <3>2. /\ e.nType = heap[n].nType /\ e.children = <<Len(heap) + 1>>
          /\ IsExtended(heap, n, e, xs, heap')
      BY <2>3, <3>1, <1>2
    <3>3. PICK g : g = heap'
      OBVIOUS
    <3>4. \/ Len(xs) = 1 /\ xs[1].children = <<>>
          \/ /\ Len(xs) = 2 /\ xs[1].children = <<Len(heap) + 2>>
             /\ xs[2].children = <<>>
      BY <2>2
    <3>5. IsExtended(heap, n, e, xs, g) /\ xs \in Seq(Node)
      BY <2>2, <3>2, <3>3
    <3>6. /\ Grows(heap, n, g)
          /\ Touched(heap, n, g) \subseteq {n, Len(heap) + 1, Len(heap) + 2}
          /\ \A c : Hangs(g, n, c) => c = Len(heap) + 1
          /\ \A c : Hangs(g, Len(heap) + 1, c) => Len(xs) = 2 /\ c = Len(heap) + 2
          /\ \A c : ~Hangs(g, Len(heap) + 2, c)
      BY <1>1, <3>2, <3>4, <3>5, ChainGrows
    <3>7. QED
      BY <3>3, <3>6
  <2>6. DOMAIN heap \subseteq DOMAIN heap'
    BY <2>4 DEF Grows
  <2>7. QED
    BY <2>4, <2>6, <1>3, <1>5
<1>6. QED
  BY <1>4, <1>5, InsertParamIs

\* InsertParam keeps the shape.
LEMMA InsertParamGrafted ==
    ASSUME Types, Grafted, InsertParam
    PROVE  Grafted'
<1>1. /\ HeapOK(heap) /\ Forest(heap) /\ n \in DOMAIN heap /\ pc' = "scan"
      /\ heap[n].nType \in {"static", "root"}
      /\ WildAt # 0 /\ wildcard > 0
      /\ path' = Drop(path, NameEnd - 1)
  BY InsertParamIs, OnLiteral DEF Types
<1>2. PICK a, b, g : a = Len(heap) + 1 /\ b = Len(heap) + 2 /\ g = heap'
  OBVIOUS
<1>3. /\ Grows(heap, n, g) /\ Touched(heap, n, g) \subseteq {n, a, b}
      /\ a \notin DOMAIN heap /\ b \notin DOMAIN heap
      /\ g[n].wildChild
      /\ \A c : Hangs(g, n, c) => c = a
      /\ \A c : Hangs(g, a, c) => c = b
      /\ \A c : ~Hangs(g, b, c)
      /\ \/ NameEnd > Len(path) /\ n' = a /\ g[a] = ParamNode /\ b \notin DOMAIN g
         \/ NameEnd <= Len(path) /\ n' = b /\ g[a] = NamedNode /\ g[b] = RestNode
  BY <1>1, <1>2, InsertParamGrows, BentIs
<1>4. /\ ParamNode.nType = "param" /\ NamedNode.nType = "param"
      /\ RestNode.nType = "static"
      /\ ParamNode.path = <<>> /\ NamedNode.path = SubSeq(path, WildAt, NameEnd - 1)
      /\ ParamNode.wildChild = FALSE /\ NamedNode.wildChild = FALSE
  BY <1>1, ParamNodesAre
<1>5. IsWild(NamedNode.path[1])
  <2>1. PICK f, e : f = WildAt /\ e = NameEnd
    OBVIOUS
  <2>2. f \in 1..Len(path) /\ e \in (f + 1)..(Len(path) + 1) /\ IsWild(path[f])
    BY <2>1, <1>1, WildAtIs, LenProperties DEF Types
  <2>3. Len(path) \in Nat /\ \A k \in 1..Len(path) : path[k] \in Bytes
    BY LenProperties, ElementOfSeq DEF Types
  <2>4. SubSeq(path, f, e - 1)[1] = path[f]
    <3>1. \A k \in f..(e - 1) : path[k] \in Bytes
      BY <2>2, <2>3
    <3>2. f \in Int /\ e - 1 \in Int /\ 1 \in 1..(e - 1 - f + 1) /\ f + 1 - 1 = f
      BY <2>2, <2>3
    <3>3. \A k \in 1..(e - 1 - f + 1) : SubSeq(path, f, e - 1)[k] = path[f + k - 1]
      BY <3>1, <3>2, SubSeqProperties
    <3>4. QED
      BY <3>2, <3>3
  <2>5. QED
    BY <2>1, <2>2, <2>4, <1>4
<1>6. \A q \in DOMAIN g \ DOMAIN heap :
         g[q].nType = "param" /\ g[q].path # <<>> => IsWild(g[q].path[1])
  <2>1. \A q \in DOMAIN g \ DOMAIN heap : (q = a \/ q = b) /\ q \in DOMAIN g
    BY <1>1, <1>3 DEF Touched
  <2>2. QED
    BY <2>1, <1>3, <1>4, <1>5
<1>7. \A q \in Touched(heap, n, g) : \A c \in DOMAIN g :
         Hangs(g, q, c) => Joint(g[q], g[c])
  <2>1. ASSUME NEW c \in DOMAIN g, Hangs(g, n, c)
        PROVE  Joint(g[n], g[c])
    BY <2>1, <1>3, <1>4 DEF Joint
  <2>2. ASSUME NEW c \in DOMAIN g, Hangs(g, a, c)
        PROVE  Joint(g[a], g[c])
    BY <2>2, <1>3, <1>4 DEF Joint
  <2>3. QED
    BY <2>1, <2>2, <1>3
<1>8. Forest(g)
  BY <1>1, <1>3, <1>6, <1>7, ForestGrown
<1>9. Stands'
  <2>1. CASE NameEnd > Len(path) /\ n' = a /\ g[a] = ParamNode
    <3>1. path' = <<>>
      <4>1. NameEnd \in 1..(Len(path) + 1) /\ Len(path) \in Nat
        BY <1>1, WildAtIs, LenProperties DEF Types
      <4>2. NameEnd - 1 = Len(path)
        BY <4>1, <2>1
      <4>3. QED
        BY <4>1, <4>2, <1>1, Cut DEF Types
    <3>2. QED
      BY <3>1, <2>1, <1>1, <1>2, <1>4 DEF Stands
  <2>2. CASE n' = b /\ g[b] = RestNode
    BY <2>2, <1>1, <1>2, <1>4 DEF Stands
  <2>3. QED
    BY <2>1, <2>2, <1>3
<1>10. QED
  BY <1>2, <1>8, <1>9 DEF Grafted

\* The heap InsertCatchAll leaves: its new nodes and its pointers.
LEMMA InsertCatchAllGrows ==
    ASSUME Types, InsertCatchAll
    PROVE  /\ Grows(heap, n, heap')
           /\ Len(heap) + 1 \notin DOMAIN heap /\ Len(heap) + 2 \notin DOMAIN heap
           /\ Touched(heap, n, heap') \subseteq {n, Len(heap) + 1, Len(heap) + 2}
           /\ \A c : Hangs(heap', n, c) => c = Len(heap) + 1
           /\ \A c : Hangs(heap', Len(heap) + 1, c) => c = Len(heap) + 2
           /\ \A c : ~Hangs(heap', Len(heap) + 2, c)
<1>1. HeapOK(heap) /\ n \in DOMAIN heap
  BY DEF Types, HeapOK
<1>2. PICK xs : xs = <<CatchEmpty, CatchLeaf>>
  OBVIOUS
<1>3. PICK e : e = CatchTop
  OBVIOUS
<1>4. PICK g : g = heap'
  OBVIOUS
<1>5. /\ xs \in Seq(Node) /\ Len(xs) = 2 /\ xs[1].children = <<Len(heap) + 2>>
      /\ xs[2].children = <<>>
  BY <1>2, InsertCatchAllIs
<1>6. /\ e.nType = heap[n].nType /\ e.children = <<Len(heap) + 1>>
      /\ IsExtended(heap, n, e, xs, g)
  BY <1>2, <1>3, <1>4, InsertCatchAllIs
<1>7. /\ Grows(heap, n, g)
      /\ Len(heap) + 1 \notin DOMAIN heap /\ Len(heap) + 2 \notin DOMAIN heap
      /\ Touched(heap, n, g) \subseteq {n, Len(heap) + 1, Len(heap) + 2}
      /\ \A c : Hangs(g, n, c) => c = Len(heap) + 1
      /\ \A c : Hangs(g, Len(heap) + 1, c) => Len(xs) = 2 /\ c = Len(heap) + 2
      /\ \A c : ~Hangs(g, Len(heap) + 2, c)
  BY <1>1, <1>5, <1>6, ChainGrows
<1>8. QED
  BY <1>4, <1>7

\* InsertCatchAll keeps the shape.
LEMMA InsertCatchAllGrafted ==
    ASSUME Types, Grafted, InsertCatchAll
    PROVE  Grafted' /\ heap[n].nType \in {"static", "root"}
<1>1. /\ HeapOK(heap) /\ n \in DOMAIN heap /\ pc' = "register"
      /\ AtWild /\ WildAt # 0 /\ WildAt > 1 /\ NameEnd = Len(path) + 1
      /\ NameEnd - WildAt >= 2 /\ heap[n].children = <<>>
  <2>1. HeapOK(heap) /\ n \in DOMAIN heap /\ path \in Seq(Bytes)
    BY DEF Types
  <2>2. WildAt \in 0..Len(path) /\ Len(path) \in Nat
    BY <2>1, WildAtIs, LenProperties
  <2>3. \A x \in Nat : x > 1 => x # 0
    OBVIOUS
  <2>4. WildAt \in Nat
    BY <2>2
  <2>5. QED
    BY <2>1, <2>3, <2>4, InsertCatchAllIs
<1>2. heap[n].nType \in {"static", "root"} /\ Forest(heap)
  BY <1>1, OnLiteral
<1>3. PICK a, b, g : a = Len(heap) + 1 /\ b = Len(heap) + 2 /\ g = heap'
  OBVIOUS
<1>4. /\ Grows(heap, n, g) /\ Touched(heap, n, g) \subseteq {n, a, b}
      /\ a \notin DOMAIN heap /\ b \notin DOMAIN heap
      /\ \A c : Hangs(g, n, c) => c = a
      /\ \A c : Hangs(g, a, c) => c = b
      /\ \A c : ~Hangs(g, b, c)
  BY <1>3, InsertCatchAllGrows
<1>5. /\ g[n].wildChild = heap[n].wildChild
      /\ g[a].nType = "catchAll" /\ g[a].path = <<>> /\ g[a].wildChild
      /\ g[b].nType = "catchAll" /\ g[b].path = Drop(path, WildAt - 2)
  BY <1>3, InsertCatchAllIs
<1>6. ~g[n].wildChild
  <2>1. heap[n].wildChild => Len(heap[n].children) = 1
    BY <1>1 DEF HeapOK, Pointers
  <2>2. QED
    BY <2>1, <1>1, <1>5
<1>7. Len(g[b].path) >= 2
  <2>1. PICK f : f = WildAt
    OBVIOUS
  <2>2. f \in 2..Len(path) /\ Len(path) \in Nat /\ path \in Seq(Bytes)
    BY <1>1, <2>1, WildAtIs, LenProperties DEF Types
  <2>3. f - 2 \in 0..Len(path)
    BY <2>2
  <2>4. Len(Drop(path, f - 2)) = Len(path) - (f - 2)
    BY <2>2, <2>3, Cut, ZenonT(60)
  <2>5. QED
    BY <2>1, <2>2, <2>4, <1>5
<1>8. \A q \in DOMAIN g \ DOMAIN heap :
         g[q].nType = "param" /\ g[q].path # <<>> => IsWild(g[q].path[1])
  <2>1. \A q \in DOMAIN g \ DOMAIN heap : q = a \/ q = b
    BY <1>1, <1>4 DEF Touched
  <2>2. QED
    BY <2>1, <1>5
<1>9. \A q \in Touched(heap, n, g) : \A c \in DOMAIN g :
         Hangs(g, q, c) => Joint(g[q], g[c])
  <2>1. ASSUME NEW c \in DOMAIN g, Hangs(g, n, c)
        PROVE  Joint(g[n], g[c])
    BY <2>1, <1>4, <1>5, <1>6 DEF Joint
  <2>2. ASSUME NEW c \in DOMAIN g, Hangs(g, a, c)
        PROVE  Joint(g[a], g[c])
    BY <2>2, <1>4, <1>5, <1>7 DEF Joint
  <2>3. QED
    BY <2>1, <2>2, <1>4
<1>10. Forest(g)
  BY <1>1, <1>2, <1>4, <1>8, <1>9, ForestGrown
<1>11. QED
  BY <1>1, <1>2, <1>3, <1>10 DEF Grafted, Stands

\* A step that leaves the tree alone.
LEMMA RestGrafted ==
    ASSUME Grafted, pc # "panic", UNCHANGED heap,
           pc' \in {"register", "serve", "lookup", "answer", "panic"}
    PROVE  Grafted'
  BY DEF Grafted, Stands

\* The empty tree.
LEMMA InitGrafted == Init => Grafted
<1> SUFFICES ASSUME Init PROVE Grafted
  OBVIOUS
<1>1. heap = <<routerNode>> /\ pc = "register"
  BY DEF Init
<1>2. /\ DOMAIN heap = {1} /\ heap[1].children = <<>> /\ heap[1].nType = "static"
  BY <1>1, FreshNode
<1>3. \A m, c : ~Hangs(heap, m, c)
  BY <1>2 DEF Hangs
<1>4. Forest(heap)
  BY <1>2, <1>3 DEF Forest
<1>5. QED
  BY <1>1, <1>4 DEF Grafted, Stands

\* Every step keeps the shape.
LEMMA GraftedInductive ==
    ASSUME Types, Grafted, [Next]_vars
    PROVE  Grafted'
<1>1. ASSUME NEW p \in Routes, InsertRefused(p) PROVE Grafted'
  BY <1>1 DEF Grafted, InsertRefused
<1>2. ASSUME NEW p \in Routes, Insert(p) PROVE Grafted'
  BY <1>2, InsertGrafted
<1>3. CASE Walk
  BY <1>3, WalkGrafted
<1>4. CASE DescendWild
  BY <1>4, DescendWildGrafted
<1>5. CASE DescendNothing \/ InsertBadWild \/ InsertBadCatchAll
  BY <1>5 DEF Grafted, DescendNothing, InsertBadWild, InsertBadCatchAll, Panic
<1>6. CASE DescendSlash
  BY <1>6, DescendSlashGrafted
<1>7. CASE DescendIndex
  <2>1. CASE pc' = "panic"
    BY <2>1 DEF Grafted
  <2>2. QED
    BY <2>1, <1>7, DescendIndexGrafted
<1>8. CASE AddChild
  <2>1. CASE pc' = "panic"
    BY <2>1 DEF Grafted
  <2>2. QED
    BY <2>1, <1>8, AddChildGrafted
<1>9. CASE InsertLeaf
  BY <1>9, InsertLeafGrafted
<1>10. CASE InsertParam
  BY <1>10, InsertParamGrafted
<1>11. CASE InsertCatchAll
  BY <1>11, InsertCatchAllGrafted
<1>12. CASE InsertEnd
  <2>1. pc # "panic" /\ heap' = heap /\ pc' = "register"
    BY <1>12 DEF InsertEnd, Registered
  <2>2. QED
    BY <2>1, RestGrafted
<1>13. CASE Listen \/ Answered
  <2>1. pc # "panic" /\ heap' = heap /\ pc' = "serve"
    BY <1>13 DEF Listen, Answered, tree
  <2>2. QED
    BY <2>1, RestGrafted
<1>14. ASSUME NEW p \in Paths, Match(p) PROVE Grafted'
  <2>1. pc # "panic" /\ heap' = heap /\ pc' = "lookup"
    BY <1>14 DEF Match, tree
  <2>2. QED
    BY <2>1, RestGrafted
<1>15. CASE GetValue
  <2>1. pc = "lookup" /\ heap' = heap /\ pc' \in {"lookup", "answer"}
    BY <1>15 DEF GetValue, LookupChild, LookupParamPanic, LookupParam, LookupCatchAll,
          LookupEnd, LookupMiss, AtNode, AtWildChild, MoveTo, Return, Answer, tree
  <2>2. QED
    BY <2>1, RestGrafted
<1>16. CASE UNCHANGED vars
  BY <1>16 DEF Grafted, Stands, SlashNext, vars
<1>17. QED
  BY <1>1, <1>2, <1>3, <1>4, <1>5, <1>6, <1>7, <1>8, <1>9, <1>10, <1>11, <1>12,
     <1>13, <1>14, <1>15, <1>16 DEF Next, AddRoute

-----------------------------------------------------------------------------
(* The parameters fit their capacity.                                        *)

\* The values a node binds on the way to its children.
Binds(x) == IF x.nType = "param" THEN 1 ELSE 0

\* Below the root a node has room for what its children and it bind.
Roomy(h) ==
    /\ \A m \in DOMAIN h : \A c \in DOMAIN h :
          Hangs(h, m, c) /\ m # 1 => h[m].maxParams >= h[c].maxParams + Binds(h[m])
    /\ \A m \in DOMAIN h : h[m].nType \in {"param", "catchAll"} => h[m].maxParams >= 1

\* The wildcards in a path.
Wilds(s) == Cardinality({k \in DOMAIN s : IsWild(s[k])})

\* The set whose elements Wilds counts is finite.
LEMMA WildsIs ==
    ASSUME NEW s \in Seq(Bytes)
    PROVE  /\ IsFiniteSet({k \in DOMAIN s : IsWild(s[k])})
           /\ Wilds(s) \in Nat
           /\ Wilds(s) = 0 <=> \A k \in DOMAIN s : ~IsWild(s[k])
           /\ Wilds(s) <= 255 => wildcardNum(s) = Wilds(s)
<1> DEFINE W == {k \in DOMAIN s : IsWild(s[k])}
<1>1. IsFiniteSet(W)
  <2>1. DOMAIN s = 1..Len(s) /\ Len(s) \in Nat
    BY LenProperties
  <2>2. IsFiniteSet(1..Len(s))
    BY <2>1, FS_Interval
  <2>3. QED
    BY <2>1, <2>2, FS_Subset
<1>2. PICK c : c = Cardinality(W)
  OBVIOUS
<1>3. c \in Nat /\ (c = 0 <=> W = {})
  <2> HIDE DEF W
  <2>1. QED
    BY <1>1, <1>2, FS_CardinalityType, FS_EmptySet
<1>4. ASSUME c <= 255
      PROVE  Min({255, c}) = c
  <2>1. {255, c} \in SUBSET Nat /\ {255, c} # {}
    BY <1>3
  <2>2. Min({255, c}) \in {255, c} /\ Min({255, c}) <= c
    BY <2>1, MinIsLeast
  <2>3. PICK m : m = Min({255, c})
    OBVIOUS
  <2>4. m \in {255, c} /\ m <= c
    BY <2>2, <2>3
  <2>5. QED
    BY <2>3, <2>4, <1>3, <1>4
<1>5. Wilds(s) = c /\ wildcardNum(s) = Min({255, c})
  BY <1>2 DEF Wilds, wildcardNum
<1>6. c = 0 <=> \A k \in DOMAIN s : ~IsWild(s[k])
  BY <1>3
<1>7. QED
  BY <1>1, <1>3, <1>4, <1>5, <1>6

\* Cutting off the beginning of a path, with a wildcard in it or not.
LEMMA WildsCut ==
    ASSUME NEW s \in Seq(Bytes), NEW i \in 0..Len(s)
    PROVE  /\ Wilds(Drop(s, i)) <= Wilds(s)
           /\ \A j \in 1..i : IsWild(s[j]) => Wilds(Drop(s, i)) + 1 <= Wilds(s)
<1> DEFINE t == Drop(s, i)
           W == {k \in DOMAIN s : IsWild(s[k])}
           V == {k \in DOMAIN t : IsWild(t[k])}
           f == [k \in V |-> i + k]
<1>1. /\ Len(s) \in Nat /\ DOMAIN s = 1..Len(s)
      /\ t \in Seq(Bytes) /\ DOMAIN t = 1..(Len(s) - i)
      /\ \A k \in 1..(Len(s) - i) : t[k] = s[i + k]
  BY LenProperties, Cut
<1>2. IsFiniteSet(W) /\ Wilds(s) \in Nat /\ Wilds(s) = Cardinality(W)
      /\ Wilds(t) = Cardinality(V) /\ Wilds(t) \in Nat
  BY <1>1, WildsIs DEF Wilds
<1>3. \A k \in V : i + k \in W /\ k \in Nat /\ i + k \in (i + 1)..Len(s)
  <2> SUFFICES ASSUME NEW k \in V
               PROVE  i + k \in W /\ k \in Nat /\ i + k \in (i + 1)..Len(s)
    OBVIOUS
  <2>1. k \in 1..(Len(s) - i) /\ IsWild(s[i + k])
    BY <1>1
  <2>2. i + k \in 1..Len(s) /\ i + k \in (i + 1)..Len(s) /\ k \in Nat
    BY <2>1, <1>1
  <2>3. QED
    BY <2>1, <2>2, <1>1
<1>4. \A a, b \in V : f[a] = f[b] => a = b
  BY <1>3
<1> HIDE DEF V, W, t
<1>5. f \in Injection(V, W)
  BY <1>3, <1>4 DEF Injection, IsInjective
<1>6. Cardinality(V) <= Cardinality(W)
  <2> HIDE DEF f
  <2>1. QED
    BY <1>2, <1>5, FS_Injection
<1>7. ASSUME NEW j \in 1..i, IsWild(s[j])
      PROVE  Wilds(t) + 1 <= Wilds(s)
  <2>1. j \in W
    BY <1>1, <1>7 DEF W
  <2>2. IsFiniteSet(W \ {j}) /\ Cardinality(W \ {j}) = Cardinality(W) - 1
    BY <1>2, <2>1, FS_RemoveElement
  <2>3. \A k \in V : f[k] \in W \ {j}
    BY <1>3
  <2>4. f \in Injection(V, W \ {j})
    BY <2>3, <1>4 DEF Injection, IsInjective
  <2>5. Cardinality(V) <= Cardinality(W \ {j})
    <3> HIDE DEF f
    <3>1. QED
      BY <2>2, <2>4, FS_Injection
  <2>6. QED
    BY <1>2, <2>2, <2>5
<1>8. QED
  BY <1>2, <1>6, <1>7 DEF t

\* A parameter that ends its route has no name.
Unnamed(h) == \E m \in DOMAIN h : h[m].nType = "param" /\ h[m].path = <<>>

\* The nodes above m, the root excepted, have room for w values below them.
Above(h, m, w) ==
    \A q \in DOMAIN h : Hangs(h, q, m) /\ q # 1 => h[q].maxParams >= w + Binds(h[q])

\* What addRoute knows of the way down: the nodes behind it have room for the
\* wildcards left to insert, and those are at least the wildcards of the path.
Climbs ==
    /\ pc = "walk" =>
         /\ Above(heap, n, wildcard)
         /\ heap[n].nType = "param" => heap[n].maxParams >= wildcard + 1
         /\ Wilds(path) <= wildcard + Binds(heap[n])
    /\ pc \in {"descend", "insert", "scan"} =>
         /\ n # 1 => heap[n].maxParams >= wildcard + Binds(heap[n])
         /\ Wilds(path) <= wildcard

\* A key and its value.
Param == [key : Seq(Bytes), val : Seq(Bytes)]

\* The params getValue has collected leave room for those below the node.
Spares ==
    pc = "lookup" =>
      /\ room \in Int /\ params \in Seq(Param)
      /\ \/ room = -1 /\ params = <<>>
         \/ room # -1 /\ n # 1 /\ Len(params) + heap[n].maxParams <= room

Fits == Roomy(heap) /\ Climbs /\ Spares

\* Unless a registration panicked or left a parameter without its name.
Fitting == pc # "panic" => Unnamed(heap) \/ Fits

\* The numbers in a heap.
LEMMA Counts ==
    ASSUME NEW h, HeapOK(h)
    PROVE  \A q \in DOMAIN h : /\ h[q].maxParams \in 0..255 /\ h[q].maxParams \in Int
                               /\ Binds(h[q]) \in {0, 1} /\ Binds(h[q]) \in Int
<1>1. \A q \in DOMAIN h : h[q].maxParams \in 0..255
  BY Nodes DEF HeapOK
<1>2. \A q \in DOMAIN h : Binds(h[q]) \in {0, 1}
  BY DEF Binds
<1>3. \A x \in 0..255 : x \in Int
  OBVIOUS
<1>4. QED
  BY <1>1, <1>2, <1>3

\* A node with room of its own has room above it.
LEMMA AboveOwn ==
    ASSUME NEW h, HeapOK(h), Roomy(h), NEW m \in DOMAIN h, NEW w \in Int,
           h[m].maxParams >= w
    PROVE  Above(h, m, w)
<1> SUFFICES ASSUME NEW q \in DOMAIN h, Hangs(h, q, m), q # 1
             PROVE  h[q].maxParams >= w + Binds(h[q])
  BY DEF Above
<1>1. h[q].maxParams >= h[m].maxParams + Binds(h[q])
  BY DEF Roomy
<1>2. h[q].maxParams \in Int /\ h[m].maxParams \in Int /\ Binds(h[q]) \in Int
  BY Counts
<1>3. QED
  BY <1>1, <1>2

\* A node whose maxParams is raised no higher than the nodes above it allow.
LEMMA RoomyRaised ==
    ASSUME NEW h, HeapOK(h), Forest(h), Roomy(h), NEW g, HeapOK(g), Alike(h, g),
           NEW x \in DOMAIN h, g[x].maxParams >= h[x].maxParams,
           \A q \in DOMAIN h : q # x => g[q].maxParams = h[q].maxParams,
           Above(h, x, g[x].maxParams)
    PROVE  Roomy(g)
<1>1. DOMAIN g = DOMAIN h /\ 1 \in DOMAIN h
  <2>1. h \in Seq(Node) /\ h # <<>>
    BY DEF HeapOK
  <2>2. QED
    BY <2>1, Nodes, EmptySeq DEF Alike
<1>2. \A q \in DOMAIN h :
         /\ g[q].maxParams \in Int /\ h[q].maxParams \in Int
         /\ g[q].maxParams >= h[q].maxParams /\ Binds(h[q]) \in Int
  <2>1. \A q \in DOMAIN h : h[q].maxParams \in Int /\ Binds(h[q]) \in Int
    BY Counts
  <2>2. \A q \in DOMAIN h : g[q].maxParams \in Int
    BY <1>1, Counts
  <2>3. QED
    BY <2>1, <2>2
<1>3. \A q \in DOMAIN h : g[q].nType = h[q].nType \/ (q = 1 /\ g[q].nType = "root")
  BY DEF Alike
<1>4. \A q \in DOMAIN h : q # 1 => Binds(g[q]) = Binds(h[q])
  BY <1>3 DEF Binds
<1>5. ASSUME NEW m \in DOMAIN h, NEW c \in DOMAIN h, Hangs(g, m, c), m # 1
      PROVE  g[m].maxParams >= g[c].maxParams + Binds(g[m])
  <2>1. Hangs(h, m, c)
    BY <1>5, ForestAlike
  <2>2. h[m].maxParams >= h[c].maxParams + Binds(h[m])
    BY <2>1, <1>5 DEF Roomy
  <2>3. CASE c = x
    <3>1. h[m].maxParams >= g[c].maxParams + Binds(h[m])
      BY <2>1, <2>3, <1>5 DEF Above
    <3>2. QED
      BY <3>1, <1>2, <1>4, <1>5
  <2>4. CASE c # x
    BY <2>2, <2>4, <1>2, <1>4, <1>5
  <2>5. QED
    BY <2>3, <2>4
<1>6. ASSUME NEW q \in DOMAIN h, g[q].nType \in {"param", "catchAll"}
      PROVE  g[q].maxParams >= 1
  <2>1. h[q].nType = g[q].nType
    BY <1>3, <1>6
  <2>2. h[q].maxParams >= 1
    BY <2>1, <1>6 DEF Roomy
  <2>3. QED
    BY <2>2, <1>2
<1>7. QED
  BY <1>1, <1>5, <1>6 DEF Roomy

\* The same heap up to the order of the children and priorities.
LEMMA RoomyAlike ==
    ASSUME NEW h, HeapOK(h), Forest(h), Roomy(h), NEW g, HeapOK(g), Alike(h, g),
           \A q \in DOMAIN h : g[q].maxParams = h[q].maxParams
    PROVE  Roomy(g)
<1>1. 1 \in DOMAIN h
  <2>1. h \in Seq(Node) /\ h # <<>>
    BY DEF HeapOK
  <2>2. QED
    BY <2>1, Nodes, EmptySeq
<1>2. PICK w \in Int : w = h[1].maxParams /\ w = g[1].maxParams
  BY <1>1, Counts
<1>3. w >= w /\ h[1].maxParams >= w
  BY <1>2
<1>4. Above(h, 1, g[1].maxParams)
  BY <1>1, <1>2, <1>3, AboveOwn
<1>5. QED
  BY <1>1, <1>2, <1>3, <1>4, RoomyRaised

\* A grown heap has room if the changed and the new nodes have.
LEMMA RoomyGrown ==
    ASSUME NEW h, HeapOK(h), Roomy(h), NEW m \in DOMAIN h, NEW g, HeapOK(g),
           Grows(h, m, g), g[m].maxParams >= h[m].maxParams,
           Above(h, m, g[m].maxParams),
           \A q \in Touched(h, m, g) : \A c \in DOMAIN g :
              Hangs(g, q, c) /\ q # 1 => g[q].maxParams >= g[c].maxParams + Binds(g[q]),
           \A q \in DOMAIN g \ DOMAIN h :
              g[q].nType \in {"param", "catchAll"} => g[q].maxParams >= 1
    PROVE  Roomy(g)
<1>1. /\ DOMAIN h \subseteq DOMAIN g /\ g[m].nType = h[m].nType
      /\ \A q \in DOMAIN h : q # m => g[q] = h[q]
  BY DEF Grows
<1>2. ASSUME NEW q \in DOMAIN g, NEW c \in DOMAIN g, Hangs(g, q, c), q # 1
      PROVE  g[q].maxParams >= g[c].maxParams + Binds(g[q])
  <2>1. CASE q \in Touched(h, m, g)
    BY <2>1, <1>2
  <2>2. CASE q \in DOMAIN h /\ q # m /\ Hangs(h, q, c)
    <3>1. c \in DOMAIN h /\ g[q] = h[q]
      BY <2>2, <1>1, HangsIs
    <3>2. CASE c = m
      BY <3>1, <3>2, <2>2, <1>2 DEF Above
    <3>3. CASE c # m
      BY <3>1, <3>3, <2>2, <1>1, <1>2 DEF Roomy
    <3>4. QED
      BY <3>2, <3>3
  <2>3. QED
    BY <2>1, <2>2, <1>2, GrownPointers
<1>3. ASSUME NEW q \in DOMAIN g, g[q].nType \in {"param", "catchAll"}
      PROVE  g[q].maxParams >= 1
  <2>1. CASE q \notin DOMAIN h
    BY <2>1, <1>3
  <2>2. CASE q \in DOMAIN h
    <3>1. g[q].nType = h[q].nType
      BY <2>2, <1>1
    <3>2. h[q].maxParams >= 1
      BY <3>1, <2>2, <1>3 DEF Roomy
    <3>3. CASE q = m
      <4>1. h[m].maxParams \in Int
        BY Counts
      <4>2. g[m].maxParams \in Int
        BY <1>1, Counts
      <4>3. QED
        BY <4>1, <4>2, <3>2, <3>3
    <3>4. QED
      BY <3>2, <3>3, <2>2, <1>1
  <2>3. QED
    BY <2>1, <2>2
<1>4. QED
  BY <1>2, <1>3 DEF Roomy

\* A parameter without a name stays one.
LEMMA UnnamedAlike ==
    ASSUME NEW h, Forest(h), NEW g, Alike(h, g)
    PROVE  Unnamed(h) <=> Unnamed(g)
<1>1. \A q \in DOMAIN h : h[q].nType = "param" <=> g[q].nType = "param"
  BY DEF Alike, Forest
<1>2. QED
  BY <1>1 DEF Unnamed, Alike

LEMMA UnnamedGrown ==
    ASSUME NEW h, NEW m \in DOMAIN h, NEW g, Grows(h, m, g), Unnamed(h),
           h[m].nType # "param" \/ g[m].path = h[m].path
    PROVE  Unnamed(g)
<1>1. PICK q \in DOMAIN h : h[q].nType = "param" /\ h[q].path = <<>>
  BY DEF Unnamed
<1>2. q \in DOMAIN g /\ g[q].nType = "param" /\ g[q].path = <<>>
  BY <1>1 DEF Grows
<1>3. QED
  BY <1>2 DEF Unnamed

\* A parameter without a name survives Walk.
LEMMA WalkUnnamed ==
    ASSUME Types, Forest(heap), Stands, Walk, Unnamed(heap)
    PROVE  Unnamed(heap')
<1>1. /\ Forest(Lifted) /\ Forest(Parted) /\ Alike(heap, Lifted) /\ Alike(Parted, heap')
  BY WalkForest
<1>2. Unnamed(Lifted)
  BY <1>1, UnnamedAlike
<1>3. Unnamed(Parted)
  <2>1. CASE Common = Len(heap[n].path)
    BY <2>1, <1>2, WalkIs
  <2>2. CASE Common # Len(heap[n].path)
    <3>1. PICK h : h = Lifted
      OBVIOUS
    <3>2. PICK g : g = Parted
      OBVIOUS
    <3>3. HeapOK(h) /\ n \in DOMAIN h /\ h[n].nType # "param" /\ Unnamed(h)
      BY <2>2, <3>1, <1>2, WalkWhole, LiftedOK DEF Types
    <3>4. g \in Seq(Node) /\ IsSplit(h, n, Common, g)
      BY <2>2, <3>1, <3>2, WalkIs
    <3>5. Grows(h, n, g)
      BY <3>3, <3>4, SplitGrows
    <3>6. Unnamed(g)
      BY <3>3, <3>5, UnnamedGrown
    <3>7. QED
      BY <3>2, <3>6
  <2>3. QED
    BY <2>1, <2>2
<1>4. QED
  BY <1>1, <1>3, UnnamedAlike

\* The heap Walk leaves has room.
LEMMA WalkRoomy ==
    ASSUME Types, Forest(heap), Stands, Fits, Walk
    PROVE  /\ Roomy(heap') /\ heap'[n].maxParams = Raised(heap[n])
           /\ heap'[n].nType = heap[n].nType \/ n = 1
<1>1. /\ Forest(Lifted) /\ Forest(Parted) /\ Alike(heap, Lifted) /\ Alike(Parted, heap')
      /\ \A q \in DOMAIN Parted : heap'[q].maxParams = Parted[q].maxParams
  BY WalkForest
<1>2. /\ HeapOK(heap) /\ HeapOK(Lifted) /\ n \in DOMAIN heap /\ n \in DOMAIN Lifted
      /\ heap[n].maxParams \in 0..255 /\ wildcard \in 0..255
      /\ Lifted[n].maxParams = Raised(heap[n])
      /\ Lifted[n].nType = heap[n].nType
      /\ \A q \in DOMAIN heap : q # n => Lifted[q] = heap[q]
  BY LiftedOK, Counts DEF Types
<1>3. Roomy(heap) /\ Above(heap, n, wildcard) /\ Above(heap, n, heap[n].maxParams)
  <2>1. Roomy(heap) /\ Above(heap, n, wildcard)
    BY DEF Fits, Climbs, Walk
  <2>2. PICK w \in Int : w = heap[n].maxParams /\ heap[n].maxParams >= w
    BY <1>2
  <2>3. Above(heap, n, w)
    BY <2>1, <2>2, <1>2, AboveOwn
  <2>4. QED
    BY <2>1, <2>2, <2>3
<1>4. PICK r \in 0..255 : /\ r = Raised(heap[n]) /\ r >= heap[n].maxParams
                          /\ r \in {heap[n].maxParams, wildcard}
  BY <1>2, RaisedIs
<1>5. Above(heap, n, r)
  BY <1>3, <1>4
<1>6. Roomy(Lifted)
  <2>1. PICK g : g = Lifted
    OBVIOUS
  <2>2. /\ HeapOK(g) /\ Alike(heap, g) /\ g[n].maxParams = r
        /\ \A q \in DOMAIN heap : q # n => g[q].maxParams = heap[q].maxParams
    BY <2>1, <1>1, <1>2, <1>4
  <2>3. Above(heap, n, g[n].maxParams) /\ g[n].maxParams >= heap[n].maxParams
    BY <2>2, <1>4, <1>5
  <2>4. Roomy(g)
    BY <2>2, <2>3, <1>2, <1>3, RoomyRaised
  <2>5. QED
    BY <2>1, <2>4
<1>7. /\ Roomy(Parted) /\ Parted[n].maxParams = r /\ Parted[n].nType = heap[n].nType
      /\ n \in DOMAIN Parted /\ HeapOK(Parted)
  <2>1. CASE Common = Len(heap[n].path)
    BY <2>1, <1>2, <1>4, <1>6, WalkIs
  <2>2. CASE Common # Len(heap[n].path)
    <3>1. PICK h : h = Lifted
      OBVIOUS
    <3>2. PICK g : g = Parted
      OBVIOUS
    <3>3. PICK new : new = Len(h) + 1
      OBVIOUS
    <3>4. /\ HeapOK(h) /\ n \in DOMAIN h /\ Roomy(h) /\ h[n].maxParams = r
          /\ h[n].nType \notin {"param", "catchAll"}
      BY <2>2, <3>1, <1>2, <1>4, <1>6, WalkWhole
    <3>5. /\ g \in Seq(Node) /\ HeapOK(g) /\ IsSplit(h, n, Common, g) /\ n \in DOMAIN g
      BY <2>2, <3>1, <3>2, WalkIs
    <3>6. /\ Grows(h, n, g) /\ Touched(h, n, g) = {n, new} /\ new \notin DOMAIN h
          /\ \A c : Hangs(g, n, c) => c = new
          /\ \A c : Hangs(g, new, c) <=> Hangs(h, n, c)
      BY <3>3, <3>4, <3>5, SplitGrows
    <3>7. PICK M : M = {0} \cup {h[c].maxParams : c \in ToSet(h[n].children)}
      OBVIOUS
    <3>8. /\ g[n].maxParams = r /\ g[n].nType = h[n].nType
          /\ g[new].nType = "static" /\ g[new].maxParams = Max(M)
          /\ g[n].children = <<new>> /\ g[new].children = h[n].children
      BY <3>3, <3>4, <3>5, <3>7 DEF IsSplit
    <3>9. \A c : c \in ToSet(h[n].children) <=> Hangs(h, n, c)
      BY <3>4 DEF ToSet, Hangs
    <3>10. \A x \in M : x = 0 \/ \E c \in DOMAIN h : Hangs(h, n, c) /\ x = h[c].maxParams
      BY <3>4, <3>7, <3>9, HangsIs
    <3>11. M \in SUBSET (0..255) /\ 0 \in M
      <4>1. \A c \in DOMAIN h : h[c].maxParams \in 0..255
        BY <3>4, Counts
      <4>2. 0 \in 0..255
        OBVIOUS
      <4>3. \A x \in M : x \in 0..255
        BY <4>1, <4>2, <3>10
      <4>4. QED
        BY <4>3, <3>7
    <3>12. Max(M) \in M /\ \A x \in M : Max(M) >= x
      BY <3>11, MaxOfBounded
    <3>13. PICK k \in 0..255 : k = Max(M) /\ k \in M /\ \A x \in M : k >= x
      BY <3>11, <3>12
    <3>14. Binds(g[n]) = 0 /\ Binds(g[new]) = 0
      BY <3>4, <3>8 DEF Binds
    <3>15. n # 1 => r >= k
      <4>1. SUFFICES ASSUME n # 1 PROVE r >= k
        OBVIOUS
      <4>2. CASE k = 0
        BY <4>2
      <4>3. CASE \E c \in DOMAIN h : Hangs(h, n, c) /\ k = h[c].maxParams
        <5>1. PICK c \in DOMAIN h : Hangs(h, n, c) /\ k = h[c].maxParams
          BY <4>3
        <5>2. h[n].maxParams >= h[c].maxParams + Binds(h[n])
          BY <4>1, <5>1, <3>4 DEF Roomy
        <5>3. Binds(h[n]) = 0
          BY <3>4 DEF Binds
        <5>4. QED
          BY <5>1, <5>2, <5>3, <3>4
      <4>4. QED
        BY <4>2, <4>3, <3>10, <3>13
    <3>16. ASSUME NEW c \in DOMAIN g, Hangs(g, new, c)
           PROVE  k >= g[c].maxParams
      <4>1. Hangs(h, n, c) /\ c \in DOMAIN h
        BY <3>4, <3>6, <3>16, HangsIs
      <4>2. h[c].maxParams \in M
        BY <4>1, <3>7, <3>9
      <4>3. g[c].maxParams = h[c].maxParams
        BY <4>1, <3>4, <3>6, <3>8 DEF Grows
      <4>4. QED
        BY <4>2, <4>3, <3>13
    <3>17. \A q \in Touched(h, n, g) : \A c \in DOMAIN g :
              Hangs(g, q, c) /\ q # 1 => g[q].maxParams >= g[c].maxParams + Binds(g[q])
      <4>1. \A c \in DOMAIN g : g[c].maxParams \in Int
        BY <3>5, Counts
      <4>2. ASSUME NEW c \in DOMAIN g, Hangs(g, n, c), n # 1
            PROVE  g[n].maxParams >= g[c].maxParams + Binds(g[n])
        <5>1. c = new /\ r >= k
          BY <4>2, <3>6, <3>15
        <5>2. QED
          BY <5>1, <3>8, <3>13, <3>14
      <4>3. ASSUME NEW c \in DOMAIN g, Hangs(g, new, c)
            PROVE  g[new].maxParams >= g[c].maxParams + Binds(g[new])
        BY <4>1, <4>3, <3>8, <3>13, <3>14, <3>16
      <4>4. QED
        BY <4>2, <4>3, <3>6
    <3>18. \A q \in DOMAIN g \ DOMAIN h :
              g[q].nType \in {"param", "catchAll"} => g[q].maxParams >= 1
      BY <3>4, <3>6, <3>8 DEF Touched
    <3>19. g[n].maxParams >= h[n].maxParams /\ Above(h, n, g[n].maxParams)
      <4>1. r \in Int /\ r >= r /\ h[n].maxParams >= r
        BY <3>4
      <4>2. Above(h, n, r)
        BY <4>1, <3>4, AboveOwn
      <4>3. QED
        BY <4>1, <4>2, <3>4, <3>8
    <3>20. Roomy(g)
      BY <3>4, <3>5, <3>6, <3>17, <3>18, <3>19, RoomyGrown
    <3>21. QED
      BY <3>1, <3>2, <3>5, <3>8, <3>20, <1>2
  <2>3. QED
    BY <2>1, <2>2
<1>8. Roomy(heap')
  <2>1. PICK h : h = Parted
    OBVIOUS
  <2>2. PICK g : g = heap'
    OBVIOUS
  <2>3. /\ HeapOK(h) /\ Forest(h) /\ Roomy(h) /\ HeapOK(g) /\ Alike(h, g)
        /\ \A q \in DOMAIN h : g[q].maxParams = h[q].maxParams
    BY <2>1, <2>2, <1>1, <1>7, WalkIs
  <2>4. Roomy(g)
    BY <2>3, RoomyAlike
  <2>5. QED
    BY <2>2, <2>4
<1>9. heap'[n].nType = heap[n].nType \/ n = 1
  BY <1>1, <1>7 DEF Alike
<1>10. QED
  BY <1>1, <1>4, <1>7, <1>8, <1>9

\* Walk keeps the room, and takes the wildcard of a parameter off the path.
LEMMA WalkFits ==
    ASSUME Types, Grafted, Fitting, Walk
    PROVE  Fitting'
<1>1. Forest(heap) /\ Stands /\ pc = "walk" /\ n' = n /\ wildcard' = wildcard
  BY DEF Grafted, Walk
<1>2. CASE Unnamed(heap)
  BY <1>1, <1>2, WalkUnnamed DEF Fitting
<1>3. CASE ~Unnamed(heap)
  <2>1. Fits
    BY <1>1, <1>3 DEF Fitting
  <2>2. /\ Roomy(heap') /\ heap'[n].maxParams = Raised(heap[n])
        /\ heap'[n].nType = heap[n].nType \/ n = 1
    BY <2>1, <1>1, WalkRoomy
  <2>3. /\ n \in DOMAIN heap /\ HeapOK(heap) /\ path \in Seq(Bytes)
        /\ heap[n].maxParams \in 0..255 /\ wildcard \in 0..255
        /\ Binds(heap[n]) \in {0, 1} /\ heap[n].path \in Seq(Bytes)
    BY Counts, Nodes DEF Types, HeapOK
  <2>4. PICK r \in 0..255 : r = Raised(heap[n]) /\ r >= heap[n].maxParams /\ r >= wildcard
    BY <2>3, RaisedIs
  <2>5. /\ heap[n].nType = "param" => heap[n].maxParams >= wildcard + 1
        /\ Wilds(path) <= wildcard + Binds(heap[n])
    BY <2>1, <1>1 DEF Fits, Climbs
  <2>6. n # 1 => heap'[n].maxParams >= wildcard + Binds(heap'[n])
    <3>1. SUFFICES ASSUME n # 1 PROVE heap'[n].maxParams >= wildcard + Binds(heap'[n])
      OBVIOUS
    <3>2. CASE heap[n].nType = "param"
      <4>1. Binds(heap'[n]) = 1
        BY <3>1, <3>2, <2>2 DEF Binds
      <4>2. heap[n].maxParams >= wildcard + 1 /\ heap'[n].maxParams = r
        BY <3>2, <2>2, <2>4, <2>5
      <4>3. \A x, y, z \in Int : x >= y /\ y >= z => x >= z
        OBVIOUS
      <4>4. r \in Int /\ heap[n].maxParams \in Int /\ wildcard + 1 \in Int
        <5>1. \A x \in 0..255 : x \in Int /\ x + 1 \in Int
          OBVIOUS
        <5>2. QED
          BY <5>1, <2>3, <2>4
      <4>5. r >= wildcard + 1
        BY <4>2, <4>3, <4>4, <2>4
      <4>6. QED
        BY <4>1, <4>2, <4>5
    <3>3. CASE heap[n].nType # "param"
      <4>1. Binds(heap'[n]) = 0
        BY <3>1, <3>3, <2>2 DEF Binds
      <4>2. heap'[n].maxParams = r /\ wildcard + 0 = wildcard
        BY <2>2, <2>3, <2>4
      <4>3. QED
        BY <4>1, <4>2, <2>4
    <3>4. QED
      BY <3>2, <3>3
  <2>7. PICK i \in 0..Len(path) : i = Common /\ path' = Drop(path, i)
    BY WalkIs
  <2>8. Wilds(path') <= wildcard
    <3>1. /\ Wilds(path) \in Nat /\ Wilds(path') \in Nat /\ Wilds(path') <= Wilds(path)
          /\ \A j \in 1..i : IsWild(path[j]) => Wilds(path') + 1 <= Wilds(path)
      BY <2>3, <2>7, WildsIs, WildsCut, Cut
    <3>2. CASE heap[n].nType = "param"
      <4>1. i = Len(heap[n].path) /\ IsPrefix(heap[n].path, path) /\ heap[n].path # <<>>
        BY <3>2, <2>3, <2>7, <1>1, <1>3, WalkWhole DEF Stands, Unnamed
      <4>2. IsWild(heap[n].path[1])
        BY <4>1, <3>2, <2>3, <1>1 DEF Forest
      <4>3. 1 \in 1..i /\ heap[n].path = SubSeq(path, 1, i)
        <5>1. Len(heap[n].path) \in Nat /\ Len(heap[n].path) # 0
          BY <4>1, <2>3, LenProperties, EmptySeq
        <5>2. heap[n].path = SubSeq(path, 1, Len(heap[n].path))
          BY <4>1, <2>3, PrefixIs
        <5>3. QED
          BY <5>1, <5>2, <4>1
      <4>4. path[1] = heap[n].path[1]
        BY <4>3, <2>3, Cut
      <4>5. Wilds(path') + 1 <= Wilds(path)
        BY <4>2, <4>3, <4>4, <3>1
      <4>6. Binds(heap[n]) = 1
        BY <3>2 DEF Binds
      <4>7. Wilds(path) <= wildcard + 1
        BY <4>6, <2>5
      <4>8. \A x, y, z \in Int : x + 1 <= y /\ y <= z + 1 => x <= z
        OBVIOUS
      <4>9. Wilds(path') \in Int /\ Wilds(path) \in Int /\ wildcard \in Int
        BY <3>1, <2>3
      <4>10. QED
        BY <4>5, <4>7, <4>8, <4>9
    <3>3. CASE heap[n].nType # "param"
      <4>1. Binds(heap[n]) = 0
        BY <3>3 DEF Binds
      <4>2. QED
        BY <4>1, <3>1, <2>3, <2>5
    <3>4. QED
      BY <3>2, <3>3
  <2>9. pc' \in {"panic", "descend"}
    BY WalkIs
  <2>10. ASSUME pc' = "descend" PROVE Fits'
    BY <2>2, <2>6, <2>8, <2>10, <1>1 DEF Fits, Climbs, Spares
  <2>11. QED
    BY <2>9, <2>10 DEF Fitting
<1>4. QED
  BY <1>2, <1>3

\* The node above a child is the only one.
LEMMA AboveChild ==
    ASSUME Types, Forest(heap), NEW c, Hangs(heap, n, c), NEW w,
           n # 1 => heap[n].maxParams >= w + Binds(heap[n])
    PROVE  Above(heap, c, w)
<1>1. HeapOK(heap) /\ n \in DOMAIN heap /\ c \in DOMAIN heap
  BY HangsIs DEF Types
<1>2. \A q \in DOMAIN heap : Hangs(heap, q, c) => q = n
  BY <1>1 DEF Forest
<1>3. QED
  BY <1>2 DEF Above

\* Raising nodes gives no less room.
LEMMA AboveAlike ==
    ASSUME NEW h, HeapOK(h), Forest(h), NEW g, HeapOK(g), Alike(h, g),
           \A q \in DOMAIN h : g[q].maxParams >= h[q].maxParams,
           NEW x, NEW w \in Int, Above(h, x, w)
    PROVE  Above(g, x, w)
<1> SUFFICES ASSUME NEW q \in DOMAIN g, Hangs(g, q, x), q # 1
             PROVE  g[q].maxParams >= w + Binds(g[q])
  BY DEF Above
<1>1. q \in DOMAIN h /\ Hangs(h, q, x) /\ g[q].nType = h[q].nType
  BY ForestAlike DEF Alike
<1>2. h[q].maxParams >= w + Binds(h[q]) /\ g[q].maxParams >= h[q].maxParams
  BY <1>1 DEF Above
<1>3. Binds(g[q]) = Binds(h[q])
  BY <1>1 DEF Binds
<1>4. h[q].maxParams \in Int /\ Binds(h[q]) \in Int
  BY <1>1, Counts
<1>5. g[q].maxParams \in Int
  BY Counts
<1>6. QED
  BY <1>2, <1>3, <1>4, <1>5

\* What a step down the tree leaves to be shown.
LEMMA DescendsFits ==
    ASSUME Types, Types', Grafted, Fitting, pc = "descend", pc' \in {"walk", "panic"},
           Alike(heap, heap'), NEW c, Hangs(heap, n, c), n' = c,
           \A q \in DOMAIN heap : q # c => heap'[q].maxParams = heap[q].maxParams,
           heap'[c].maxParams >= heap[c].maxParams,
           ~Unnamed(heap) /\ n # 1 =>
              heap[n].maxParams >= heap'[c].maxParams + Binds(heap[n]),
           ~Unnamed(heap) /\ pc' = "walk" =>
              /\ n # 1 => heap[n].maxParams >= wildcard' + Binds(heap[n])
              /\ heap'[c].nType = "param" => heap'[c].maxParams >= wildcard' + 1
              /\ Wilds(path') <= wildcard' + Binds(heap'[c])
    PROVE  Fitting'
<1>1. /\ HeapOK(heap) /\ HeapOK(heap') /\ Forest(heap) /\ n \in DOMAIN heap
      /\ c \in DOMAIN heap /\ wildcard' \in Int
  BY HangsIs DEF Types, Grafted
<1>2. CASE Unnamed(heap)
  BY <1>1, <1>2, UnnamedAlike DEF Fitting
<1>3. CASE ~Unnamed(heap)
  <2>1. Roomy(heap)
    BY <1>3 DEF Fitting, Fits
  <2>2. Above(heap, c, heap'[c].maxParams)
    BY <1>1, <1>3, AboveChild
  <2>3. PICK g : g = heap'
    OBVIOUS
  <2>4. /\ HeapOK(g) /\ Alike(heap, g) /\ Above(heap, c, g[c].maxParams)
        /\ \A q \in DOMAIN heap : q # c => g[q].maxParams = heap[q].maxParams
        /\ g[c].maxParams >= heap[c].maxParams
    BY <2>2, <2>3, <1>1
  <2>5. Roomy(g)
    BY <2>1, <2>4, <1>1, RoomyRaised
  <2>6. ASSUME pc' = "walk" PROVE Fits'
    <3>1. Above(heap, c, wildcard')
      BY <1>1, <1>3, <2>6, AboveChild
    <3>2. PICK w \in Int : w = wildcard'
      BY <1>1
    <3>3. \A q \in DOMAIN heap : g[q].maxParams >= heap[q].maxParams
      <4>1. \A q \in DOMAIN heap : heap[q].maxParams \in Int
        BY <1>1, Counts
      <4>2. \A x \in Int : x >= x
        OBVIOUS
      <4>3. QED
        BY <4>1, <4>2, <2>4
    <3>4. Above(g, c, w)
      BY <3>1, <3>2, <3>3, <2>4, <1>1, AboveAlike
    <3>5. QED
      BY <3>2, <3>4, <2>3, <2>5, <2>6, <1>3 DEF Fits, Climbs, Spares
  <2>7. QED
    BY <2>6 DEF Fitting
<1>4. QED
  BY <1>2, <1>3

\* DescendWild keeps the room: the wildcard it takes off is the child's.
LEMMA DescendWildFits ==
    ASSUME Types, Types', Grafted, Fitting, DescendWild
    PROVE  Fitting'
<1>1. PICK c : c = heap[n].children[1]
  OBVIOUS
<1>2. /\ c \in DOMAIN heap /\ Len(heap[n].children) = 1 /\ n \in DOMAIN heap
      /\ heap[c].nType \in {"param", "catchAll"} /\ HeapOK(heap)
      /\ Raised(heap[c]) \in 0..255
      /\ heap' = [heap EXCEPT ![c].priority = @ + 1, ![c].maxParams = Raised(heap[c])]
      /\ Alike(heap, heap')
  BY <1>1, DescendWildIs, DescendWildGrafted DEF Types
<1>3. /\ pc = "descend" /\ n' = c /\ path' = path /\ wildcard' = uint8(wildcard - 1)
      /\ pc' = IF WildMatches(heap[c]) THEN "walk" ELSE "panic"
      /\ Forest(heap)
  BY <1>1 DEF DescendWild, Grafted
<1>4. Hangs(heap, n, c)
  <2>1. 1 \in DOMAIN heap[n].children
    BY <1>2, ChildInside
  <2>2. QED
    BY <2>1, <1>1, <1>2 DEF Hangs
<1>5. PICK r \in 0..255 : r = Raised(heap[c])
  BY <1>2
<1>6. PICK g : g = [heap EXCEPT ![c].priority = @ + 1, ![c].maxParams = r]
  OBVIOUS
<1>7. /\ g[c].maxParams = r /\ g = heap'
      /\ \A q \in DOMAIN heap : q # c => g[q].maxParams = heap[q].maxParams
  <2>1. g = heap'
    BY <1>2, <1>5, <1>6
  <2>2. Passed(heap, c, r, g)
    BY <1>2, <1>6, PassedAlike, ZenonT(30)
  <2>3. QED
    BY <2>1, <2>2 DEF Passed
<1>8. /\ heap[c].maxParams \in 0..255 /\ heap[n].maxParams \in 0..255
      /\ Binds(heap[n]) \in {0, 1}
  BY <1>2, Counts
<1>9. wildcard \in 0..255 /\ path \in Seq(Bytes)
  BY DEF Types
<1>10. r >= heap[c].maxParams /\ r >= wildcard /\ r \in {heap[c].maxParams, wildcard}
  BY <1>5, <1>8, <1>9, RaisedIs
<1>11. ASSUME ~Unnamed(heap), n # 1
       PROVE  /\ heap[n].maxParams >= r + Binds(heap[n])
              /\ heap[n].maxParams >= wildcard + Binds(heap[n])
  <2>1. heap[n].maxParams >= wildcard + Binds(heap[n])
    BY <1>3, <1>11 DEF Fitting, Fits, Climbs
  <2>2. heap[n].maxParams >= heap[c].maxParams + Binds(heap[n])
    BY <1>2, <1>3, <1>4, <1>11 DEF Fitting, Fits, Roomy
  <2>3. QED
    BY <2>1, <2>2, <1>10
<1>12. ASSUME ~Unnamed(heap), pc' = "walk"
       PROVE  /\ n # 1 => heap[n].maxParams >= wildcard' + Binds(heap[n])
              /\ heap'[c].nType = "param" => r >= wildcard' + 1
              /\ Wilds(path') <= wildcard' + Binds(heap'[c])
  <2>1. Wilds(path) <= wildcard
    BY <1>3, <1>12 DEF Fitting, Fits, Climbs
  <2>2. IsPrefix(heap[c].path, path) /\ heap[c].nType = "param"
    BY <1>2, <1>3, <1>12 DEF WildMatches
  <2>3. heap[c].path # <<>> /\ heap[c].path \in Seq(Bytes)
    BY <1>2, <1>12, <2>2, Nodes DEF Unnamed, HeapOK
  <2>4. IsWild(heap[c].path[1])
    BY <2>2, <2>3, <1>2, <1>3 DEF Forest
  <2>5. 1 \in DOMAIN path /\ IsWild(path[1])
    <3>1. PICK l : l = Len(heap[c].path)
      OBVIOUS
    <3>2. l \in Nat /\ l # 0 /\ Len(path) \in Nat /\ DOMAIN path = 1..Len(path)
      BY <3>1, <2>3, <1>9, LenProperties, EmptySeq
    <3>3. l <= Len(path) /\ heap[c].path = SubSeq(path, 1, l)
      BY <3>1, <2>2, <2>3, <1>9, PrefixIs
    <3>4. l \in 0..Len(path) /\ 1 \in 1..l /\ 1 \in 1..Len(path)
      BY <3>2, <3>3
    <3>5. SubSeq(path, 1, l)[1] = path[1]
      BY <3>4, <1>9, Cut
    <3>6. QED
      BY <3>2, <3>3, <3>4, <3>5, <2>4
  <2>6. Wilds(path) \in Nat /\ Wilds(path) # 0
    BY <2>5, <1>9, WildsIs
  <2>7. PICK w, o \in Int : w = wildcard /\ o = Wilds(path) /\ w \in 0..255 /\ o \in Nat
                            /\ o # 0 /\ o <= w
    BY <2>1, <2>6, <1>9
  <2>8. uint8(w - 1) = w - 1
    BY <2>7 DEF uint8
  <2>9. Binds(heap'[c]) = 1
    <3>1. heap'[c].nType = "param"
      BY <2>2, <1>2, <1>3 DEF Alike, Forest
    <3>2. QED
      BY <3>1 DEF Binds
  <2>10. wildcard' = w - 1 /\ wildcard' + 1 = w
    BY <2>7, <2>8, <1>3
  <2>11. n # 1 => heap[n].maxParams >= wildcard' + Binds(heap[n])
    <3>1. \A x, y, z \in Int : x >= y + z => x >= y - 1 + z
      OBVIOUS
    <3>2. heap[n].maxParams \in Int /\ Binds(heap[n]) \in Int
      BY <1>2, Counts
    <3>3. n # 1 => heap[n].maxParams >= w + Binds(heap[n])
      BY <1>11, <1>12, <2>7
    <3>4. QED
      BY <3>1, <3>2, <3>3, <2>7, <2>10
  <2>12. QED
    BY <2>7, <2>9, <2>10, <2>11, <1>3, <1>10
<1>13. QED
  BY <1>2, <1>3, <1>4, <1>7, <1>10, <1>11, <1>12, DescendsFits

\* DescendSlash and DescendIndex keep the room: the child has no wildcard.
LEMMA DescendPlainFits ==
    ASSUME Types, Types', Grafted, Fitting, DescendSlash \/ DescendIndex
    PROVE  Fitting'
<1>1. CASE pc' = "panic"
  BY <1>1 DEF Fitting
<1>2. CASE pc' # "panic"
  <2>1. PICK c : c = n'
    OBVIOUS
  <2>2. /\ Alike(heap, heap') /\ Hangs(heap, n, c) /\ pc = "descend" /\ pc' = "walk"
        /\ ~heap[n].wildChild /\ UNCHANGED <<path, wildcard>>
        /\ \A q \in DOMAIN heap : heap'[q].maxParams = heap[q].maxParams
    <3>1. CASE DescendSlash
      <4>1. PICK w : w = heap[c].maxParams
        OBVIOUS
      <4>2. /\ c \in DOMAIN heap /\ w \in 0..255 /\ c = heap[n].children[1]
            /\ heap' = [heap EXCEPT ![c].priority = @ + 1, ![c].maxParams = w]
            /\ Len(heap[n].children) = 1
        BY <2>1, <3>1, <4>1, DescendSlashIs
      <4>3. Passed(heap, c, w, heap')
        BY <4>2, PassedAlike, ZenonT(30)
      <4>4. 1 \in DOMAIN heap[n].children /\ n \in DOMAIN heap
        BY <4>2, ChildInside DEF Types
      <4>5. Hangs(heap, n, c)
        BY <4>2, <4>4 DEF Hangs
      <4>6. QED
        BY <3>1, <4>1, <4>3, <4>5 DEF DescendSlash, AtByte, Passed
    <3>2. CASE DescendIndex
      <4>1. ~heap[n].wildChild
        BY <3>2, DescendIndexIs
      <4>2. QED
        BY <2>1, <3>2, <4>1, <1>2, DescendIndexGrafted
    <3>3. QED
      BY <3>1, <3>2
  <2>3. /\ c \in DOMAIN heap /\ heap'[c].nType # "param" /\ HeapOK(heap)
        /\ n \in DOMAIN heap
    <3>1. c \in DOMAIN heap /\ heap'[c].nType \in {"static", "catchAll"}
      BY <2>2, PlainChild
    <3>2. QED
      BY <3>1 DEF Types
  <2>4. /\ heap[c].maxParams \in Int /\ heap[n].maxParams \in Int
        /\ heap'[c].maxParams = heap[c].maxParams /\ Binds(heap'[c]) = 0
        /\ wildcard \in Int
    <3>1. Binds(heap'[c]) = 0
      BY <2>3 DEF Binds
    <3>2. QED
      BY <3>1, <2>2, <2>3, Counts DEF Types
  <2>5. ASSUME ~Unnamed(heap)
        PROVE  /\ n # 1 => heap[n].maxParams >= heap[c].maxParams + Binds(heap[n])
               /\ n # 1 => heap[n].maxParams >= wildcard + Binds(heap[n])
               /\ Wilds(path) <= wildcard
    BY <2>2, <2>3, <2>5 DEF Fitting, Fits, Climbs, Roomy
  <2>6. wildcard' + Binds(heap'[c]) = wildcard /\ heap'[c].maxParams >= heap[c].maxParams
    BY <2>2, <2>4
  <2>7. QED
    BY <2>1, <2>2, <2>3, <2>4, <2>5, <2>6, DescendsFits
<1>3. QED
  BY <1>1, <1>2

\* The heap AddChild makes has room.
LEMMA AddedRoomy ==
    ASSUME Types, Forest(heap), Fits, pc = "descend", ~heap[n].wildChild, path # <<>>
    PROVE  Roomy(Added)
<1>1. PICK g : g = Added
  OBVIOUS
<1>2. PICK new : new = Len(heap) + 1
  OBVIOUS
<1>3. /\ Grows(heap, n, g) /\ Touched(heap, n, g) = {n, new} /\ HeapOK(g)
      /\ g[n] = Parent /\ g[new] = Newborn /\ new \notin DOMAIN heap
      /\ \A q \in DOMAIN heap : q # n => g[q] = heap[q]
      /\ \A c : Hangs(g, n, c) => c = new \/ Hangs(heap, n, c)
      /\ \A c : ~Hangs(g, new, c)
  BY <1>1, <1>2, AddedGrows
<1>4. /\ HeapOK(heap) /\ n \in DOMAIN heap /\ Roomy(heap)
      /\ n # 1 => heap[n].maxParams >= wildcard + Binds(heap[n])
  BY DEF Types, Fits, Climbs
<1>5. /\ g[n].maxParams = heap[n].maxParams /\ g[n].nType = heap[n].nType
      /\ g[new].maxParams = wildcard /\ g[new].nType = "static"
  BY <1>3, AddedIs
<1>6. Binds(g[n]) = Binds(heap[n])
  BY <1>5 DEF Binds
<1>7. heap[n].maxParams \in Int
  BY <1>4, Counts
<1>8. ASSUME NEW c \in DOMAIN g, Hangs(g, n, c), n # 1
      PROVE  g[n].maxParams >= g[c].maxParams + Binds(g[n])
  <2>1. CASE c = new
    BY <2>1, <1>4, <1>5, <1>6, <1>8
  <2>2. CASE Hangs(heap, n, c)
    <3>1. c \in DOMAIN heap
      BY <2>2, <1>4, HangsIs
    <3>2. g[c].maxParams = heap[c].maxParams
      BY <3>1, <1>3, <1>5
    <3>3. heap[n].maxParams >= heap[c].maxParams + Binds(heap[n])
      BY <3>1, <2>2, <1>4, <1>8 DEF Roomy
    <3>4. QED
      BY <3>2, <3>3, <1>5, <1>6
  <2>3. QED
    BY <2>1, <2>2, <1>3, <1>8
<1>9. g[n].maxParams >= heap[n].maxParams /\ Above(heap, n, g[n].maxParams)
  <2>1. PICK w \in Int : w = heap[n].maxParams /\ w >= w
    BY <1>7
  <2>2. Above(heap, n, w)
    BY <2>1, <1>4, AboveOwn
  <2>3. QED
    BY <2>1, <2>2, <1>5
<1>10. \A q \in DOMAIN g \ DOMAIN heap :
          g[q].nType \in {"param", "catchAll"} => g[q].maxParams >= 1
  BY <1>3, <1>4, <1>5 DEF Touched
<1>11. \A q \in Touched(heap, n, g) : \A c \in DOMAIN g :
          Hangs(g, q, c) /\ q # 1 => g[q].maxParams >= g[c].maxParams + Binds(g[q])
  BY <1>3, <1>8
<1>12. Roomy(g)
  BY <1>3, <1>4, <1>9, <1>10, <1>11, RoomyGrown
<1>13. QED
  BY <1>1, <1>12

\* AddChild gives the new node room for the wildcards left.
LEMMA AddChildFits ==
    ASSUME Types, Types', Grafted, Fitting, AddChild
    PROVE  Fitting'
<1>1. CASE pc' = "panic"
  BY <1>1 DEF Fitting
<1>2. CASE pc' # "panic"
  <2>1. /\ Grafted' /\ pc = "descend" /\ pc' = "insert"
        /\ ~heap[n].wildChild /\ path # <<>>
        /\ UNCHANGED <<path, wildcard>>
        /\ \/ heap' = heap /\ n' = n
           \/ /\ Alike(Added, heap') /\ n' = Len(heap) + 1
              /\ \A q \in DOMAIN Added : heap'[q].maxParams = Added[q].maxParams
    BY <1>2, AddChildGrafted
  <2>2. Forest(heap) /\ HeapOK(heap) /\ HeapOK(heap') /\ wildcard \in 0..255
    BY <2>1 DEF Grafted, Types
  <2>3. CASE heap' = heap /\ n' = n
    BY <2>1, <2>3 DEF Fitting, Fits, Climbs, Spares
  <2>4. CASE /\ Alike(Added, heap') /\ n' = Len(heap) + 1
             /\ \A q \in DOMAIN Added : heap'[q].maxParams = Added[q].maxParams
    <3>1. Forest(Added)
      BY <2>1, <2>2, AddedForest
    <3>2. CASE Unnamed(heap)
      <4>1. Grows(heap, n, Added) /\ Added[n].path = heap[n].path /\ n \in DOMAIN heap
        BY <2>1, AddedGrows, AddedIs DEF Types
      <4>2. Unnamed(Added)
        BY <4>1, <3>2, UnnamedGrown
      <4>3. QED
        BY <4>2, <3>1, <2>4, UnnamedAlike DEF Fitting
    <3>3. CASE ~Unnamed(heap)
      <4>1. Fits
        BY <3>3, <2>1 DEF Fitting
      <4>2. Roomy(Added)
        BY <4>1, <2>1, <2>2, AddedRoomy
      <4>3. HeapOK(Added)
        BY <2>1, AddedGrows
      <4>4. PICK g : g = heap'
        OBVIOUS
      <4>5. Roomy(g)
        BY <4>2, <4>3, <4>4, <3>1, <2>2, <2>4, RoomyAlike
      <4>6. PICK new : new = Len(heap) + 1
        OBVIOUS
      <4>7. new \in DOMAIN Added /\ Added[new] = Newborn
        <5>1. Len(heap) \in Nat
          BY <2>2, Nodes DEF HeapOK
        <5>2. DOMAIN Added = 1..new /\ Added[new] = Newborn
          BY <4>6, <2>1, AddedGrows
        <5>3. QED
          BY <5>1, <5>2, <4>6
      <4>8. Newborn.maxParams = wildcard /\ Newborn.nType = "static"
        BY <2>1, AddedIs
      <4>9. g[new].maxParams = wildcard /\ g[new].nType # "param"
        BY <4>4, <4>7, <4>8, <2>4 DEF Alike
      <4>10. g[new].maxParams >= wildcard + Binds(g[new])
        <5>1. Binds(g[new]) = 0
          BY <4>9 DEF Binds
        <5>2. QED
          BY <5>1, <4>9, <2>2
      <4>11. Wilds(path) <= wildcard
        BY <4>1, <2>1 DEF Fits, Climbs
      <4>12. Fits'
        BY <4>4, <4>5, <4>6, <4>10, <4>11, <2>1, <2>4 DEF Fits, Climbs, Spares
      <4>13. QED
        BY <4>12 DEF Fitting
    <3>4. QED
      BY <3>2, <3>3
  <2>5. QED
    BY <2>1, <2>3, <2>4
<1>3. QED
  BY <1>1, <1>2

\* No route has more wildcards than the byte that counts them holds.
FewWildcards == \A p \in Routes : Wilds(p) <= 255

\* The beginning of addRoute.
LEMMA InsertFits ==
    ASSUME FewWildcards, Types, Types', Grafted, Fitting, NEW p \in Routes, Insert(p)
    PROVE  Fitting'
<1>1. /\ Forest(heap) /\ HeapOK(heap) /\ HeapOK(heap') /\ Alike(heap, heap')
      /\ \A q \in DOMAIN heap : heap'[q].maxParams = heap[q].maxParams
      /\ pc = "register" /\ pc' \in {"walk", "insert"}
      /\ n' = 1 /\ path' = p /\ wildcard' = wildcardNum(p)
  BY InsertIs DEF Insert, Grafted, Types
<1>2. CASE Unnamed(heap)
  BY <1>1, <1>2, UnnamedAlike DEF Fitting
<1>3. CASE ~Unnamed(heap)
  <2>1. PICK g : g = heap'
    OBVIOUS
  <2>2. Roomy(heap)
    BY <1>1, <1>3 DEF Fitting, Fits
  <2>3. Roomy(g)
    BY <2>1, <2>2, <1>1, RoomyAlike
  <2>4. Above(g, 1, wildcard')
    <3>1. \A q : ~Hangs(g, q, 1)
      BY <2>1, <1>1, HangsIs
    <3>2. QED
      BY <3>1 DEF Above
  <2>5. g[1].nType # "param"
    <3>1. Forest(heap')
      BY <1>1, ForestAlike
    <3>2. QED
      BY <3>1, <2>1 DEF Forest
  <2>6. Wilds(p) <= wildcardNum(p) + Binds(g[1]) /\ Wilds(p) <= wildcardNum(p)
    <3>1. p \in Seq(Bytes)
      BY RoutesAreBytes
    <3>2. wildcardNum(p) = Wilds(p) /\ Wilds(p) \in Nat
      BY <3>1, WildsIs DEF FewWildcards
    <3>3. Binds(g[1]) = 0
      BY <2>5 DEF Binds
    <3>4. QED
      BY <3>2, <3>3
  <2>7. Fits'
    BY <2>1, <2>3, <2>4, <2>5, <2>6, <1>1 DEF Fits, Climbs, Spares
  <2>8. QED
    BY <2>7 DEF Fitting
<1>4. QED
  BY <1>2, <1>3

\* InsertLeaf changes no number.
LEMMA InsertLeafFits ==
    ASSUME Types, Types', Grafted, Fitting, InsertLeaf
    PROVE  Fitting'
<1>1. /\ HeapOK(heap) /\ HeapOK(heap') /\ n \in DOMAIN heap /\ pc' = "register"
      /\ pc = "insert"
      /\ heap' = [heap EXCEPT ![n] = Refilled(heap[n], path, arg)]
      /\ path \in Seq(Bytes) /\ arg \in Seq(Bytes)
      /\ heap[n].nType \in {"static", "root"}
  BY InsertLeafIs DEF Types, Grafted, Stands
<1>2. PICK g : g = heap'
  OBVIOUS
<1>3. /\ DOMAIN g = DOMAIN heap
      /\ \A q \in DOMAIN heap : q # n => g[q] = heap[q]
      /\ \A q \in DOMAIN heap : /\ g[q].children = heap[q].children
                                /\ g[q].nType = heap[q].nType
                                /\ g[q].maxParams = heap[q].maxParams
  BY <1>1, <1>2, RefilledNode
<1>4. CASE Unnamed(heap)
  <2>1. PICK q \in DOMAIN heap : heap[q].nType = "param" /\ heap[q].path = <<>>
    BY <1>4 DEF Unnamed
  <2>2. g[q] = heap[q]
    BY <2>1, <1>1, <1>3
  <2>3. QED
    BY <2>1, <2>2, <1>2, <1>3 DEF Unnamed, Fitting
<1>5. CASE ~Unnamed(heap)
  <2>1. \A q, c : Hangs(g, q, c) <=> Hangs(heap, q, c)
    BY <1>3 DEF Hangs
  <2>2. Roomy(heap)
    BY <1>1, <1>5 DEF Fitting, Fits
  <2>3. Roomy(g)
    BY <2>1, <2>2, <1>3 DEF Roomy, Binds
  <2>4. QED
    BY <2>3, <1>1, <1>2 DEF Fitting, Fits, Climbs, Spares
<1>6. QED
  BY <1>4, <1>5

\* InsertParam: the name's node has room for its value and the rest's.
LEMMA InsertParamFits ==
    ASSUME Types, Types', Grafted, Fitting, InsertParam
    PROVE  Fitting'
<1>1. /\ HeapOK(heap) /\ HeapOK(heap') /\ n \in DOMAIN heap /\ pc' = "scan"
      /\ heap[n].nType \in {"static", "root"}
      /\ WildAt # 0 /\ wildcard > 0 /\ wildcard \in 0..255 /\ wildcard' = wildcard - 1
      /\ path' = Drop(path, NameEnd - 1) /\ path \in Seq(Bytes)
      /\ pc \in {"insert", "scan"}
  BY InsertParamIs, OnLiteral DEF Types, AtWild
<1>2. PICK a, b, g : a = Len(heap) + 1 /\ b = Len(heap) + 2 /\ g = heap'
  OBVIOUS
<1>3. /\ Grows(heap, n, g) /\ Touched(heap, n, g) \subseteq {n, a, b}
      /\ a \notin DOMAIN heap /\ b \notin DOMAIN heap /\ g[n] = Bent
      /\ \A c : Hangs(g, n, c) => c = a
      /\ \A c : Hangs(g, a, c) => c = b
      /\ \A c : ~Hangs(g, b, c)
      /\ \/ NameEnd > Len(path) /\ n' = a /\ g[a] = ParamNode /\ b \notin DOMAIN g
         \/ NameEnd <= Len(path) /\ n' = b /\ g[a] = NamedNode /\ g[b] = RestNode
  BY <1>2, InsertParamGrows
<1>4. /\ ParamNode.nType = "param" /\ NamedNode.nType = "param"
      /\ RestNode.nType = "static" /\ ParamNode.path = <<>>
      /\ ParamNode.maxParams = wildcard /\ NamedNode.maxParams = wildcard
      /\ RestNode.maxParams = wildcard - 1
      /\ Bent.nType = heap[n].nType /\ Bent.maxParams = heap[n].maxParams
  BY <1>1, ParamNodesAre, BentIs
<1>5. CASE Unnamed(heap)
  <2>1. Unnamed(g)
    BY <1>1, <1>3, <1>5, UnnamedGrown
  <2>2. QED
    BY <2>1, <1>2 DEF Fitting
<1>6. CASE NameEnd > Len(path) /\ g[a] = ParamNode /\ n' = a
  <2>1. a \in DOMAIN g
    BY <1>2, <1>6 DEF Types
  <2>2. Unnamed(g)
    BY <2>1, <1>4, <1>6 DEF Unnamed
  <2>3. QED
    BY <2>2, <1>2 DEF Fitting
<1>7. CASE ~Unnamed(heap) /\ n' = b /\ g[a] = NamedNode /\ g[b] = RestNode
  <2>1. Fits
    BY <1>1, <1>7 DEF Fitting
  <2>2. /\ Roomy(heap) /\ Wilds(path) <= wildcard
        /\ n # 1 => heap[n].maxParams >= wildcard + Binds(heap[n])
    BY <2>1, <1>1 DEF Fits, Climbs
  <2>3. Binds(heap[n]) = 0 /\ Binds(g[n]) = 0 /\ Binds(g[a]) = 1 /\ Binds(g[b]) = 0
    BY <1>1, <1>3, <1>4, <1>7 DEF Binds
  <2>4. heap[n].maxParams \in Int
    BY <1>1, Counts
  <2>5. n # 1 => g[n].maxParams >= g[a].maxParams + Binds(g[n])
    BY <2>2, <2>3, <1>3, <1>4, <1>7
  <2>6. g[a].maxParams >= g[b].maxParams + Binds(g[a]) /\ g[a].maxParams >= 1
    <3>1. \A x \in 0..255 : x > 0 => x >= (x - 1) + 1 /\ x >= 1
      OBVIOUS
    <3>2. wildcard >= (wildcard - 1) + 1 /\ wildcard >= 1
      BY <3>1, <1>1
    <3>3. g[a].maxParams = wildcard /\ g[b].maxParams = wildcard - 1
      BY <1>4, <1>7
    <3>4. QED
      BY <3>2, <3>3, <2>3
  <2>7. \A q \in Touched(heap, n, g) : \A c \in DOMAIN g :
           Hangs(g, q, c) /\ q # 1 => g[q].maxParams >= g[c].maxParams + Binds(g[q])
    BY <2>5, <2>6, <1>3
  <2>8. \A q \in DOMAIN g \ DOMAIN heap :
           g[q].nType \in {"param", "catchAll"} => g[q].maxParams >= 1
    <3>1. \A q \in DOMAIN g \ DOMAIN heap : q = a \/ q = b
      BY <1>1, <1>3 DEF Touched
    <3>2. QED
      BY <3>1, <2>6, <1>4, <1>7
  <2>9. g[n].maxParams >= heap[n].maxParams /\ Above(heap, n, g[n].maxParams)
    <3>1. PICK w \in Int : w = heap[n].maxParams /\ w >= w
      BY <2>4
    <3>2. Above(heap, n, w)
      BY <3>1, <2>2, <1>1, AboveOwn
    <3>3. QED
      BY <3>1, <3>2, <1>3, <1>4
  <2>10. HeapOK(g)
    BY <1>1, <1>2
  <2>11. Roomy(g)
    BY <2>2, <2>7, <2>8, <2>9, <2>10, <1>1, <1>3, RoomyGrown
  <2>12. Wilds(path') <= wildcard'
    <3>1. PICK f, e : f = WildAt /\ e = NameEnd
      OBVIOUS
    <3>2. f \in 1..Len(path) /\ e \in (f + 1)..(Len(path) + 1) /\ IsWild(path[f])
      BY <3>1, <1>1, WildAtIs, LenProperties
    <3>3. Len(path) \in Nat
      BY <1>1, LenProperties
    <3>4. e - 1 \in 0..Len(path) /\ f \in 1..(e - 1)
      BY <3>2, <3>3
    <3>5. Wilds(Drop(path, e - 1)) + 1 <= Wilds(path)
      BY <3>2, <3>4, <1>1, WildsCut
    <3>6. Wilds(Drop(path, e - 1)) \in Int /\ Wilds(path) \in Int
      <4>1. Drop(path, e - 1) \in Seq(Bytes)
        BY <3>4, <1>1, Cut
      <4>2. Wilds(Drop(path, e - 1)) \in Nat /\ Wilds(path) \in Nat
        BY <4>1, <1>1, WildsIs
      <4>3. QED
        BY <4>2
    <3>7. \A x, y, z \in Int : x + 1 <= y /\ y <= z => x <= z - 1
      OBVIOUS
    <3>8. Wilds(Drop(path, e - 1)) <= wildcard - 1
      BY <3>5, <3>6, <3>7, <2>2, <1>1
    <3>9. QED
      BY <3>1, <3>8, <1>1
  <2>13. g[b].maxParams >= wildcard' + Binds(g[b])
    BY <2>3, <1>1, <1>4, <1>7
  <2>14. Fits'
    BY <2>11, <2>12, <2>13, <1>1, <1>2, <1>7 DEF Fits, Climbs, Spares
  <2>15. QED
    BY <2>14 DEF Fitting
<1>8. QED
  BY <1>3, <1>5, <1>6, <1>7

\* InsertCatchAll: its two nodes, and n above them, have room for its value.
LEMMA InsertCatchAllFits ==
    ASSUME Types, Types', Grafted, Fitting, InsertCatchAll
    PROVE  Fitting'
<1>1. /\ HeapOK(heap) /\ HeapOK(heap') /\ n \in DOMAIN heap /\ pc' = "register"
      /\ heap[n].nType \in {"static", "root"} /\ wildcard = 1
      /\ pc \in {"insert", "scan"}
  BY InsertCatchAllIs, InsertCatchAllGrafted DEF Types, AtWild
<1>2. PICK a, b, g : a = Len(heap) + 1 /\ b = Len(heap) + 2 /\ g = heap'
  OBVIOUS
<1>3. /\ Grows(heap, n, g) /\ Touched(heap, n, g) \subseteq {n, a, b}
      /\ a \notin DOMAIN heap /\ b \notin DOMAIN heap
      /\ \A c : Hangs(g, n, c) => c = a
      /\ \A c : Hangs(g, a, c) => c = b
      /\ \A c : ~Hangs(g, b, c)
  BY <1>2, InsertCatchAllGrows
<1>4. /\ g[a].nType = "catchAll" /\ g[b].nType = "catchAll"
      /\ g[a].maxParams = 1 /\ g[b].maxParams = 1
      /\ g[n].nType = heap[n].nType /\ g[n].maxParams = Max({heap[n].maxParams, 1})
  BY <1>2, InsertCatchAllIs
<1>5. CASE Unnamed(heap)
  <2>1. Unnamed(g)
    BY <1>1, <1>3, <1>5, UnnamedGrown
  <2>2. QED
    BY <2>1, <1>2 DEF Fitting
<1>6. CASE ~Unnamed(heap)
  <2>1. /\ Roomy(heap)
        /\ n # 1 => heap[n].maxParams >= wildcard + Binds(heap[n])
    BY <1>1, <1>6 DEF Fitting, Fits, Climbs
  <2>2. Binds(heap[n]) = 0 /\ Binds(g[n]) = 0 /\ Binds(g[a]) = 0
    BY <1>1, <1>4 DEF Binds
  <2>3. PICK w \in 0..255 : w = heap[n].maxParams
    BY <1>1, Counts
  <2>4. PICK k \in 0..255 : k = Max({w, 1}) /\ k >= w /\ k >= 1 /\ k \in {w, 1}
    <3>1. {w, 1} \in SUBSET (0..255) /\ {w, 1} # {}
      OBVIOUS
    <3>2. Max({w, 1}) \in {w, 1} /\ \A y \in {w, 1} : Max({w, 1}) >= y
      BY <3>1, MaxOfBounded
    <3>3. QED
      BY <3>1, <3>2
  <2>5. g[n].maxParams = k
    BY <2>3, <2>4, <1>4
  <2>6. n # 1 => k = w /\ w >= 1
    BY <2>1, <2>2, <2>3, <2>4, <1>1
  <2>7. \A q \in Touched(heap, n, g) : \A c \in DOMAIN g :
           Hangs(g, q, c) /\ q # 1 => g[q].maxParams >= g[c].maxParams + Binds(g[q])
    BY <2>2, <2>4, <2>5, <1>3, <1>4
  <2>8. \A q \in DOMAIN g \ DOMAIN heap : g[q].maxParams >= 1
    <3>1. \A q \in DOMAIN g \ DOMAIN heap : q = a \/ q = b
      BY <1>1, <1>3 DEF Touched
    <3>2. QED
      BY <3>1, <1>4
  <2>9. Above(heap, n, k)
    <3>1. CASE n = 1
      BY <3>1, <1>1, HangsIs DEF Above
    <3>2. CASE n # 1
      <4>1. heap[n].maxParams >= k
        BY <3>2, <2>3, <2>6
      <4>2. QED
        BY <4>1, <2>1, <1>1, AboveOwn
    <3>3. QED
      BY <3>1, <3>2
  <2>10. HeapOK(g) /\ Above(heap, n, g[n].maxParams) /\ g[n].maxParams >= heap[n].maxParams
    BY <2>3, <2>4, <2>5, <2>9, <1>1, <1>2
  <2>11. Roomy(g)
    BY <2>1, <2>7, <2>8, <2>10, <1>1, <1>3, RoomyGrown
  <2>12. QED
    BY <2>11, <1>1, <1>2 DEF Fitting, Fits, Climbs, Spares
<1>7. QED
  BY <1>5, <1>6

\* A step that leaves the tree alone and neither inserts nor looks up.
LEMMA RestFits ==
    ASSUME Fitting, pc # "panic", UNCHANGED heap,
           pc' \in {"register", "serve", "answer", "panic"}
    PROVE  Fitting'
  BY DEF Fitting, Fits, Climbs, Spares

\* A lookup begins without params.
LEMMA MatchFits ==
    ASSUME Fitting, NEW p \in Paths, Match(p)
    PROVE  Fitting'
<1>1. /\ pc = "serve" /\ pc' = "lookup" /\ heap' = heap
      /\ params' = <<>> /\ room' = -1
  BY DEF Match, tree
<1>2. <<>> \in Seq(Param) /\ -1 \in Int
  BY EmptySeq
<1>3. QED
  BY <1>1, <1>2 DEF Fitting, Fits, Climbs, Spares

\* The child of a node with a wildcard child.
LEMMA WildChildIs ==
    ASSUME Types, Forest(heap), heap[n].wildChild
    PROVE  LET c == heap[n].children[1]
           IN  /\ c \in DOMAIN heap /\ c # 1 /\ Hangs(heap, n, c)
               /\ heap[c].nType = "catchAll" => Len(heap[c].path) >= 2
<1>1. HeapOK(heap) /\ n \in DOMAIN heap
  BY DEF Types
<1>2. Len(heap[n].children) = 1
  BY <1>1 DEF HeapOK, Pointers
<1>3. 1 \in DOMAIN heap[n].children
  BY <1>1, <1>2, ChildInside
<1>4. PICK c : c = heap[n].children[1]
  OBVIOUS
<1>5. Hangs(heap, n, c)
  BY <1>1, <1>3, <1>4 DEF Hangs
<1>6. c \in DOMAIN heap /\ c # 1
  BY <1>1, <1>5, HangsIs
<1>7. Joint(heap[n], heap[c])
  BY <1>1, <1>5, <1>6 DEF Forest
<1>8. QED
  BY <1>4, <1>5, <1>6, <1>7 DEF Joint

\* At a wildcard child there is room for its value.
LEMMA WildChildFits ==
    ASSUME Types, Forest(heap), Roomy(heap), Spares, pc = "lookup", heap[n].wildChild,
           Child.nType \in {"param", "catchAll"}
    PROVE  /\ Len(params) < Room /\ Room \in Int /\ Room # -1
           /\ Len(params) \in Nat /\ Len(params) + Child.maxParams <= Room
<1>1. PICK c : c = heap[n].children[1]
  OBVIOUS
<1>2. c \in DOMAIN heap /\ c # 1 /\ Hangs(heap, n, c) /\ Child = heap[c]
  BY <1>1, WildChildIs DEF Child
<1>3. HeapOK(heap) /\ n \in DOMAIN heap /\ n \in DOMAIN heap
  BY DEF Types
<1>4. PICK k \in 0..255 : k = heap[c].maxParams /\ k >= 1
  BY <1>2, <1>3, Counts DEF Roomy
<1>5. PICK w \in 0..255 : w = heap[n].maxParams
  BY <1>3, Counts
<1>6. PICK o \in {0, 1} : o = Binds(heap[n])
  BY <1>3, Counts
<1>7. n # 1 => w >= k + o
  BY <1>2, <1>3, <1>4, <1>5, <1>6 DEF Roomy
<1>8. PICK l \in Nat : l = Len(params)
  <2>1. params \in Seq(Param)
    BY DEF Spares
  <2>2. QED
    BY <2>1, LenProperties
<1>9. CASE room = -1 /\ params = <<>>
  <2>1. l = 0 /\ Room = k
    BY <1>2, <1>4, <1>8, <1>9 DEF Room
  <2>2. QED
    BY <2>1, <1>2, <1>4, <1>8
<1>10. CASE room # -1 /\ n # 1 /\ l + w <= room
  <2>1. PICK r \in Int : r = room /\ r = Room
    BY <1>10 DEF Spares, Room
  <2>2. w >= k + o /\ l + w <= r
    BY <2>1, <1>7, <1>10
  <2>3. l + k <= r /\ l < r
    BY <2>2, <1>4, <1>6
  <2>4. QED
    BY <2>1, <2>3, <1>2, <1>4, <1>8, <1>10
<1>11. QED
  BY <1>5, <1>8, <1>9, <1>10 DEF Spares

\* What a lookup that ended in a panic was excused by.
Excused == Desynced \/ Unnamed(heap)

\* A lookup that returns has not panicked.
LEMMA Returned ==
    ASSUME NEW hd, Return(hd)
    PROVE  pc' = "answer" /\ result'.kind # "panic"
<1>1. PICK k : k = IF hd = NoHandle THEN "miss" ELSE "hit"
  OBVIOUS
<1>2. k # "panic" /\ pc' = "answer" /\ result' = [kind |-> k, handle |-> hd]
  BY <1>1 DEF Return, Answer
<1>3. QED
  BY <1>2

\* An index byte without a child.
LEMMA IndexBeyond ==
    ASSUME Types, NEW c, IndexOf(heap[n], c) # 0,
           IndexOf(heap[n], c) \notin DOMAIN heap[n].children
    PROVE  Desynced
<1>1. heap[n] \in Node /\ n \in DOMAIN heap /\ Len(heap[n].children) \in Nat
      /\ DOMAIN heap[n].children = 1..Len(heap[n].children)
      /\ Len(heap[n].indices) \in Nat
  BY Nodes DEF Types, HeapOK
<1>2. PICK k \in 0..Len(heap[n].indices) : k = IndexOf(heap[n], c)
  BY <1>1, IndexOfIs
<1>3. Len(heap[n].indices) > Len(heap[n].children)
  BY <1>1, <1>2
<1>4. QED
  BY <1>1, <1>3 DEF Desynced

\* A lookup that goes on to a child the room is enough for.
LEMMA MovedFits ==
    ASSUME Types, Grafted, Fitting, pc = "lookup", UNCHANGED heap, pc' = "lookup",
           n' # 1,
           ~Unnamed(heap) =>
              /\ room' \in Int /\ params' \in Seq(Param)
              /\ \/ room' = -1 /\ params' = <<>>
                 \/ room' # -1 /\ Len(params') + heap[n'].maxParams <= room'
    PROVE  Fitting'
<1>1. CASE Unnamed(heap)
  BY <1>1 DEF Fitting
<1>2. CASE ~Unnamed(heap)
  <2>1. Roomy(heap')
    BY <1>2 DEF Fitting, Fits
  <2>2. Spares'
    BY <1>2 DEF Spares
  <2>3. Climbs'
    BY DEF Climbs
  <2>4. QED
    BY <2>1, <2>2, <2>3 DEF Fitting, Fits
<1>3. QED
  BY <1>1, <1>2

\* A node without a wildcard child.
LEMMA LookupChildFits ==
    ASSUME Types, Grafted, Fitting, LookupChild
    PROVE  Fitting' /\ (pc' = "answer" /\ result'.kind = "panic" => Excused)
<1>1. PICK k : k = IndexOf(heap[n], Rest[1])
  OBVIOUS
<1>2. /\ pc = "lookup" /\ heap' = heap /\ params' = params /\ room' = room
      /\ HeapOK(heap) /\ n \in DOMAIN heap
  BY DEF LookupChild, AtNode, tree, Types
<1>3. CASE k \in DOMAIN heap[n].children
  <2>1. PICK c : c = heap[n].children[k]
    OBVIOUS
  <2>2. n' = c /\ pc' = "lookup"
    BY <1>1, <1>2, <1>3, <2>1 DEF LookupChild, MoveTo
  <2>3. Hangs(heap, n, c)
    BY <1>2, <1>3, <2>1 DEF Hangs
  <2>4. c \in DOMAIN heap /\ c # 1
    BY <2>3, <1>2, HangsIs
  <2>5. ASSUME ~Unnamed(heap)
        PROVE  /\ room \in Int /\ params \in Seq(Param)
               /\ \/ room = -1 /\ params = <<>>
                  \/ room # -1 /\ Len(params) + heap[c].maxParams <= room
    <3>1. Roomy(heap) /\ Spares
      BY <2>5, <1>2 DEF Fitting, Fits
    <3>2. room \in Int /\ params \in Seq(Param)
      BY <3>1, <1>2 DEF Spares
    <3>3. CASE room # -1 /\ n # 1 /\ Len(params) + heap[n].maxParams <= room
      <4>1. heap[n].maxParams >= heap[c].maxParams + Binds(heap[n])
        BY <3>1, <3>3, <2>3, <2>4, <1>2 DEF Roomy
      <4>2. PICK w \in 0..255, v \in 0..255, o \in {0, 1}, l \in Nat, r \in Int :
               /\ w = heap[n].maxParams /\ v = heap[c].maxParams
               /\ o = Binds(heap[n]) /\ l = Len(params) /\ r = room
        <5>1. heap[n].maxParams \in 0..255 /\ Binds(heap[n]) \in {0, 1}
          BY <1>2, Counts
        <5>2. heap[c].maxParams \in 0..255
          BY <1>2, <2>4, Counts
        <5>3. Len(params) \in Nat
          BY <3>2, LenProperties
        <5>4. QED
          BY <5>1, <5>2, <5>3, <3>2
      <4>3. w >= v + o /\ l + w <= r
        BY <4>1, <4>2, <3>3
      <4>4. l + v <= r
        BY <4>2, <4>3
      <4>5. QED
        BY <4>2, <4>4, <3>2, <3>3
    <3>4. QED
      BY <3>1, <3>2, <3>3, <1>2 DEF Spares
  <2>6. Fitting'
    BY <2>2, <2>4, <2>5, <1>2, MovedFits
  <2>7. QED
    BY <2>2, <2>6
<1>4. CASE k \notin DOMAIN heap[n].children
  <2>1. IF k = 0 THEN Return(NoHandle) ELSE Answer("panic", NoHandle)
    BY <1>1, <1>4 DEF LookupChild
  <2>2. pc' = "answer"
    BY <2>1 DEF Return, Answer
  <2>3. Fitting'
    BY <2>2, <1>2, RestFits
  <2>4. ASSUME result'.kind = "panic" PROVE Desynced
    <3>1. k # 0
      BY <2>1, <2>4, Returned
    <3>2. QED
      BY <3>1, <1>1, <1>4, IndexBeyond
  <2>5. QED
    BY <2>2, <2>3, <2>4 DEF Excused
<1>5. QED
  BY <1>3, <1>4

\* A node with a parameter below it: there is room for the value.
LEMMA LookupParamPanicFits ==
    ASSUME Types, Grafted, Fitting, LookupParamPanic
    PROVE  Fitting' /\ Excused
<1>1. /\ pc = "lookup" /\ heap' = heap /\ pc' = "answer" /\ heap[n].wildChild
      /\ Child.nType = "param"
      /\ Len(params) >= Room \/ Child.path = <<>>
  BY DEF LookupParamPanic, AtWildChild, AtNode, Answer, tree
<1>2. Fitting'
  BY <1>1, RestFits
<1>3. ASSUME ~Unnamed(heap) PROVE FALSE
  <2>1. Roomy(heap) /\ Spares /\ Forest(heap)
    BY <1>1, <1>3 DEF Fitting, Fits, Grafted
  <2>2. Len(params) < Room /\ Room \in Int /\ Len(params) \in Nat
    BY <2>1, <1>1, WildChildFits
  <2>3. Child.path = <<>>
    <3>1. \A x \in Nat : \A y \in Int : x < y => ~(x >= y)
      OBVIOUS
    <3>2. QED
      BY <3>1, <2>2, <1>1
  <2>4. PICK c : c = heap[n].children[1]
    OBVIOUS
  <2>5. c \in DOMAIN heap /\ Child = heap[c]
    BY <2>1, <2>4, <1>1, WildChildIs DEF Child
  <2>6. QED
    BY <2>3, <2>5, <1>1, <1>3 DEF Unnamed
<1>4. QED
  BY <1>2, <1>3 DEF Excused

\* The value takes one place, which the parameter's node has.
LEMMA LookupParamFits ==
    ASSUME Types, Grafted, Fitting, LookupParam
    PROVE  Fitting' /\ (pc' = "answer" => result'.kind # "panic")
<1>1. PICK c : c = heap[n].children[1]
  OBVIOUS
<1>2. PICK end : end = SegmentEnd(Rest, 1)
  OBVIOUS
<1>3. /\ pc = "lookup" /\ heap' = heap /\ heap[n].wildChild /\ Child.nType = "param"
      /\ Inside /\ Child.path # <<>> /\ Bind(Tail(Child.path), ParamValue(end))
      /\ IF end <= Len(Rest) /\ Child.children # <<>>
             THEN MoveTo(Child.children[1], Drop(Rest, end - 1))
             ELSE Return(IF end <= Len(Rest) THEN NoHandle ELSE Child.handle)
      /\ HeapOK(heap) /\ n \in DOMAIN heap /\ Forest(heap)
  BY <1>2 DEF LookupParam, AtWildChild, AtNode, tree, Types, Grafted
<1>4. c \in DOMAIN heap /\ Child = heap[c] /\ c # 1
  BY <1>1, <1>3, WildChildIs DEF Child
<1>5. CASE end <= Len(Rest) /\ Child.children # <<>>
  <2>1. PICK d : d = heap[c].children[1]
    OBVIOUS
  <2>2. n' = d /\ pc' = "lookup"
    BY <2>1, <1>3, <1>4, <1>5 DEF MoveTo
  <2>3. Hangs(heap, c, d)
    <3>1. heap[c].children \in Seq(Nat) /\ heap[c].children # <<>>
      BY <1>3, <1>4, <1>5, Nodes DEF HeapOK
    <3>2. 1 \in DOMAIN heap[c].children
      BY <3>1, LenProperties, EmptySeq
    <3>3. QED
      BY <2>1, <3>2, <1>4 DEF Hangs
  <2>4. d \in DOMAIN heap /\ d # 1
    BY <2>3, <1>3, HangsIs
  <2>5. ASSUME ~Unnamed(heap)
        PROVE  /\ room' \in Int /\ params' \in Seq(Param)
               /\ room' # -1 /\ Len(params') + heap[d].maxParams <= room'
    <3>1. Roomy(heap) /\ Spares
      BY <2>5, <1>3 DEF Fitting, Fits
    <3>2. /\ Room \in Int /\ Room # -1 /\ params \in Seq(Param)
          /\ Len(params) \in Nat /\ Len(params) + heap[c].maxParams <= Room
      BY <3>1, <1>3, <1>4, WildChildFits DEF Spares
    <3>3. PICK e \in Param : e = [key |-> Tail(Child.path), val |-> ParamValue(end)]
      <4>1. Tail(Child.path) \in Seq(Bytes)
        <5>1. Child.path \in Seq(Bytes)
          BY <1>3, <1>4, Nodes DEF HeapOK
        <5>2. QED
          BY <5>1, <1>3, HeadTailProperties
      <4>2. ParamValue(end) \in Seq(Bytes)
        <5>1. PICK s \in Seq(Bytes) : s = Rest /\ Len(s) \in Nat /\ Len(s) > 0
          BY <1>3, InsideRest
        <5>2. end \in 1..(Len(s) + 1)
          BY <5>1, <1>2, SegmentEndIs
        <5>3. end - 1 \in 0..Len(s)
          BY <5>1, <5>2
        <5>4. SubSeq(s, 1, end - 1) \in Seq(Bytes)
          BY <5>1, <5>3, Cut
        <5>5. QED
          BY <5>1, <5>4 DEF ParamValue
      <4>3. QED
        BY <4>1, <4>2 DEF Param
    <3>4. params' = Append(params, e) /\ room' = Room
      BY <3>3, <1>3 DEF Bind
    <3>5. params' \in Seq(Param) /\ Len(params') = Len(params) + 1
      BY <3>2, <3>3, <3>4, AppendProperties
    <3>6. heap[c].maxParams >= heap[d].maxParams + Binds(heap[c]) /\ Binds(heap[c]) = 1
      BY <3>1, <2>3, <2>4, <1>3, <1>4 DEF Roomy, Binds
    <3>7. PICK w \in 0..255, v \in 0..255, l \in Nat, r \in Int :
             /\ w = heap[c].maxParams /\ v = heap[d].maxParams
             /\ l = Len(params) /\ r = Room
      <4>1. heap[c].maxParams \in 0..255
        BY <1>3, <1>4, Counts
      <4>2. heap[d].maxParams \in 0..255
        BY <1>3, <2>4, Counts
      <4>3. QED
        BY <4>1, <4>2, <3>2
    <3>8. w >= v + 1 /\ l + w <= r
      BY <3>2, <3>6, <3>7
    <3>9. l + 1 + v <= r
      BY <3>7, <3>8
    <3>10. QED
      BY <3>2, <3>4, <3>5, <3>7, <3>9
  <2>6. Fitting'
    BY <2>2, <2>4, <2>5, <1>3, MovedFits
  <2>7. QED
    BY <2>2, <2>6
<1>6. CASE ~(end <= Len(Rest) /\ Child.children # <<>>)
  <2>1. Return(IF end <= Len(Rest) THEN NoHandle ELSE Child.handle)
    BY <1>3, <1>6
  <2>2. pc' = "answer" /\ result'.kind # "panic"
    BY <2>1, Returned
  <2>3. QED
    BY <2>2, <1>3, RestFits
<1>7. QED
  BY <1>5, <1>6

\* A node with a catch-all below it: there is room, and a name.
LEMMA LookupCatchAllFits ==
    ASSUME Types, Grafted, Fitting, LookupCatchAll
    PROVE  Fitting' /\ (pc' = "answer" /\ result'.kind = "panic" => Excused)
<1>1. /\ pc = "lookup" /\ heap' = heap /\ heap[n].wildChild
      /\ Child.nType = "catchAll" /\ Forest(heap)
      /\ IF Len(params) >= Room \/ Len(Child.path) < 2
           THEN Answer("panic", NoHandle) ELSE Return(Child.handle)
  BY DEF LookupCatchAll, AtWildChild, AtNode, tree, Grafted
<1>2. pc' = "answer"
  BY <1>1 DEF Return, Answer
<1>3. Fitting'
  BY <1>1, <1>2, RestFits
<1>4. ASSUME ~Unnamed(heap), result'.kind = "panic" PROVE FALSE
  <2>1. Roomy(heap) /\ Spares
    BY <1>1, <1>4 DEF Fitting, Fits
  <2>2. Len(params) < Room /\ Room \in Int /\ Len(params) \in Nat
    BY <2>1, <1>1, WildChildFits
  <2>3. PICK c : c = heap[n].children[1]
    OBVIOUS
  <2>4. c \in DOMAIN heap /\ Child = heap[c] /\ Len(heap[c].path) >= 2
    BY <2>3, <1>1, WildChildIs DEF Child
  <2>5. Len(heap[c].path) \in Nat
    BY <2>4, Nodes DEF Types, HeapOK
  <2>6. \A x \in Nat : \A y \in Int : (x < y => ~(x >= y)) /\ (x >= 2 => ~(x < 2))
    OBVIOUS
  <2>7. ~(Len(params) >= Room \/ Len(Child.path) < 2)
    BY <2>2, <2>4, <2>5, <2>6
  <2>8. Return(Child.handle)
    BY <2>7, <1>1
  <2>9. QED
    BY <2>8, <1>4, Returned
<1>5. QED
  BY <1>2, <1>3, <1>4 DEF Excused

\* The path ends at a node, or differs from its.
LEMMA LookupLastFits ==
    ASSUME Types, Grafted, Fitting, LookupEnd \/ LookupMiss
    PROVE  Fitting' /\ (pc' = "answer" /\ result'.kind = "panic" => Excused)
<1>1. pc = "lookup" /\ heap' = heap /\ pc' = "answer"
  BY DEF LookupEnd, LookupMiss, AtNode, Return, Answer, tree
<1>2. Fitting'
  BY <1>1, RestFits
<1>3. CASE LookupMiss
  BY <1>2, <1>3, Returned DEF LookupMiss
<1>4. CASE LookupEnd
  <2>1. PICK k : k = IndexOf(heap[n], "/")
    OBVIOUS
  <2>2. IF /\ heap[n].handle = NoHandle
           /\ ~(path = <<"/">> /\ heap[n].wildChild /\ heap[n].nType # "root")
           /\ k > Len(heap[n].children)
          THEN Answer("panic", NoHandle) ELSE Return(heap[n].handle)
    BY <1>4, <2>1 DEF LookupEnd
  <2>3. ASSUME result'.kind = "panic" PROVE Desynced
    <3>1. k > Len(heap[n].children)
      BY <2>2, <2>3, Returned
    <3>2. Len(heap[n].children) \in Nat /\ heap[n] \in Node
          /\ DOMAIN heap[n].children = 1..Len(heap[n].children)
          /\ Len(heap[n].indices) \in Nat
      BY Nodes DEF Types, HeapOK
    <3>3. k \in 0..Len(heap[n].indices)
      BY <2>1, <3>2, IndexOfIs
    <3>4. k # 0 /\ k \notin DOMAIN heap[n].children
      BY <3>1, <3>2, <3>3
    <3>5. QED
      BY <2>1, <3>4, IndexBeyond
  <2>4. QED
    BY <1>2, <2>3 DEF Excused
<1>5. QED
  BY <1>3, <1>4

\* The empty tree has room.
LEMMA InitFits == Init => Fitting /\ LookupPanics
<1> SUFFICES ASSUME Init PROVE Fitting /\ LookupPanics
  OBVIOUS
<1>1. heap = <<routerNode>> /\ pc = "register"
  BY DEF Init
<1>2. /\ DOMAIN heap = {1} /\ heap[1].children = <<>> /\ heap[1].nType = "static"
  BY <1>1, FreshNode
<1>3. \A m, c : ~Hangs(heap, m, c)
  BY <1>2 DEF Hangs
<1>4. Roomy(heap)
  BY <1>2, <1>3 DEF Roomy
<1>5. QED
  BY <1>1, <1>4 DEF Fitting, Fits, Climbs, Spares, LookupPanics

\* Every step keeps the room.
LEMMA FittingInductive ==
    ASSUME FewWildcards, Types, Types', Grafted, Fitting, [Next]_vars
    PROVE  Fitting'
<1>1. ASSUME NEW p \in Routes, InsertRefused(p) PROVE Fitting'
  BY <1>1 DEF Fitting, InsertRefused
<1>2. ASSUME NEW p \in Routes, Insert(p) PROVE Fitting'
  BY <1>2, InsertFits
<1>3. CASE Walk
  BY <1>3, WalkFits
<1>4. CASE DescendWild
  BY <1>4, DescendWildFits
<1>5. CASE DescendNothing \/ InsertBadWild \/ InsertBadCatchAll
  BY <1>5 DEF Fitting, DescendNothing, InsertBadWild, InsertBadCatchAll, Panic
<1>6. CASE DescendSlash \/ DescendIndex
  BY <1>6, DescendPlainFits
<1>7. CASE AddChild
  BY <1>7, AddChildFits
<1>8. CASE InsertLeaf
  BY <1>8, InsertLeafFits
<1>9. CASE InsertParam
  BY <1>9, InsertParamFits
<1>10. CASE InsertCatchAll
  BY <1>10, InsertCatchAllFits
<1>11. CASE InsertEnd
  <2>1. pc # "panic" /\ heap' = heap /\ pc' = "register"
    BY <1>11 DEF InsertEnd, Registered
  <2>2. QED
    BY <2>1, RestFits
<1>12. CASE Listen \/ Answered
  <2>1. pc # "panic" /\ heap' = heap /\ pc' = "serve"
    BY <1>12 DEF Listen, Answered, tree
  <2>2. QED
    BY <2>1, RestFits
<1>13. ASSUME NEW p \in Paths, Match(p) PROVE Fitting'
  BY <1>13, MatchFits
<1>14. CASE GetValue
  BY <1>14, LookupChildFits, LookupParamPanicFits, LookupParamFits, LookupCatchAllFits,
     LookupLastFits DEF GetValue
<1>15. CASE UNCHANGED vars
  BY <1>15 DEF Fitting, Fits, Climbs, Spares, vars
<1>16. QED
  BY <1>1, <1>2, <1>3, <1>4, <1>5, <1>6, <1>7, <1>8, <1>9, <1>10, <1>11, <1>12,
     <1>13, <1>14, <1>15 DEF Next, AddRoute

\* A step of addRoute does not answer.
LEMMA AddRouteSilent ==
    ASSUME Types, AddRoute
    PROVE  pc' # "answer"
<1>1. CASE Walk
  BY <1>1, WalkIs
<1>2. CASE DescendWild \/ DescendSlash
  BY <1>2 DEF DescendWild, DescendSlash
<1>3. CASE DescendIndex
  BY <1>3, DescendIndexIs DEF Panic
<1>4. CASE AddChild
  BY <1>4, AddChildIs
<1>5. CASE DescendNothing \/ InsertBadWild \/ InsertBadCatchAll
  BY <1>5 DEF DescendNothing, InsertBadWild, InsertBadCatchAll, Panic
<1>6. CASE InsertLeaf \/ InsertParam \/ InsertCatchAll \/ InsertEnd
  BY <1>6, InsertParamIs, InsertCatchAllIs DEF InsertLeaf, InsertEnd, Registered
<1>7. QED
  BY <1>1, <1>2, <1>3, <1>4, <1>5, <1>6 DEF AddRoute

\* A step answers a lookup with a panic only if one is excused.
LEMMA PanicsInductive ==
    ASSUME Types, Grafted, Fitting, LookupPanics, [Next]_vars
    PROVE  LookupPanics'
<1>1. CASE GetValue
  <2>1. heap' = heap
    BY <1>1 DEF GetValue, LookupChild, LookupParamPanic, LookupParam, LookupCatchAll,
          LookupEnd, LookupMiss, tree
  <2>2. pc' = "answer" /\ result'.kind = "panic" => Excused
    BY <1>1, LookupChildFits, LookupParamPanicFits, LookupParamFits, LookupCatchAllFits,
       LookupLastFits DEF GetValue
  <2>3. QED
    BY <2>1, <2>2 DEF Excused, LookupPanics, Desynced, Unnamed
<1>2. CASE AddRoute
  BY <1>2, AddRouteSilent DEF LookupPanics
<1>3. CASE \E p \in Routes : InsertRefused(p) \/ Insert(p)
  <2>1. pc' # "answer"
    BY <1>3 DEF InsertRefused, Insert
  <2>2. QED
    BY <2>1 DEF LookupPanics
<1>4. CASE \E p \in Paths : Match(p)
  BY <1>4 DEF Match, LookupPanics
<1>5. CASE Listen \/ Answered
  BY <1>5 DEF Listen, Answered, LookupPanics
<1>6. CASE UNCHANGED vars
  BY <1>6 DEF LookupPanics, Desynced, vars
<1>7. QED
  BY <1>1, <1>2, <1>3, <1>4, <1>5, <1>6 DEF Next

\* While no registration has panicked the tree is a tree: no node hangs below
\* two others, a node below a wildcard node is a parameter or a named catch-all,
\* and below any other a literal node or the empty node of a catch-all.
THEOREM TreeIsAForest == Spec => [](pc # "panic" => Forest(heap))
<1>1. Init => Types /\ Grafted
  BY InitTypes, InitGrafted
<1>2. Types /\ Grafted /\ [Next]_vars => (Types /\ Grafted)'
  BY TypesInductive, GraftedInductive
<1>3. Grafted => (pc # "panic" => Forest(heap))
  BY DEF Grafted
<1>4. QED
  BY <1>1, <1>2, <1>3, PTL DEF Spec

\* A lookup panics only on index bytes without a child or at a parameter that
\* ends its route, as long as no route has more wildcards than the byte that
\* counts them holds: getValue never slices params beyond the capacity that the
\* first wildcard node's maxParams gave them, whatever was registered.
THEOREM LookupPanicsAreKnown ==
    ASSUME FewWildcards
    PROVE  Spec => []LookupPanics
<1> DEFINE Inv == Types /\ Grafted /\ Fitting /\ LookupPanics
<1>1. Init => Inv
  BY InitTypes, InitGrafted, InitFits
<1>2. Inv /\ [Next]_vars => Inv'
  BY FewWildcards, TypesInductive, GraftedInductive, FittingInductive, PanicsInductive
<1>3. Inv => LookupPanics
  OBVIOUS
<1>4. QED
  BY <1>1, <1>2, <1>3, PTL DEF Spec

=============================================================================
