----------------------------- MODULE RouterTree -----------------------------
(***************************************************************************)
(* The radix tree of one HTTP method (core/tree.go) and the two operations *)
(* HttpRouter performs on it (core/router.go): Insert while the engine is  *)
(* set up, Match for every request afterwards.                             *)
(*                                                                         *)
(* A path is a sequence of symbols, the letters of the alphabet standing   *)
(* for bytes.  Nodes live in a heap and point to each other; the root is   *)
(* node 1.  The loops of addRoute, insertChild and getValue are steps of   *)
(* the pc.  A handle is the path it was registered with.  getValue's third *)
(* result (tsr) is dropped by its only caller and not modelled; the index  *)
(* expressions that compute it are, since they can panic.                  *)
(***************************************************************************)
EXTENDS Integers, Sequences, SequencesExt, FiniteSetsExt

CONSTANTS Routes,    \* paths the blueprints may register
          Paths,     \* paths requests ask for
          MaxRoutes  \* bound: routes registered before serving starts

ASSUME RouterAssumption ==
    /\ MaxRoutes \in Nat
    /\ Routes \subseteq Seq(STRING) /\ Paths \subseteq Seq(STRING)

VARIABLES
    heap,        \* the nodes
    pc,          \* where Insert or Match is
    arg,         \* the path given to Insert or Match
    n,           \* the current node
    path,        \* what is left of arg
    wildcard,    \* wildcards left to insert, a uint8
    params,      \* the Params getValue has collected
    room,        \* the capacity of params, -1 before its allocation
    result,      \* what Match returned
    registered   \* the routes, in the order they were registered

vars == <<heap, pc, arg, n, path, wildcard, params, room, result, registered>>

tree   == <<heap, registered>>
cursor == <<n, path, wildcard>>
answer == <<params, room, result>>

-----------------------------------------------------------------------------
IsWild(c)   == c \in {":", "*"}
Drop(s, k)  == SubSeq(s, k + 1, Len(s))
NoHandle    == <<>>

\* Mutant: wildcards are counted with an int.
uint8Wide(k) == k

uint8(k) == k % 256

routerNode ==
    [path |-> <<>>, wildChild |-> FALSE, nType |-> "static", maxParams |-> 0,
     priority |-> 0, indices |-> <<>>, children |-> <<>>, handle |-> NoHandle]

\* Where a parameter's value or a wildcard's name starting at s[k] ends: at
\* the next slash or at the end of the path.
SegmentEnd(s, k) ==
    LET slash == SelectInSubSeq(s, k, Len(s), LAMBDA c : c = "/")
    IN  IF slash = 0 THEN Len(s) + 1 ELSE slash

wildcardNum(s) == Min({255, Cardinality({k \in DOMAIN s : IsWild(s[k])})})

CommonPrefix(s, t) ==
    Max({k \in 0..Min({Len(s), Len(t)}) : SubSeq(s, 1, k) = SubSeq(t, 1, k)})

\* The first child whose index byte is c, 0 if there is none.
IndexOf(node, c) == SelectInSeq(node.indices, LAMBDA b : b = c)

-----------------------------------------------------------------------------
(* incrementChildPrio: the children are moved, the index bytes are not     *)
(* moved along with them but partly duplicated.                            *)

\* The place the child at idx moves to once its priority is incremented.
NewIndex(h, m, idx) ==
    LET prio(k) == h[h[m].children[k]].priority
    IN  Min({j \in 1..idx : \A k \in j..(idx - 1) : prio(k) < prio(idx) + 1})

incrementChildPrio(h, m, idx) ==
    LET new  == NewIndex(h, m, idx)
        kids == h[m].children
        ind  == h[m].indices
    IN  [h EXCEPT ![kids[idx]].priority = @ + 1,
                  ![m].children = InsertAt(RemoveAt(kids, idx), new, kids[idx]),
                  ![m].indices = SubSeq(ind, 1, new - 1) \o SubSeq(ind, new, idx)
                                   \o SubSeq(ind, new, idx - 1) \o Drop(ind, idx)]

-----------------------------------------------------------------------------
(* HttpRouter.Insert and addRoute.                                         *)

Init ==
    /\ heap = <<routerNode>>
    /\ pc = "register" /\ arg = <<>>
    /\ n = 1 /\ path = <<>> /\ wildcard = 0
    /\ params = <<>> /\ room = -1 /\ result = [kind |-> "none", handle |-> <<>>]
    /\ registered = <<>>

Panic == pc' = "panic" /\ UNCHANGED <<heap, cursor, answer, arg, registered>>

\* Insert refuses a path that does not begin with a slash.
InsertRefused(p) ==
    /\ pc = "register" /\ Len(registered) < MaxRoutes
    /\ p = <<>> \/ p[1] # "/"
    /\ arg' = p
    /\ pc' = "panic"
    /\ UNCHANGED <<tree, cursor, answer>>

\* The beginning of addRoute: an empty tree goes to insertChild at once.
Insert(p) ==
    /\ pc = "register" /\ Len(registered) < MaxRoutes
    /\ p # <<>> /\ p[1] = "/"
    /\ arg' = p
    /\ n' = 1 /\ path' = p /\ wildcard' = wildcardNum(p)
    /\ LET empty == heap[1].path = <<>> /\ heap[1].children = <<>>
       IN  /\ pc' = IF empty THEN "insert" ELSE "walk"
           /\ heap' = [heap EXCEPT ![1].priority = @ + 1,
                                   ![1].nType = IF empty THEN "root" ELSE @]
    /\ UNCHANGED <<answer, registered>>

\* Split edge: a node whose path is longer than the common prefix hands its
\* contents to a new child with the rest of the path.
Split(h, m, i) ==
    LET node  == h[m]
        child == [node EXCEPT !.path = Drop(@, i), !.nType = "static",
                   !.priority = @ - 1,
                   !.maxParams = Max({0} \cup {h[c].maxParams : c \in ToSet(node.children)})]
    IN  IF i = Len(node.path) THEN h
        ELSE [Append(h, child) EXCEPT ![m] =
                [node EXCEPT !.path = SubSeq(@, 1, i), !.handle = NoHandle,
                             !.wildChild = FALSE, !.indices = <<node.path[i + 1]>>,
                             !.children = <<Len(h) + 1>>]]

\* Mutant: maxParams is not updated on the way.
RaisedNot(node) == node.maxParams

\* maxParams of a node the new route goes through.
Raised(node) == Max({node.maxParams, wildcard})

\* Mutant: any node with a handle on the way counts as the leaf.
LeafTakenAnywhere(i, node) == node.handle # NoHandle

\* The path ends at the node, and the node has a handle.
LeafTaken(i, node) == i = Len(path) /\ node.handle # NoHandle

\* The first half of the walk loop: split, and set the handle of an in-path
\* leaf.  The code does not return there: the loop goes on with no path left.
Walk ==
    LET i   == CommonPrefix(path, heap[n].path)
        cut == Split([heap EXCEPT ![n].maxParams = Raised(heap[n])], n, i)
    IN  /\ pc = "walk"
        /\ path' = Drop(path, i)
        /\ pc' = IF LeafTaken(i, cut[n]) THEN "panic" ELSE "descend"
        /\ heap' = IF i = Len(path) /\ pc' # "panic"
                     THEN [cut EXCEPT ![n].handle = arg] ELSE cut
        /\ UNCHANGED <<arg, n, wildcard, answer, registered>>

\* The wildcard child accepts the rest of the path.
WildMatches(node) ==
    /\ IsPrefix(node.path, path)
    /\ node.nType # "catchAll"
    /\ Len(node.path) = Len(path) \/ path[Len(node.path) + 1] = "/"

\* n.wildChild: walk into the wildcard or panic with a conflict.
DescendWild ==
    LET c == heap[n].children[1]
    IN  /\ pc = "descend"
        /\ heap[n].wildChild
        /\ heap' = [heap EXCEPT ![c].priority = @ + 1,
                                ![c].maxParams = Raised(heap[c])]
        /\ n' = c
        /\ wildcard' = uint8(wildcard - 1)
        /\ pc' = IF WildMatches(heap[c]) THEN "walk" ELSE "panic"
        /\ UNCHANGED <<arg, path, answer, registered>>

\* path[0] with no path left.
DescendNothing ==
    /\ pc = "descend"
    /\ ~heap[n].wildChild
    /\ path = <<>>
    /\ Panic

SlashAfterParam ==
    heap[n].nType = "param" /\ path[1] = "/" /\ Len(heap[n].children) = 1

AtByte == pc = "descend" /\ ~heap[n].wildChild /\ path # <<>>

DescendSlash ==
    /\ AtByte
    /\ SlashAfterParam
    /\ n' = heap[n].children[1]
    /\ heap' = [heap EXCEPT ![n'].priority = @ + 1]
    /\ pc' = "walk"
    /\ UNCHANGED <<arg, path, wildcard, answer, registered>>

\* A child with the next byte exists, or its index byte does.
DescendIndex ==
    LET k == IndexOf(heap[n], path[1])
    IN  /\ AtByte
        /\ ~SlashAfterParam
        /\ k # 0
        /\ IF k > Len(heap[n].children) THEN Panic
           ELSE /\ heap' = incrementChildPrio(heap, n, k)
                /\ n' = heap[n].children[k]
                /\ pc' = "walk"
                /\ UNCHANGED <<arg, path, wildcard, answer, registered>>

\* Otherwise insert it: a new child for a literal byte; a wildcard goes into
\* the node itself.  The child's place is taken from the number of indices.
AddChild ==
    LET c     == path[1]
        child == [routerNode EXCEPT !.maxParams = wildcard]
        h     == [Append(heap, child) EXCEPT
                    ![n].indices = Append(@, c),
                    ![n].children = Append(@, Len(heap) + 1)]
        last  == Len(h[n].indices)
    IN  /\ AtByte
        /\ ~SlashAfterParam
        /\ IndexOf(heap[n], c) = 0
        /\ IF IsWild(c)
             THEN pc' = "insert" /\ UNCHANGED <<heap, n>>
             ELSE IF last > Len(h[n].children)
             THEN pc' = "panic" /\ heap' = h /\ UNCHANGED n
             ELSE /\ pc' = "insert"
                  /\ heap' = incrementChildPrio(h, n, last)
                  /\ n' = Len(h)
        /\ UNCHANGED <<arg, path, wildcard, answer, registered>>

-----------------------------------------------------------------------------
(* insertChild.                                                            *)

Registered ==
    /\ pc' = "register"
    /\ registered' = Append(registered, arg)

InsertLeaf ==
    /\ pc = "insert"
    /\ wildcard = 0
    /\ heap' = [heap EXCEPT ![n].path = path, ![n].handle = arg]
    /\ Registered
    /\ UNCHANGED <<arg, cursor, answer>>

\* The next wildcard of the path, 0 if there is none, and the end of its name.
WildAt  == SelectInSeq(path, IsWild)
NameEnd == SegmentEnd(path, WildAt)

AtWild == pc \in {"insert", "scan"} /\ wildcard > 0

\* The checks that panic for every wildcard; without one the scan for it
\* runs off the path.
BadWild ==
    WildAt # 0 =>
        \/ \E k \in (WildAt + 1)..(NameEnd - 1) : IsWild(path[k])
        \/ heap[n].children # <<>>
        \/ NameEnd - WildAt < 2

InsertBadWild ==
    /\ AtWild
    /\ BadWild
    /\ Panic

\* A parameter: the path before it goes to n, its name to the new child, but
\* only if the path goes on after the name.
InsertParam ==
    LET child == [routerNode EXCEPT !.nType = "param", !.maxParams = wildcard,
                                    !.priority = 1]
        rest  == [routerNode EXCEPT !.maxParams = wildcard - 1, !.priority = 1]
        new   == Len(heap) + 1
        cut   == [heap EXCEPT ![n].children = <<new>>, ![n].wildChild = TRUE,
                              ![n].path = IF WildAt > 1
                                            THEN SubSeq(path, 1, WildAt - 1)
                                            ELSE @]
    IN  /\ AtWild
        /\ ~BadWild
        /\ path[WildAt] = ":"
        /\ IF NameEnd > Len(path)
             THEN /\ heap' = Append(cut, child)
                  /\ n' = new
             ELSE /\ heap' = cut \o <<[child EXCEPT
                                 !.path = SubSeq(path, WildAt, NameEnd - 1),
                                 !.children = <<new + 1>>], rest>>
                  /\ n' = new + 1
        /\ path' = Drop(path, NameEnd - 1)
        /\ wildcard' = wildcard - 1
        /\ pc' = "scan"
        /\ UNCHANGED <<arg, answer, registered>>

\* The checks that panic for a catch-all.
BadCatchAll ==
    \/ NameEnd <= Len(path) \/ wildcard > 1
    \/ heap[n].path # <<>> /\ Last(heap[n].path) = "/"
    \/ (WildAt > 1 => path[WildAt - 1] # "/")

InsertBadCatchAll ==
    /\ AtWild
    /\ ~BadWild
    /\ path[WildAt] = "*"
    /\ BadCatchAll
    /\ Panic

\* A catch-all: an empty node under the slash, and the node with the handle.
InsertCatchAll ==
    LET slash == WildAt - 1
        new   == Len(heap) + 1
        empty == [routerNode EXCEPT !.nType = "catchAll", !.wildChild = TRUE,
                    !.maxParams = 1, !.priority = 1, !.children = <<new + 1>>]
        leaf  == [routerNode EXCEPT !.nType = "catchAll", !.maxParams = 1,
                    !.priority = 1, !.path = Drop(path, slash - 1),
                    !.handle = arg]
    IN  /\ AtWild
        /\ ~BadWild
        /\ path[WildAt] = "*"
        /\ ~BadCatchAll
        /\ heap' = [heap EXCEPT ![n].path = SubSeq(path, 1, slash - 1),
                                ![n].maxParams = Max({@, 1}),
                                ![n].children = <<new>>,
                                ![n].indices = <<"/">>] \o <<empty, leaf>>
        /\ Registered
        /\ UNCHANGED <<arg, cursor, answer>>

\* The loop ends when every wildcard is inserted; path and handle of the last
\* node are not set.
InsertEnd ==
    /\ pc = "scan"
    /\ wildcard = 0
    /\ Registered
    /\ UNCHANGED <<heap, arg, cursor, answer>>

\* setup() is over and the server accepts requests.
Listen ==
    /\ pc = "register"
    /\ pc' = "serve"
    /\ UNCHANGED <<tree, arg, cursor, answer>>

-----------------------------------------------------------------------------
(* HttpRouter.Match and getValue.                                          *)

Answer(kind, h) ==
    /\ pc' = "answer"
    /\ result' = [kind |-> kind, handle |-> h]

\* Match reports a match when getValue returned a handle.
Return(h) == Answer(IF h = NoHandle THEN "miss" ELSE "hit", h)

Match(p) ==
    /\ pc = "serve"
    /\ pc' = "lookup"
    /\ arg' = p /\ n' = 1 /\ path' = p
    /\ params' = <<>> /\ room' = -1
    /\ result' = [kind |-> "none", handle |-> NoHandle]
    /\ UNCHANGED <<tree, wildcard>>

AtNode == pc = "lookup"
Rest   == Drop(path, Len(heap[n].path))

\* Mutant: off by one, a single byte below the node is not looked up.
InsideShort == Len(path) > Len(heap[n].path) + 1 /\ IsPrefix(heap[n].path, path)

\* The path goes on below the node.
Inside == Len(path) > Len(heap[n].path) /\ IsPrefix(heap[n].path, path)

\* Mutant: the rest of the path ends at the node if it is not longer.
AtEndLoose == Len(path) <= Len(heap[n].path)

\* The path ends exactly at the node.
AtEnd == path = heap[n].path

\* Mutant: the walk continues without moving.
MoveToStuck(m, rest) == UNCHANGED <<n, path, pc, result>>

\* continue walk
MoveTo(m, rest) == n' = m /\ path' = rest /\ UNCHANGED <<pc, result>>

\* The node has no wildcard child: go on with the child of the next byte.
LookupChild ==
    LET k == IndexOf(heap[n], Rest[1])
    IN  /\ AtNode
        /\ Inside
        /\ ~heap[n].wildChild
        /\ IF k \in DOMAIN heap[n].children
             THEN MoveTo(heap[n].children[k], Rest)
             ELSE /\ IF k = 0 THEN Return(NoHandle) ELSE Answer("panic", NoHandle)
                  /\ UNCHANGED <<n, path>>
        /\ UNCHANGED <<tree, arg, wildcard, params, room>>

Child == heap[heap[n].children[1]]

\* The capacity params has, or gets from the node that allocates it.
Room == IF room = -1 THEN Child.maxParams ELSE room

AtWildChild(type) ==
    AtNode /\ Inside /\ heap[n].wildChild /\ Child.nType = type

Bind(key, val) ==
    /\ params' = Append(params, [key |-> key, val |-> val])
    /\ room' = Room

\* p[:i+1] beyond the capacity, or the name of a node without one.
LookupParamPanic ==
    /\ AtWildChild("param")
    /\ Len(params) >= Room \/ Child.path = <<>>
    /\ Answer("panic", NoHandle)
    /\ UNCHANGED <<tree, arg, cursor, params, room>>

\* Mutant: the value of a parameter is the rest of the path.
ParamValueRest(end) == Rest

ParamValue(end) == SubSeq(Rest, 1, end - 1)

LookupParam ==
    LET end == SegmentEnd(Rest, 1)
    IN  /\ AtWildChild("param")
        /\ Len(params) < Room /\ Child.path # <<>>
        /\ Bind(Tail(Child.path), ParamValue(end))
        /\ IF end <= Len(Rest) /\ Child.children # <<>>
             THEN MoveTo(Child.children[1], Drop(Rest, end - 1))
             ELSE /\ Return(IF end <= Len(Rest) THEN NoHandle ELSE Child.handle)
                  /\ UNCHANGED <<n, path>>
        /\ UNCHANGED <<tree, arg, wildcard>>

LookupCatchAll ==
    /\ AtWildChild("catchAll")
    /\ IF Len(params) >= Room \/ Len(Child.path) < 2
         THEN Answer("panic", NoHandle) /\ UNCHANGED <<params, room>>
         ELSE Bind(Drop(Child.path, 2), Rest) /\ Return(Child.handle)
    /\ UNCHANGED <<tree, arg, cursor>>

\* The path ends at this node.  Without a handle the search for a trailing
\* slash looks up the child whose index byte is a slash.
LookupEnd ==
    LET node  == heap[n]
        slash == IndexOf(node, "/")
    IN  /\ AtNode
        /\ AtEnd
        /\ IF /\ node.handle = NoHandle
              /\ ~(path = <<"/">> /\ node.wildChild /\ node.nType # "root")
              /\ slash > Len(node.children)
             THEN Answer("panic", NoHandle)
             ELSE Return(node.handle)
        /\ UNCHANGED <<tree, arg, cursor, params, room>>

\* The path differs from the node's.
LookupMiss ==
    /\ AtNode
    /\ ~Inside
    /\ ~AtEnd
    /\ Return(NoHandle)
    /\ UNCHANGED <<tree, arg, cursor, params, room>>

\* The request was answered; the server takes the next one.
Answered ==
    /\ pc = "answer"
    /\ pc' = "serve"
    /\ UNCHANGED <<tree, arg, cursor, answer>>

-----------------------------------------------------------------------------
AddRoute ==
    \/ Walk
    \/ DescendWild \/ DescendNothing \/ DescendSlash \/ DescendIndex
    \/ AddChild
    \/ InsertLeaf \/ InsertBadWild \/ InsertParam
    \/ InsertBadCatchAll \/ InsertCatchAll \/ InsertEnd

GetValue ==
    \/ LookupChild
    \/ LookupParamPanic \/ LookupParam \/ LookupCatchAll
    \/ LookupEnd \/ LookupMiss

Next ==
    \/ \E p \in Routes : InsertRefused(p) \/ Insert(p)
    \/ AddRoute
    \/ Listen
    \/ \E p \in Paths : Match(p)
    \/ GetValue
    \/ Answered

Spec == Init /\ [][Next]_vars

\* Insert and Match run to their end: the loops are sequential code.
FairSpec == Spec /\ WF_vars(AddRoute) /\ WF_vars(GetValue)

-----------------------------------------------------------------------------
(* Properties.                                                             *)

PCs == {"register", "walk", "descend", "insert", "scan", "panic", "serve",
        "lookup", "answer"}

\* Every reachable state has the types of the fields; pointers stay in the
\* heap, and a wildcard child is a parameter or a catch-all, so getValue never
\* reaches its "invalid routerNode type".
TypeOK ==
    /\ pc \in PCs
    /\ n \in DOMAIN heap
    /\ wildcard \in 0..255
    /\ \A m \in DOMAIN heap :
         /\ heap[m].nType \in {"static", "root", "param", "catchAll"}
         /\ heap[m].maxParams \in 0..255
         /\ ToSet(heap[m].children) \subseteq DOMAIN heap
         /\ heap[m].wildChild =>
              /\ Len(heap[m].children) = 1
              /\ heap[heap[m].children[1]].nType \in {"param", "catchAll"}

\* A node has index bytes that no longer belong to its children.
Desynced ==
    \E m \in DOMAIN heap : Len(heap[m].indices) > Len(heap[m].children)

Hit == pc = "answer" /\ result.kind = "hit"

\* A route with its wildcards replaced by values.  The value of a catch-all
\* begins with the slash before it.
Filled(route, vals) ==
    LET seen(i) == wildcardNum(SubSeq(route, 1, i))
        fill[i \in 1..(Len(route) + 1)] ==
          IF i > Len(route) THEN <<>>
          ELSE IF IsWild(route[i])
                 THEN vals[seen(i)] \o fill[SegmentEnd(route, i)]
          ELSE IF i < Len(route) /\ route[i + 1] = "*" THEN fill[i + 1]
          ELSE <<route[i]>> \o fill[i + 1]
    IN  fill[1]

\* The name of the k-th wildcard of a route.
NameOf(route, k) ==
    LET at == CHOOSE i \in DOMAIN route :
                /\ IsWild(route[i])
                /\ wildcardNum(SubSeq(route, 1, i)) = k
    IN  SubSeq(route, at + 1, SegmentEnd(route, at) - 1)

\* The handle, with the parameters found, is the path asked for.
RightHandle ==
    /\ Contains(registered, result.handle)
    /\ Len(params) = wildcardNum(result.handle)
    /\ Filled(result.handle, [k \in DOMAIN params |-> params[k].val]) = arg
    /\ \A k \in DOMAIN params :
         /\ params[k].key = NameOf(result.handle, k)
         /\ IF Contains(result.handle, "*") /\ k = Len(params)
              THEN IsPrefix(<<"/">>, params[k].val)
              ELSE ~Contains(params[k].val, "/")

\* Whatever was registered in whatever order, a lookup that finds a handle
\* finds the one of a route that matches the path, with its parameters, as
\* long as no reordering has put index bytes and children out of step.
HitIsRight == Hit /\ ~Desynced => RightHandle

\* A route table without wildcards never answers with another path's handle,
\* not even when index bytes and children are out of step.
StaticHitIsRight ==
    Hit /\ (\A k \in DOMAIN registered : wildcardNum(registered[k]) = 0)
        => result.handle = arg /\ params = <<>>

\* The route has no parameter and, read as a pattern, matches the path.
Covers(route, p) ==
    LET star == SelectInSeq(route, LAMBDA c : c = "*")
    IN  /\ ~Contains(route, ":")
        /\ IF star = 0 THEN p = route ELSE IsPrefix(SubSeq(route, 1, star - 1), p)

\* A request for a registered path without parameters finds it, through all
\* the edge splits later registrations made, unless index bytes and children
\* are out of step.
Reachable ==
    /\ pc = "answer"
    /\ \E k \in DOMAIN registered : Covers(registered[k], arg)
    => Hit \/ Desynced

\* A lookup panics only at a parameter that ends its route (its node has no
\* name) or on index bytes without a child: the parameters always fit the
\* capacity the first wildcard node allocated.
LookupPanics ==
    pc = "answer" /\ result.kind = "panic"
        => Desynced \/ \E m \in DOMAIN heap :
                         heap[m].nType = "param" /\ heap[m].path = <<>>

\* While no wildcards are involved, registration panics only for a path that
\* is a prefix of a registered one (or does not begin with a slash), or when
\* index bytes and children are out of step.
InsertPanics ==
    /\ pc = "panic"
    /\ \A k \in DOMAIN registered : wildcardNum(registered[k]) = 0
    /\ wildcardNum(arg) = 0
    /\ ~Desynced
    => \/ arg = <<>> \/ arg[1] # "/"
       \/ \E k \in DOMAIN registered : IsPrefix(arg, registered[k])

\* Every registration comes to an end and every lookup is answered.
Returns ==
    /\ pc \in {"walk", "descend", "insert", "scan"} ~> pc \in {"register", "panic"}
    /\ pc = "lookup" ~> pc = "answer"

\* tree.go: getValue returns the handle registered with the given path.
LookupComplete ==
    /\ pc = "answer"
    /\ Contains(registered, arg)
    => Hit
=============================================================================
