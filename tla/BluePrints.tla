----------------------------- MODULE BluePrints -----------------------------
(***************************************************************************)
(* Setting up an engine: blueprints collect middleware and routes and are  *)
(* included in one another (core/blue_print.go), interceptors are added,   *)
(* and init hands every route of the engine's blueprint to the router and  *)
(* runs the starters (core/engine.go).                                     *)
(*                                                                         *)
(* Go slices are modelled with their backing arrays, because append writes *)
(* into an array other slices share whenever the capacity allows it.  A    *)
(* handler is a number that no other handler has, a path a sequence of     *)
(* parts.  The router is a list of the routes it took; whether it takes a  *)
(* path next to those it holds (duplicates, prefixes, wildcards) is the    *)
(* subject of RouterTree and left open here.                               *)
(***************************************************************************)
EXTENDS Integers, Sequences, SequencesExt, FiniteSetsExt

CONSTANTS BPs,      \* the blueprints
          Root,     \* the one embedded in the Engine
          Methods,  \* httpMethods, as a sequence
          Paths,    \* paths routes are registered with, legal by themselves
          Sizes,    \* numbers of handlers given to Use
          MaxOps,   \* bound: set-up calls the program makes
          NoBP

ASSUME BluePrintsAssumption ==
    /\ IsFiniteSet(BPs) /\ Root \in BPs /\ NoBP \notin BPs
    /\ Methods \in Seq(STRING)
    /\ "*static" \notin Paths    \* only Static makes a catch-all
    /\ MaxOps \in Nat
    /\ Sizes \subseteq 1..3

VARIABLES
    arrays,        \* backing arrays of the slices of handlers
    middleware,    \* b.middleware, a slice
    prefix,        \* b.prefix
    parent,        \* b.parent
    own,           \* b has a component (logger, serializer...) of its own
    methodsTree,   \* b.methodsTree: for each method a sequence of handleNodes
    interceptors,  \* e.interceptors
    router,        \* for each method the routes inserted so far
    done,          \* init: nodes of each method already inserted
    pc,            \* where the program and ListenAndServe are
    ops            \* set-up calls made so far

\* History, for the properties only.
VARIABLES
    runs,          \* calls of init
    included,      \* how often each blueprint was included
    spare          \* a slice of middleware had room for another append

engine == <<interceptors, router, done, pc, runs>>
bps    == <<arrays, middleware, prefix, parent, own, methodsTree, included,
            spare>>
vars   == <<engine, bps, ops>>

MethodSet == ToSet(Methods)
ALLMethod == "*"

-----------------------------------------------------------------------------
(* Slices of handlers; nil, the zero handler, is 0.                        *)

NilSlice == [arr |-> 0, len |-> 0]

Content(a, s) == IF s.arr = 0 THEN <<>> ELSE SubSeq(a[s.arr], 1, s.len)

Cap(a, s) == IF s.arr = 0 THEN 0 ELSE Len(a[s.arr])

\* The runtime's growslice for pointer-sized elements: double if that is
\* enough, then round up to a size class.
GrowCap(old, need) ==
    LET want == IF need > 2 * old THEN need ELSE 2 * old
    IN  IF want <= 4 THEN want ELSE want + (want % 2)

\* append(s, xs...): in place when the capacity allows it, in a new array
\* otherwise.
AppendSlice(a, s, xs) ==
    LET len == s.len + Len(xs)
        all == Content(a, s) \o xs
    IN  IF len <= Cap(a, s)
          THEN [arrays |-> [a EXCEPT ![s.arr] = all \o SubSeq(@, len + 1, Len(@))],
                slice |-> [arr |-> s.arr, len |-> len]]
          ELSE [arrays |-> Append(a, [i \in 1..GrowCap(Cap(a, s), len) |->
                                        IF i <= len THEN all[i] ELSE 0]),
                slice |-> [arr |-> Len(a) + 1, len |-> len]]

-----------------------------------------------------------------------------
(* Set-up calls on a blueprint.                                            *)

Init ==
    /\ arrays = <<>>
    /\ middleware = [b \in BPs |-> NilSlice]
    /\ prefix = [b \in BPs |-> <<>>]
    /\ parent = [b \in BPs |-> NoBP]
    /\ own = [b \in BPs |-> b = Root]
    /\ methodsTree = [b \in BPs |-> [m \in MethodSet |-> <<>>]]
    /\ interceptors = <<>>
    /\ router = [m \in MethodSet |-> <<>>]
    /\ done = [m \in MethodSet |-> 0]
    /\ pc = "setup" /\ ops = 0 /\ runs = 0
    /\ included = [b \in BPs |-> 0] /\ spare = FALSE

\* The program makes one more set-up call.
SetUp == pc = "setup" /\ ops < MaxOps /\ ops' = ops + 1 /\ UNCHANGED engine

\* k handlers nobody has used yet.
Fresh(k) == [i \in 1..k |-> 3 * ops + i]

Use(b, k) ==
    LET app == AppendSlice(arrays, middleware[b], Fresh(k))
    IN  /\ SetUp
        /\ arrays' = app.arrays
        /\ middleware' = [middleware EXCEPT ![b] = app.slice]
        /\ spare' = (spare \/ app.slice.len < Cap(app.arrays, app.slice))
        /\ UNCHANGED <<prefix, parent, own, methodsTree, included>>

SetPrefix(b, p) ==
    /\ SetUp
    /\ prefix' = [prefix EXCEPT ![b] = <<p>>]
    /\ UNCHANGED <<arrays, middleware, parent, own, methodsTree, included, spare>>

\* SetLogger, SetValidator, SetParsers and the other setters, given a value.
SetComponent(b) ==
    /\ SetUp
    /\ own' = [own EXCEPT ![b] = TRUE]
    /\ UNCHANGED <<arrays, middleware, prefix, parent, methodsTree, included,
                   spare>>

\* register: one node for the method, or for all of them.
register(tree, b, method, node) ==
    [tree EXCEPT ![b] = [m \in MethodSet |->
        IF method \in {m, ALLMethod} THEN Append(@[m], node) ELSE @[m]]]

\* Handle on [arrays, tree]: the handlers hs after the middleware b has now.
\* given records what the route is to run, mw how many of those the
\* middleware is.
HandleOn(st, b, method, path, hs) ==
    LET app == AppendSlice(st.arrays, middleware[b], hs)
    IN  [arrays |-> app.arrays,
         tree |-> register(st.tree, b, method,
                    [path |-> prefix[b] \o path, handles |-> app.slice,
                     blueprint |-> b, mw |-> middleware[b].len,
                     given |-> Content(st.arrays, middleware[b]) \o hs])]

Now == [arrays |-> arrays, tree |-> methodsTree]

Routed(st) ==
    /\ arrays' = st.arrays
    /\ methodsTree' = st.tree
    /\ UNCHANGED <<middleware, prefix, parent, own, included, spare>>

\* Handle, and with it GET, POST, PUT, PATCH, DELETE, HEAD and OPTIONS.
Handle(b, method, p) ==
    /\ SetUp
    /\ Routed(HandleOn(Now, b, method, <<p>>, Fresh(1)))

\* One Handle, and so one append, for every method.
ANY(b, p) ==
    /\ SetUp
    /\ Routed(FoldLeft(LAMBDA st, m : HandleOn(st, b, m, <<p>>, Fresh(1)),
                       Now, Methods))

\* Every closure captures the loop variable, which is the last handler when
\* they run (go 1.19).
RawHandlerFuncGroup(hs) == [i \in DOMAIN hs |-> Last(hs)]

RAW(b, method, p) ==
    /\ SetUp
    /\ Routed(HandleOn(Now, b, method, <<p>>, RawHandlerFuncGroup(Fresh(2))))

\* Static(url, dir): GET url*static; the slash is never added to the url.
Static(b, url) ==
    /\ SetUp
    /\ Routed(HandleOn(Now, b, "GET", <<url, "*static">>, Fresh(1)))

\* Where Logger(), Parsers(), JSONSerializer() and the other getters find the
\* component for b: in b or the nearest parent that has one.  NoBP stands for
\* nil, and for the endless recursion of parents that form a cycle.
Component(b) ==
    LET up[k \in Nat] ==
          IF k = 0 THEN b
          ELSE IF up[k - 1] = NoBP \/ own[up[k - 1]] THEN up[k - 1]
          ELSE parent[up[k - 1]]
        end == up[Cardinality(BPs)]
    IN  IF end # NoBP /\ own[end] THEN end ELSE NoBP

\* Mutant: the parent of the branch is not set.
IncludeNoParent(b, branch, p) ==
    /\ SetUp
    /\ methodsTree' = [methodsTree EXCEPT ![b] = [m \in MethodSet |->
         @[m] \o [i \in DOMAIN methodsTree[branch][m] |->
                    [methodsTree[branch][m][i] EXCEPT !.path = <<p>> \o @,
                                                      !.blueprint = branch]]]]
    /\ included' = [included EXCEPT ![branch] = @ + 1]
    /\ UNCHANGED <<arrays, middleware, prefix, own, spare, parent>>

\* Include copies the routes the branch has now; their blueprint is the
\* branch, also when the branch got them from another one.
Include(b, branch, p) ==
    /\ SetUp
    /\ parent' = [parent EXCEPT ![branch] = b]
    /\ methodsTree' = [methodsTree EXCEPT ![b] = [m \in MethodSet |->
         @[m] \o [i \in DOMAIN methodsTree[branch][m] |->
                    [methodsTree[branch][m][i] EXCEPT !.path = <<p>> \o @,
                                                      !.blueprint = branch]]]]
    /\ included' = [included EXCEPT ![branch] = @ + 1]
    /\ UNCHANGED <<arrays, middleware, prefix, own, spare>>

\* Bind and BindMethod of a struct whose method has type func(*Context): the
\* assertion to the named type HandleFunc fails, and nothing is registered.
Bind ==
    /\ SetUp
    /\ UNCHANGED bps

\* A method name that is none of httpMethods panics.
BindIllegal ==
    /\ pc = "setup" /\ ops < MaxOps
    /\ pc' = "illegal"
    /\ UNCHANGED <<interceptors, router, done, runs, bps, ops>>

\* make gives groups k nils before the k middlewares are appended.
AddInterceptors(k) ==
    /\ pc = "setup" /\ ops < MaxOps
    /\ ops' = ops + 1
    /\ interceptors' = interceptors \o [i \in 1..k |-> 0] \o Fresh(k)
    /\ UNCHANGED <<router, done, pc, runs, bps>>

-----------------------------------------------------------------------------
(* ListenAndServe: setup and init.                                         *)

ListenAndServe ==
    /\ pc = "setup"
    /\ runs < 2
    /\ pc' = "init"
    /\ runs' = runs + 1
    /\ done' = [m \in MethodSet |-> 0]
    /\ UNCHANGED <<interceptors, router, bps, ops>>

\* A catch-all without a slash before it: no tree takes the path.
Illegal(path) == Last(path) = "*static" /\ path[Len(path) - 1] # "s/"

\* Mutant: the engine's middleware is appended after the handlers.
InitChainAfter(node) ==
    AppendSlice(arrays, node.handles, Content(arrays, middleware[Root]))

\* append(e.middleware, node.handles...)
InitChain(node) ==
    AppendSlice(arrays, middleware[Root], Content(arrays, node.handles))

\* init is at the next node of m.  The methods come in any order, the nodes of
\* a method in theirs.
AtNode(m) ==
    /\ pc = "init"
    /\ done[m] < Len(methodsTree[Root][m])
    /\ \A k \in MethodSet \ {m} : done[k] \in {0, Len(methodsTree[Root][k])}

NextNode(m) == methodsTree[Root][m][done[m] + 1]

\* Mutant: the result of append is assigned to e.middleware.
InitInsertAssign(m) ==
    LET app == InitChain(NextNode(m))
    IN  /\ AtNode(m) /\ ~Illegal(NextNode(m).path)
        /\ arrays' = app.arrays
        /\ middleware' = [middleware EXCEPT ![Root] = app.slice]
        /\ done' = [done EXCEPT ![m] = @ + 1]
        /\ router' = [router EXCEPT ![m] = Append(@,
             [NextNode(m) EXCEPT !.handles = Content(app.arrays, app.slice)])]
        /\ UNCHANGED <<pc, interceptors, runs, prefix, parent, own,
                       methodsTree, included, spare, ops>>

\* The router takes the route.
InitInsert(m) ==
    LET app == InitChain(NextNode(m))
    IN  /\ AtNode(m) /\ ~Illegal(NextNode(m).path)
        /\ arrays' = app.arrays
        /\ done' = [done EXCEPT ![m] = @ + 1]
        /\ router' = [router EXCEPT ![m] = Append(@,
             [NextNode(m) EXCEPT !.handles = Content(app.arrays, app.slice)])]
        /\ UNCHANGED <<pc, interceptors, runs, middleware, prefix, parent, own,
                       methodsTree, included, spare, ops>>

\* Insert panics: the path is illegal, or it conflicts with what the tree has.
InitRefused(m) ==
    /\ AtNode(m)
    /\ Illegal(NextNode(m).path) \/ router[m] # <<>>
    /\ arrays' = InitChain(NextNode(m)).arrays
    /\ pc' = "panic"
    /\ UNCHANGED <<done, router, interceptors, runs, middleware, prefix, parent,
                   own, methodsTree, included, spare, ops>>

\* Mutant: init leaves the loop after the first method.
RunStartersEarly ==
    /\ pc = "init"
    /\ \E m \in MethodSet : done[m] = Len(methodsTree[Root][m])
    /\ pc' = "start"
    /\ UNCHANGED <<interceptors, router, done, runs, bps, ops>>

\* All routes are in the router; the starters run.
RunStarters ==
    /\ pc = "init"
    /\ \A m \in MethodSet : done[m] = Len(methodsTree[Root][m])
    /\ pc' = "start"
    /\ UNCHANGED <<interceptors, router, done, runs, bps, ops>>

\* A starter returns an error: ListenAndServe returns it, and the program may
\* go on and call it again.
StarterFails ==
    /\ pc = "start"
    /\ pc' = "setup"
    /\ UNCHANGED <<interceptors, router, done, runs, bps, ops>>

StartersDone ==
    /\ pc = "start"
    /\ pc' = "serve"
    /\ UNCHANGED <<interceptors, router, done, runs, bps, ops>>

Next ==
    \/ \E b \in BPs : \/ \E k \in Sizes : Use(b, k)
                      \/ \E p \in Paths : SetPrefix(b, p)
                      \/ SetComponent(b)
                      \/ \E p \in Paths, m \in MethodSet \cup {ALLMethod} : Handle(b, m, p)
                      \/ \E p \in Paths, m \in MethodSet : RAW(b, m, p)
                      \/ \E p \in Paths : ANY(b, p)
                      \/ \E url \in {"s", "s/"} : Static(b, url)
                      \/ \E branch \in BPs, p \in Paths : Include(b, branch, p)
    \/ Bind \/ BindIllegal
    \/ \E k \in Sizes : AddInterceptors(k)
    \/ ListenAndServe
    \/ \E m \in MethodSet : InitInsert(m) \/ InitRefused(m)
    \/ RunStarters \/ StarterFails \/ StartersDone

Spec == Init /\ [][Next]_vars

-----------------------------------------------------------------------------
(* Properties.                                                             *)

\* A route runs the engine's middleware and then the handlers it was given,
\* after the middleware its blueprint had at that moment, however the
\* blueprints were included and in whatever order init went through the
\* methods, provided no slice of middleware ever had spare capacity.
ChainAsRegistered ==
    ~spare /\ runs = 1 /\ pc \in {"init", "start", "serve"} =>
        \A m \in MethodSet : \A i \in DOMAIN router[m] :
            router[m][i].handles
              = Content(arrays, middleware[Root]) \o router[m][i].given

\* Whatever the capacity of the slices, and whoever appends into the array of
\* another, a route loses none of its middleware: the engine's and then its
\* blueprint's at that moment are the first to run, and as many handlers
\* follow as it was given.
MiddlewareKept ==
    runs = 1 /\ pc \in {"init", "start", "serve"} =>
        \A m \in MethodSet : \A i \in DOMAIN router[m] :
            LET route == router[m][i]
                first == Content(arrays, middleware[Root])
            IN  /\ IsPrefix(first \o SubSeq(route.given, 1, route.mw), route.handles)
                /\ Len(route.handles) = Len(first) + Len(route.given)

\* A server that starts has every route of the engine's blueprint in its
\* router, in their order; the routes of a branch are among them if they were
\* registered before it was included.  Each was inserted once, unless an
\* earlier ListenAndServe failed: what that one inserted is still there, and
\* is nothing but routes of the engine's blueprint.
AllInserted ==
    pc = "serve" => \A m \in MethodSet :
        LET new == methodsTree[Root][m]
            old == Len(router[m]) - Len(new)
        IN  /\ old >= 0
            /\ runs = 1 => old = 0
            /\ \A i \in DOMAIN new : router[m][old + i].path = new[i].path
            /\ \A i \in 1..old : \E j \in DOMAIN new : router[m][i].path = new[j].path

\* When no blueprint was included twice, every route in the router finds its
\* logger, parsers, validator and serializers through the parents of its
\* blueprint.
ToolboxFound ==
    (\A b \in BPs : included[b] <= 1) =>
        \A m \in MethodSet : \A i \in DOMAIN router[m] :
            Component(router[m][i].blueprint) # NoBP

\* engine.go: AddInterceptors adds middleware; every entry of the group of a
\* matched request can be called.
InterceptorsCallable == pc = "serve" => ~Contains(interceptors, 0)
=============================================================================
