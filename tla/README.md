# Verification of the gin-core web framework

TLA+ specifications of the Go framework in `core/`: they are checked with TLC
on small instances, and the central properties are proved with TLAPS for every
value of the constants. `PROJECT.json` maps each definition to the lines it
translates and lists runs, mutants, hazards, findings and theorems.

## 1. The system and its parts

| Part | Source | State | Operations | What is hard |
|---|---|---|---|---|
| Handler chain | `context.go`, `handler.go` | `group`, `index`, `abortIndex` (both `uint8`) | `Next`, `Abort*`, `RecoverHandler`, `start`, `reset` | all active `Next` calls move one index; panics unwind through them; overflow |
| Response | `context.go`, `render.go`, `http.go` | `status`, `written`, the writer | `SetStatus`, `Render` and its renderers, `finish` | the order of sending and clearing, panics before `finish` |
| GZip | `zip/gzip.go` | the wrapped writer | the middleware and its deferred `Close` | close on panic, handlers that run after it |
| Dispatch and pool | `engine.go`, `router.go` | `sync.Pool` of contexts, caches and items of a context | `ServeHTTP`, `Escape`, `SetValue`, `Query`, `From` | concurrent requests, partial reset, contexts that outlive their request |
| Router tree | `tree.go`, `params.go` | radix tree with `indices`, `children`, `priority`, `maxParams` | `addRoute`, `insertChild`, `incrementChildPrio`, `getValue` | the order of registrations; two sequences kept in step; index arithmetic |
| Blueprints | `blue_print.go`, `handler.go` | middleware slices, routes, parents, components | `Use`, `SetPrefix`, `Handle`, `ANY`, `RAW`, `Static`, `Include`, `Bind` | shared backing arrays, re-including, cycles of parents |
| Start-up | `engine.go`, `starter.go` | interceptors, router, starters | `AddInterceptors`, `ListenAndServe`, `init` | map iteration order, start after a failed start |
| Binding | `bind/` | the struct being bound, custom methods | `BindForm`, `BindMultipartForm`, `AddBindMethod` | failures half way through a struct |
| Parsers | `parser.go`, `context.go` | body, form and multipart form of the request | `Data`, `Bind*`, `From` | the body can be read once, a parse error is returned once, several handlers call |
| File storage | `file.go` | RWMutex, file system | `SaveUploadFile`, `Save`, `getAlternativeName` | lock pairing, the search for a name, other users of the directory |
| Validators | `validators/` | the library of rules | `Validate`, 27 rules, `RegisterValidator` | order of failures, boundaries, tags as a language, reflection that panics |
| Values, warehouse | `valuse.go`, `params.go` | a map | conversions, `NewValues`, `Set`, `Get` | widths, defaults, unlocked map |
| Logger, serializers, utilities | `logger.go`, `color/`, `common/` | none | output, encoding | – |

Interaction: blueprints collect routes; `init` prepends the engine's middleware
and inserts them into one tree per method; `ServeHTTP` takes a context from the
pool, lets `Match` fill in group and parameters, runs the chain, and resets and
pools the context. Handlers call back into the context: `Next`, `Abort`,
renderers, `Data` (which parses, binds and validates), uploads, and components found through `ctx.BluePrint()`, that is
`group[index-1]`, which is why the index also matters to code that never calls
`Next`.

What makes each part correct: handlers run once and in order and an abort is
final; the status chosen is the status sent; a context never shows or serves
two requests; a lookup returns the handle of a route that matches; every
registered route reaches the router with the handlers it was given; what a `nil`
from a binder says of the struct is known, and from `Data` it means bound
from the whole body and valid; validation reports the first failure and rules
that are related agree; a conversion never wraps around; an upload is saved.

## 2. Modules

| Module | Models |
|---|---|
| `Context` | one context over consecutive requests: chain, response, gzip |
| `Engine` | `ServeHTTP` in many goroutines over the pool; implements `Ownership` |
| `Ownership` | abstract: a context belongs to one request at a time |
| `RouterTree` | one method's radix tree, registration and lookup |
| `BluePrints` | set-up of blueprints and engine, and `init` |
| `Binding` | `BindForm` and `BindMultipartForm` |
| `Validators` | `Validate`, the reading of tags, the rules |
| `Values` | conversions of single values, path parameters |
| `Data` | the calls of the handlers of a request on its body; composes `Validators` and `Values` |
| `FileStorage` | concurrent uploads through `LocalFileStorage` |
| `ContextProofs`, `EngineProofs`, `RouterTreeProofs`, `BluePrintsProofs`, `BindingProofs`, `FileStorageProofs` | theorems about the module of that name |
| `DataProofs` | theorems about `Data` and the two modules it composes, `Validators` and `Values` |
| `FoldProofs` | lemmas on minima, maxima, induction up to a number, and folds |
| `MC*` | instances for TLC |

**Context.** The Go call stack is explicit: `stack` has a frame for every active
`Next`, at its loop test (`loop`), inside a handler (`run`) or inside a recovery
callback (`rec`). Handlers are of three kinds: `plain` stands for any user
handler, which may at any moment call `Next`, abort, set a status, render,
write, panic or return; `recover` and `gzip` are the framework's own. `Panic`
sets `panicking` and `Unwind`/`Recover` pop frames, running deferred functions
on the way. A response is reduced to the first status line (`hdr`) and to writes
that are lost or refused; a renderer to the code and body it sends (`Sends`).
`Recycle` is `reset` followed by reuse, or a new context after a panic. net/http's
writer is external: only the first status line counts, the first byte sends 200.
A chain has at most one `gzip`; two would compress twice and are not in the model.
The second half of the variables is history that no guard reads, apart from
`extra`, which carries the bound on `Next` calls.

**Engine.** Every request has its own `pc` through `ServeHTTP`. Fields of a
context hold the request their data came from, so the properties can ask whose
data a handler sees. `sync.Pool` is external: `Get` returns any pooled context or
a new one, and pooled contexts may vanish. After `Escape` a goroutine of the
handler keeps using the context until `Release`. The chain is left to `Context`.

**RouterTree.** Nodes live in a heap; the loops of `addRoute`, `insertChild` and
`getValue` are actions, and every index expression that can panic does. Paths are
sequences of symbols. `incrementChildPrio` is translated as written: children are
moved, index bytes are partly duplicated. The recommendation `tsr` is dropped by
its only caller and not modelled. One tree suffices: the trees of the methods
share nothing.

**BluePrints.** A slice is an array number and a length; `append` writes in place
when the capacity allows, with the growth the runtime has for pointers. Handlers
are unique numbers, so it is visible when one takes another's place. `given`
records what a route was to run and `mw` how much of it is middleware. The router is
a list of the routes taken. Which path it takes next to others (duplicates, prefixes,
wildcards) is `RouterTree`'s subject: here an `Insert` into a tree that is not empty
may succeed or panic (`InitInsert`, `InitRefused`); only a catch-all without a slash
before it is always refused (`Illegal`). `init` visits the methods in any order, as
Go's map iteration does, and a `ListenAndServe` after a failed start inserts all
routes again.

**Binding.** One action per field and branch of the loops. A field is what
reflection tells of it, exported or not; what `v` is (a pointer to a struct, another
pointer, no pointer) is `target`; a text is good, bad or empty; a text class stands for
whatever string parses for the kind of its field. A setter or `Interface()` on a field
that is not exported panics, before or after the text is parsed as in the code
(`bindSingle`). `bindArray` sets elements one by
one and can stop half way. Custom methods are the two time binders of the package.

**Validators.** A step is a turn of the inner loop of `Validate`: a piece of a tag
is skipped, refused, or run. A tag is what the splitting on `;`, `,` and `=` makes of
it, so that `List` and `SetParam` can put it together as the code does. A rule is an
operator from a field and its parameters to the error it returns; which texts the
regular expressions and time layouts accept is the constant `Matches`. Numbers are in
hundredths, so the fractions `Round` counts exist; a float field or a float parameter may
also be NaN, of which no comparison holds. Infinities are ordered like numbers and
are left out. Kinds are merged where every rule
treats them alike; `Int16` and `Uint16` are kept, because lists of kinds miss them. A
rule of the application may accept or refuse.

**Values.** `Parse` is strconv with a bit size, `Cast` Go's conversion to a narrower
type; an accessor is the pair of them and the default, at the sizes the code
gives. The ten integer accessors differ in their size only and are two operators with the
size as a parameter, so a wrong size in one of them would be seen in the translation,
not by TLC. The variable `reading` is the last conversion a handler made.

**Data.** net/http's half is external: `ParseForm` and `ParseMultipartForm` read the
body the first time, return their error the first time, and keep what they parsed.
`body` says how far the body is read. A JSON or XML decoder takes the first value and
reads by buffer: what follows the value does not make it fail, and may or may not be
left for the next reader (`Left`); from the middle of a body a decoder or a form
parser may find anything (`Found`, `FormsAfter`).
`CallData` is the parser's choice, its binder and the beginning of `Validate`, whose
steps are those of `Validators`; `CallBind` and `From` are the other calls that touch
the request. Handlers make them in any order. What a form does to the fields is
`Binding`; here any struct may come out.

**FileStorage.** Every upload has its own `pc`. A name is the number of random
strings in front of it. `Unlock` of a lock no writer holds is fatal in Go, whoever
calls it; the process then stops (`alive`). The part of `Save` behind it is never
reached in any run of the program and has no actions.

## 3. Runs

| Run | Instance | Shows |
|---|---|---|
| `context` | chains of up to 3 handlers, up to 3 extra `Next`, index modulo 9, codes 204 and 500 | `TypeOK`; `OnceInOrder`, `AllHandlersRan`, `AbortStops`: what nested `Next`, abort, panic and recovery do to the chain; `CurrentBluePrint`; `StatusDelivered`; `GZipLosesOnlyOutside`; `Terminates` |
| `no_body` | chains of up to 2 | violated: `Render` sends a body with a 204 |
| `engine` | 3 requests, 2 contexts, symmetric | `Exclusive`, `OwnState`, `PooledClean`, `ItemsNotShared`, `EscapeIsFinal`, refinement `OwnershipSpec` |
| `router_static` | all static paths of up to 3 symbols, 4 routes in any order, every lookup | `StaticHitIsRight`, `InsertPanics` |
| `router_wild` | 17 routes with parameters, catch-alls and malformed wildcards, 4 in any order | `TypeOK`, `HitIsRight`, `Reachable`, `LookupPanics`, `Returns` |
| `lookup_complete` | static paths | violated: a registered path is not found once index bytes and children are out of step |
| `blueprints` | 3 blueprints, 2 methods, 3 set-up calls, 1 or 3 handlers per `Use`, up to 2 starts | `AllInserted`, `MiddlewareKept`, `ToolboxFound`, `ChainAsRegistered` |
| `interceptors` | 2 blueprints, 4 calls | violated: `AddInterceptors` leaves nil entries in front |
| `binding` | structs of 1 or 2 fields of every kind, exported or not, forms over 2 keys | `BoundOnSuccess`, `MultipartBound`, `PanicsKnown` |
| `validators` | every rule on every kind of field with 17 parameter lists, 16 odd lists, NaN among fields and parameters, pairs of fields, tags of two rules on two fields | `FirstRefusal`, `ComparisonsAgree`, `OppositesExclude`, `ParamsAsWritten`, `PanicsOnly` |
| `data` | every type of body, good or malformed, with or without something after its first value and a second type in the header, 3 calls; widths 8 and 16 | `DataIsComplete`, `PartialOnlyAfterError`, `DecodedOnce`, `ReadingsSound` (no wrap-around, defaults, agreement of the readers) |
| `storage` | 3 uploads, names of up to 2 additions, a present, missing and unusable directory | `TypeOK`, `NeverNamesTaken`, `NamingEndsProcess` |

Why the bounds are enough. *Context*: three handlers allow a middleware, a
handler it wraps and one that runs afterwards; with an index modulo 9 the longest
sequences wrap around and all others fit (`Fits`), so both sides of the width are
reached; `MaxCalls` only cuts chains whose index has wrapped. The theorems remove
these bounds. *Engine*: two contexts for three requests force reuse, sharing and
waiting. *RouterTree*: three symbols give every split of an edge (at the start, in
the middle, at the end), four routes are one more than a reordering of children
needs. *BluePrints*: three calls register, include and nest; a `Use` of three handlers after
one of one, or a second of one after three, leaves spare capacity, which two routes of the
engine then share. A second start shows what the first left. *Binding*: fields interact only through the
early exits, so two suffice; arrays of two elements meet one, two and three values.
*Validators*: rules look at one field or at two; the loop only carries its position
from piece to piece, so two pieces on two fields show every order of success and
failure. *Data*: net/http and the body remember three things of a request, each of which only
moves forward; two calls set them and the third sees every combination. *Values*: the numbers are those around
the limits of both widths, with and without sign. *FileStorage*: the names are free, taken
and beyond the limit; two uploads contend and a third is anywhere.

Fairness: `Context` assumes weak fairness of `Progress`: the goroutine of the
request is scheduled and a handler that keeps the control finally returns or
calls the framework, which Go's scheduler and terminating handlers give.
`Terminates` excepts chains whose index wrapped, which may run for ever.
`RouterTree` assumes that a registration or lookup that is running goes on; it
is sequential code. `FileStorage` assumes that a goroutine in the naming loop is
scheduled: it holds the read lock already and waits for nothing. Nothing else is
assumed to happen.

Deadlock: the engine, the router and the set-up end (all requests served, set-up
panicked, no calls left), a request of `Data` has a bounded number of calls, and the
process of `FileStorage` dies, so those runs do not check it; `Context`, `Binding` and
`Validators` serve for ever, and TLC checks that they never stop.

## 4. What the checks found

Each violated run has an entry under `findings`, with the comment it contradicts.
The passing properties say exactly how far the code is right in spite of them:

* `HitIsRight`, `Reachable` and `InsertPanics` hold while index bytes and children
  are in step (`~Desynced`); `StaticHitIsRight` holds even then.
* `LookupPanics` leaves only the parameter without a name and the desynchronised
  node as causes of a panic; the parameters always fit their capacity.
* `ChainAsRegistered` holds as long as no middleware slice had spare capacity.
* `ChainAsRegistered` leaves out exactly the case in which `append` overwrites a
  shared array. With spare capacity `MiddlewareKept` holds: what can be replaced are
  the handlers behind the middleware, never the engine's or the blueprint's middleware,
  and their number stays.
* `BoundOnSuccess` says what nil from `BindForm` means in both cases: every field is
  bound, or the loop stopped at a field whose default took the place of a bad
  value, and no later field was touched. The default of a slice is lost when its key is
  missing, because the code binds the (absent) values of the form afterwards.
* `MultipartBound` says it for `BindMultipartForm`, where nil does not mean bound: the error
  of a value without a default is dropped (`bind/from.go:163`), and a field whose method
  nobody added is passed over.
* `PanicsKnown` lists what the binders panic for: a pointer to what is no struct, a field
  that is not exported, too many values for a Go array.
* `DataIsComplete` lists the five ways in which `Data` returns nil without having
  bound the whole body; the fifth is JSON or XML with something after its first value.
* `DecodedOnce` says what a second `Data` can see after a decoder: never the whole
  body, and nothing only if the decoder had all of it.
* `ComparisonsAgree` and `OppositesExclude` hold on the kinds a rule reads, and with a NaN
  say that `gt`, `ge`, `lt` and `le` all refuse it; the first says which length passes neither
  length rule.
* `NeverNamesTaken` and `NamingEndsProcess` say what saving an upload does: the name
  the search comes out with is never one that is taken, but returning it ends the process.
  `NamedOnlyBeyondLimit`, proved and not run, says more: with `fileExists` as it is the
  search comes out only beyond the longest name.

Disagreements the modules contain and no run repeats:

* `addRoute` panics for a path that is a prefix of a registered one, although
  `tree.go:149` wants to make its node a leaf (`InsertPanics` states it);
* `FullPath` returns the route registered last for the method (`context.go:162`
  promises that of the request; `Match` in `Engine`);
* all handlers of one `RAW` call become the last of them (`RawHandlerFuncGroup`);
* `Bind` registers nothing, its type assertion never holds (`Bind`);
* routes of the engine's own blueprint run the engine's middleware twice, once
  from `Handle` and once from `init`;
* `Static` with a url that does not end in a slash makes `init` panic;
* a field with a `file` tag is filled from uploads under the name of the field,
  one without a tag never (`HasUpload`);
* a route whose last wildcard is a parameter is lost if it is the one that brings that
  parameter into the tree: `insertChild` leaves its loop after the last parameter, without
  a handle and without what follows it, so neither `/:a` nor `/:a/b` is found
  (`tree.go:351`). A later `/:a/c` is, and `/:a/*rest` is. A parameter at the end is even
  left without its name (`LookupPanics` says what lookups that reach it do). `Reachable` is
  about routes without parameters for this reason;
* `append` on a middleware slice with spare capacity overwrites the handlers of a
  route registered before (`blue_print.go:95`; `MiddlewareKept` says which);
* `reset` leaves the items and the `Params` of a context behind (`context.go:39`): a handler
  sees items that an earlier, finished request stored, and the not-found handler of a
  request whose method has no routes the `Params` of the request before. `ItemsNotShared`
  says that the items are never those of a request still being served, and `OwnState`
  names the fields that are clean;
* when a default replaces a bad value, `BindForm` returns nil at once and later
  fields stay unbound (`bind/from.go:95`; the second half of `BoundOnSuccess`);
* `Required` is a copy of `MaxLength` (`validate.go:134` calls it 必填字段, a mandatory
  field), so the example in `validate.go:50`, `required(m=...)`, fails to parse its
  missing value;
* `max_length` and `min_length` refuse the length they are given, although the
  message of that example says "not greater than 10";
* `ge` returns the value of the tag for its message (`GreaterEqual`);
* `Int16` is in no list of kinds and `Uint16` not in that of `isLt`; `isBetween` answers
  false without an error for other kinds, so `not_between` accepts any of them;
* `not_contains` on an unsigned field without an equal item is an error (`isContains`);
* `method` reports a method that exists as missing and panics for one that does not;
* a piece of a tag without parentheses is passed over (`SkipPiece`);
* `IsValidationError` asserts the struct while `Validate` returns a pointer: it never
  holds (`errors.go:34`);
* `NewValues` puts as many empty values in front as there are values;
* `Bool` of an empty value is false even with a default (`BoolValue`);
* `fileExists` is true for a file that is not there, `MkdirAll` is guarded by an error
  that never occurs, and `getAlternativeName` pairs `RLock` with `Unlock`;
* an error of `ParseForm` is returned once: a second `Data` or `BindForm` on the
  request binds half of the form and returns nil.

## 5. What is proved

Each theorem holds for all values of the constants that satisfy the assumption of
its module; TLC evaluates the assumptions in the runs. They say no more than what
the code's types give; these parts need a word:

* `ValidatorsAssumption` asks that the names of a struct's fields differ and those of
  methods are not empty (Go's rules), and that the empty string is no numeral (strconv refuses it);
* `BluePrintsAssumption` asks for a finite set of blueprints and that no path
  handed to the other methods is the catch-all only `Static` makes;
* `ValuesAssumption` states the arithmetic of powers of two for the widths
  (`2^b = 2 * 2^(b-1)`, positive), because the provers have no laws of `^`.

Bounds such as `MaxOps`, `MaxRoutes`, `MaxCalls` are any natural number in the theorems.
31 of the 33 invariants and 4 of the 7 action and temporal properties the passing
runs check are stated by a theorem; "Only model-checked" lists the others.

**Context** (`TypeCorrect`, `HandlersOnceInOrder`, `BluePrintIsCurrent`,
`NoHandlerSkipped`, `AbortIsFinal`, `StatusReachesClient`, `GZipKeepsInnerBodies`). The
chain properties are not inductive. `ChainInv` adds the shape of the stack (only its
top is at a loop test, every frame below has called `Next`) and ties the index to
the history: it equals the number of handlers called (one more at the loop test)
until the chain is exhausted, and the increments still owed by the frames on the
stack leave it below the bound of `Fits`. Without the second half the index could
have wrapped, and a wrapped index starts the chain again. Recovery needs the
case of an exhausted chain, since a panic drops loops that owed an increment.
`StatusInv` says that up to the first output the status is the code set last and
nothing was sent. `GZipInv` orders the positions of the handlers on the
stack (`OrderInv`) and says that the writer is closed only when the chain is
exhausted and everything left on the stack comes before a gzip handler (`ZipInv`).

**Engine** (`ContextsAreExclusive`, `ServeImplementsOwnership`, `ContextShowsOwnRequest`,
`PoolHoldsCleanContexts`, `ItemsStayWithTheirRequest`, `EscapedContextKeepsRequest`).
Exclusiveness is inductive with typing. The refinement maps each action to
`Acquire`, `GiveBack`, `Abandon`, `Collect` or a stutter with `free <- pool`,
`used <- born`. `StateInv` says what a context looks like between the steps at
which handlers run. `EscapeInv` (an escaped context is in no pool and with no
request but one that is running or escaped) and `ItemsInv` (an item is in the
context its request still has, or the request is over) carry the last two.

**RouterTree** (`TreeStaysWellFormed`, `StaticRoutesAreExact`, `StaticPanicsAreKnown`,
`TreeIsAForest`, `LookupPanicsAreKnown`).
`Types` says that the heap is well formed: typed nodes, children that exist and are
never the root, and one child, a parameter or a catch-all, below a node with the
wildcard flag. It is needed as a whole: an edge split moves children and flag
together. For static routes the invariant is a chart of the tree, `pre`, that
assigns each node the text of the path from the root to it (`Charted`): a child's
is its parent's with the parent's own text (`Reads`), a handle is the text of its node,
the node of a running registration or lookup together with what is left of the path
gives the path asked for (`Placed`), and every node lies on a registered path
(`Kept`). It speaks of children alone and not of index bytes, so it survives
`incrementChildPrio`, which only permutes children while it may duplicate bytes; that is
why a lookup is never wrong although it can miss (`lookup_complete`). `Kept`
is what confines the panics: a node without a route to cover would let `addRoute` refuse
a path no registered one explains.

With wildcards, `LookupPanicsAreKnown` needs to know that the `maxParams` of a node has room for
every parameter below it, because `getValue` allocates its parameters once, at the first
wildcard node, and from then on extends the slice within that capacity. `Roomy` says so edge by
edge (a parent's count is at least its child's, plus one if it binds a value itself; the root
is excepted, nothing is allocated there), and `addRoute` breaks and restores it along its
descent: `Climbs` says that the wildcards left in the path fit the count with which the
walk raises the nodes it enters, and `Spares` that a lookup has room for its node's count. This
only propagates if a node has one parent, so the raise on the way down reaches the parent of
every raised node: `Forest` says that and where the types of nodes may hang (a
parameter or a catch-all under the wildcard flag, or the empty node in front of a catch-all),
and `Stands` where a registration may be: it enters a parameter only with its whole name in
front of it and followed by a slash or nothing, so an edge split never cuts a parameter. Both hold until
a registration panics, which ends the program. A node without a name is left when a route ends
in a parameter; `Fitting` excepts the heaps that have one, as the property does. The
theorem assumes routes of at most 255 wildcards (`FewWildcards`): `wildcardNum` caps the count at
255, and a route with more would get too small a capacity. All these invariants were checked with TLC
on the router instances before they were proved.

**BluePrints** (`RoutesAllInserted`, `ChainsAsRegistered`, `ToolboxIsFound`,
`MiddlewareStays`).
`BluePrintsInv` has five parts besides the types: every slice is nil or lies in an array that is long
enough (`Held`), no route is without handlers (`WellMade`), the blueprints of the
engine's routes are the engine's or its children (`Adopted`), the router holds only
routes of the engine's blueprint and ends with those the running `init` inserted
(`Inserted`), and, while no
slice of middleware had spare capacity, every slice of middleware is full and every
route's slice still reads what it was given (`Kept`). The last part is the one a shared
array breaks. `ANY` runs `Handle` for every method in a fold, so it stays inside any set
of states that `Handle` does not leave. What holds with spare capacity needs a second
invariant on top of this one, `ShareInv`: no two blueprints append into one array
(`Apart`), every route's slice begins with its middleware (`Begins`), and a blueprint that
appends into the array of a route does so behind that middleware (`Behind`), since
`append` writes nothing before the end of its slice (`AppendWrites`).

**Binding** (`FormIsBound`, `MultipartIsBound`, `PanicsForKnownCause`). `BindInv` says
which fields are done: those before the loop's position are as `FormBound` or `PartBound`
says, the others are untouched, and the loop has ended behind the last field or at one
whose default replaced a bad value.

**Validators** (`ReportsFirstRefusal`, `PanicsAreKnown`, `OppositesAgree`,
`ComparisonsConsistent`, `ParametersAsWritten`). `ValidateInv` says that no piece before the
position of the loop refuses and that the result is what the piece at it gives. The other three
follow from tables of the rules, and `ParametersAsWritten` from an invariant of the fold over
the segments of a parameter list: what is joined so far is the list as
written up to the last complete parameter. The proof showed that a `contains` rule with an
empty item accepts an empty text although `eq` has no parameter then;
`ComparisonsAgree` says so.

**Data** (`PartialFormIsOld`, `DataBindsWholeBody`, `BodyIsDecodedOnce`,
`ReadingIsWhatWasSent`). `HttpInv` ties what net/http remembers to the calls made: a decoder
leaves no full body and, when it had all of it, none; half a form was reported as an error in
this call or an earlier one; and a form goes missing only in a decoder. `BoundInv` ties that to what the struct was bound from. The parser chosen
for a header with one type is that type (`ParserOfOne`). A reading is a
function of its arguments, so its invariant only remembers them; the work is in the
lemmas: a conversion to a width keeps the numbers of that width (`CastKeeps`), strconv's
nearest number is in range (`IntegerRead`), and the list of a path parameter begins
with the value `byName` finds (`FirstOfList`).

**FileStorage** (`StorageTyped`, `SearchEndsBeyondLimit`, `NameReturnedIsFree`), the first
two inductive only together: that
the deferred `Unlock` is fatal needs that no writer holds the lock, and that no
goroutine is past the search in a live process needs the fatal `Unlock`.
`ExistsWithinLimit` says what `fileExists` computes, and from it that the name returned
is free.

**Induction over data.** The library's induction theorems cannot be instantiated by
the provers here. `FoldProofs` replaces them by least counterexamples: `MinIsLeast` comes
from the well-foundedness of `<`, `UpTo` is induction with a set for the property, and
`IterExists`, `TraceOf` show that a fold over a sequence has the values of a loop, one per
element. The parameters and runes of `Validators`, the methods of `ANY` and `ToURLValues` are
folds and proved this way. No module declares a `RECURSIVE` operator.

Only model-checked:

* liveness (`Terminates`, `Returns`, `NamingEndsProcess`): out of the prover's reach;
* `RouterTree.HitIsRight` and `Reachable`, about routes with wildcards. `HitIsRight` compares a route
  with the path it is filled into, position by position (`Filled`), and needs a chart whose
  entries are patterns with the parameters taken so far. `Reachable` needs the converse of the
  static chart: that index bytes and children name the same nodes at every step of
  a registration, so that the descent to a registered text never fails. Neither is out of reach in
  principle; their charts were not built.

## 6. What is not modelled

`findCaseInsensitivePath` has no caller. Headers, encodings, logging and wording
are left out. JSON and XML binding hand the body to a serializer; what it decodes into
the fields is encoding/json's. `AbortHandler` only reads; it indexes with `abortIndex` and not
`abortIndex - 1`, so it returns the handler after the one that aborted (`context.go:338`).
Embedded structs are left out of `Validators` and `Binding`: a
rule on two fields that names a promoted field behind a nil embedded pointer panics in
`FieldByName`. `isValid` of the
validators has no caller. `Warehouse` is a map the framework never touches; its use
without a lock by concurrent handlers is a hazard of the application. The logger and
the serializers only produce output. `Text` and `Unmarshal` of a value hand it
on. `test/`, `main.go` and the Rust and RabbitMQ notes are not part of
the framework. In `Context` a handler that panics inside JSON decoding or in its
own code is the same `Panic`. A partially decoded JSON value counts as not
bound in `Binding`. A chain with two gzip middlewares is not in `Context`. Data races between the goroutines of one escaped request are
outside `Engine`, which has one user per context.

## 7. Plan

1. Done: `Context`, `Engine` with `Ownership`, `RouterTree`, `BluePrints`,
   `Binding`; the theorems of section 5.
2. Done: `FileStorage` with its theorems; `Validators` and `Values`, composed in `Data`.
3. Done: theorems for every module and every safety property but two.
4. Proofs left: `Reachable` (index bytes in step with children), then `HitIsRight`
   with a chart of patterns.
5. Left over: the interceptor slice concurrent requests append to
   (`engine.go:122`), which the nil entries in front of it make unobservable today.
