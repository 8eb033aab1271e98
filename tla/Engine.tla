------------------------------- MODULE Engine -------------------------------
(***************************************************************************)
(* Engine.ServeHTTP (core/engine.go) run by many goroutines at once: each  *)
(* takes a *Context from the sync.Pool, fills it from the request and from *)
(* the router, runs handlers on it, resets it and puts it back, unless a   *)
(* handler called Escape or a panic went through.  Contexts keep what      *)
(* reset() does not clear, so the model keeps the fields of every context. *)
(*                                                                         *)
(* A field derived from a request holds that request (or None): the        *)
(* properties ask whose data a context shows.  The chain itself is module  *)
(* Context; the router is reduced to what Match writes.                    *)
(***************************************************************************)
EXTENDS Integers, FiniteSets

CONSTANTS Requests,   \* requests, each served once by its own goroutine
          Ctxs,       \* bound: contexts the pool may create
          Routes,     \* routes registered for the one method that has a tree
          LastRoute,  \* the route registered last for it
          NoCtx, None

ASSUME EngineAssumption ==
    /\ NoCtx \notin Ctxs
    /\ None \notin Requests /\ None \notin Routes
    /\ LastRoute \in Routes
    /\ "miss" \notin Routes /\ "nomethod" \notin Routes

VARIABLES
    pc,      \* where the goroutine of each request is in ServeHTTP
    target,  \* what the request asks for: a route, a miss, an unknown method
    lease,   \* the context a request, or its goroutine after Escape, uses
    pool,    \* contexts in e.pool
    born,    \* contexts created by e.pool.New so far
    ctx      \* the fields of every context

vars == <<pc, target, lease, pool, born, ctx>>

Misses == {"miss", "nomethod"}

\* dispatchContext: the zero Context.
NewContext ==
    [req |-> None, matched |-> FALSE, escape |-> FALSE, group |-> None,
     params |-> None, fullPath |-> None, query |-> None, form |-> None,
     items |-> {}]

Context ==
    [req : Requests \cup {None}, matched : BOOLEAN, escape : BOOLEAN,
     group : Requests \cup {None}, params : Requests \cup {None},
     fullPath : Routes \cup {None}, query : Requests \cup {None},
     form : Requests \cup {None}, items : SUBSET Requests]

\* The context of a request.
Own(r) == ctx[lease[r]]

-----------------------------------------------------------------------------
Init ==
    /\ pc = [r \in Requests |-> "idle"]
    /\ target \in [Requests -> Routes \cup Misses]
    /\ lease = [r \in Requests |-> NoCtx]
    /\ pool = {}
    /\ born = {}
    /\ ctx = [c \in Ctxs |-> NewContext]

\* sync.Pool.Get: some pooled context, or a new one when it finds none (it
\* may miss contexts pooled on other processors).
Available == pool \cup (Ctxs \ born)

\* Mutant: Get hands out a context without taking it from the pool.
GetKeep(r, c) ==
    /\ pc[r] = "idle"
    /\ c \in Available
    /\ pc' = [pc EXCEPT ![r] = "match"]
    /\ lease' = [lease EXCEPT ![r] = c]
    /\ born' = born \cup {c}
    /\ ctx' = [ctx EXCEPT ![c].req = r]
    /\ UNCHANGED <<target, pool>>

\* ctx = e.pool.Get(); ctx.Request = r; ctx.ResponseWriter = w.
Get(r, c) ==
    /\ pc[r] = "idle"
    /\ c \in Available
    /\ pc' = [pc EXCEPT ![r] = "match"]
    /\ lease' = [lease EXCEPT ![r] = c]
    /\ pool' = pool \ {c}
    /\ born' = born \cup {c}
    /\ ctx' = [ctx EXCEPT ![c].req = r]
    /\ UNCHANGED target

\* HttpRouter.Match: nothing is written when the method has no tree; with a
\* tree, fullPath, Params and group are, whether or not the path is found.
Matched(r, x) ==
    CASE target[r] = "nomethod" -> x
      [] target[r] = "miss" ->
           [x EXCEPT !.fullPath = LastRoute, !.params = r, !.group = None]
      [] OTHER ->
           [x EXCEPT !.fullPath = LastRoute, !.params = r, !.group = r]

\* Mutant: ServeHTTP runs whatever group the context has.
MatchKeepGroup(r) ==
    LET m == Matched(r, Own(r))
        hit == target[r] \in Routes
    IN  /\ pc[r] = "match"
        /\ pc' = [pc EXCEPT ![r] = "run"]
        /\ ctx' = [ctx EXCEPT ![lease[r]] = [m EXCEPT !.matched = hit]]
        /\ UNCHANGED <<target, lease, pool, born>>

\* ctx.matched = e.Router.Match(ctx), and the NotFoundHandle group otherwise.
\* The interceptors that would be put before the group are in BluePrints.
Match(r) ==
    LET m == Matched(r, Own(r))
        hit == target[r] \in Routes
    IN  /\ pc[r] = "match"
        /\ pc' = [pc EXCEPT ![r] = "run"]
        /\ ctx' = [ctx EXCEPT ![lease[r]] =
                     [m EXCEPT !.matched = hit,
                               !.group = IF hit THEN m.group ELSE r]]
        /\ UNCHANGED <<target, lease, pool, born>>

\* Handlers use the context while ServeHTTP runs them, and after Escape from
\* goroutines of their own.
Using(r) == pc[r] \in {"run", "escaped"}

\* Mutant: all contexts share one items map.
SetValueShared(r) ==
    /\ Using(r)
    /\ ctx' = [c \in Ctxs |-> [ctx[c] EXCEPT !.items = @ \cup {r}]]
    /\ UNCHANGED <<pc, target, lease, pool, born>>

\* c.items[key] = val, under c.lock.
SetValue(r) ==
    /\ Using(r)
    /\ ctx' = [ctx EXCEPT ![lease[r]].items = @ \cup {r}]
    /\ UNCHANGED <<pc, target, lease, pool, born>>

\* Query() and From() parse the request once and keep the result.
Query(r) ==
    /\ Using(r)
    /\ Own(r).query = None
    /\ ctx' = [ctx EXCEPT ![lease[r]].query = Own(r).req]
    /\ UNCHANGED <<pc, target, lease, pool, born>>

From(r) ==
    /\ Using(r)
    /\ Own(r).form = None
    /\ ctx' = [ctx EXCEPT ![lease[r]].form = Own(r).req]
    /\ UNCHANGED <<pc, target, lease, pool, born>>

Escape(r) ==
    /\ pc[r] = "run"
    /\ ctx' = [ctx EXCEPT ![lease[r]].escape = TRUE]
    /\ UNCHANGED <<pc, target, lease, pool, born>>

\* Mutant: ServeHTTP ignores escape.
StartedIgnoreEscape(r) ==
    /\ pc[r] = "run"
    /\ pc' = [pc EXCEPT ![r] = "reset"]
    /\ UNCHANGED <<target, lease, pool, born, ctx>>

\* start() returned.
Started(r) ==
    /\ pc[r] = "run"
    /\ pc' = [pc EXCEPT ![r] = IF Own(r).escape THEN "escaped" ELSE "reset"]
    /\ UNCHANGED <<target, lease, pool, born, ctx>>

\* Mutant: Put is deferred, so that a panic pools the context, although a
\* goroutine may have it.
PanicOutPuts(r) ==
    /\ pc[r] \in {"match", "run"}
    /\ pool' = pool \cup {lease[r]}
    /\ IF pc[r] = "run" /\ Own(r).escape
         THEN pc' = [pc EXCEPT ![r] = "escaped"] /\ UNCHANGED lease
         ELSE /\ pc' = [pc EXCEPT ![r] = "done"]
              /\ lease' = [lease EXCEPT ![r] = NoCtx]
    /\ UNCHANGED <<target, born, ctx>>

\* A panic leaves ServeHTTP: no reset, no Put.
PanicOut(r) ==
    /\ pc[r] \in {"match", "run"}
    /\ IF pc[r] = "run" /\ Own(r).escape
         THEN pc' = [pc EXCEPT ![r] = "escaped"] /\ UNCHANGED lease
         ELSE /\ pc' = [pc EXCEPT ![r] = "done"]
              /\ lease' = [lease EXCEPT ![r] = NoCtx]
    /\ UNCHANGED <<target, pool, born, ctx>>

\* Mutant: reset() forgets formCache.
ClearedKeepForm(x) == [x EXCEPT !.matched = FALSE, !.query = None]

\* The fields reset() clears, of those modelled here; items, group, Params,
\* fullPath and Request stay.
Cleared(x) == [x EXCEPT !.matched = FALSE, !.query = None, !.form = None]

Reset(r) ==
    /\ pc[r] = "reset"
    /\ pc' = [pc EXCEPT ![r] = "put"]
    /\ ctx' = [ctx EXCEPT ![lease[r]] = Cleared(@)]
    /\ UNCHANGED <<target, lease, pool, born>>

\* e.pool.Put(ctx); ServeHTTP returns.
Put(r) ==
    /\ pc[r] = "put"
    /\ pc' = [pc EXCEPT ![r] = "done"]
    /\ pool' = pool \cup {lease[r]}
    /\ lease' = [lease EXCEPT ![r] = NoCtx]
    /\ UNCHANGED <<target, born, ctx>>

\* The last user of an escaped context is done with it.
Release(r) ==
    /\ pc[r] = "escaped"
    /\ pc' = [pc EXCEPT ![r] = "done"]
    /\ lease' = [lease EXCEPT ![r] = NoCtx]
    /\ UNCHANGED <<target, pool, born, ctx>>

\* The garbage collector empties a sync.Pool.
CollectPool(c) ==
    /\ c \in pool
    /\ pool' = pool \ {c}
    /\ UNCHANGED <<pc, target, lease, born, ctx>>

Step(r) ==
    \/ \E c \in Ctxs : Get(r, c)
    \/ Match(r)
    \/ SetValue(r) \/ Query(r) \/ From(r) \/ Escape(r)
    \/ Started(r) \/ PanicOut(r)
    \/ Reset(r) \/ Put(r) \/ Release(r)

Next ==
    \/ \E r \in Requests : Step(r)
    \/ \E c \in Ctxs : CollectPool(c)

Spec == Init /\ [][Next]_vars

-----------------------------------------------------------------------------
(* Properties.                                                             *)

PCs == {"idle", "match", "run", "escaped", "reset", "put", "done"}

\* Every reachable state has the types of the fields; a request has a context
\* exactly between Get and Put, and only contexts that exist are pooled.
TypeOK ==
    /\ pc \in [Requests -> PCs]
    /\ target \in [Requests -> Routes \cup Misses]
    /\ lease \in [Requests -> Ctxs \cup {NoCtx}]
    /\ pool \subseteq born
    /\ born \subseteq Ctxs
    /\ ctx \in [Ctxs -> Context]
    /\ \A r \in Requests : lease[r] = NoCtx <=> pc[r] \in {"idle", "done"}

\* A context is used by one request at a time, its goroutines after Escape
\* included, and never while it is in the pool.
Exclusive ==
    /\ \A r, s \in Requests :
         r # s /\ lease[r] # NoCtx => lease[r] # lease[s]
    /\ \A r \in Requests : lease[r] \notin pool
    /\ \A r \in Requests : lease[r] # NoCtx => lease[r] \in born

\* While handlers run, the context shows the data of their request: its
\* Request, its group, its Params when the route matched, and caches that are
\* empty or parsed from it.
OwnState ==
    \A r \in Requests : Using(r) =>
        /\ Own(r).req = r
        /\ Own(r).matched = (target[r] \in Routes)
        /\ Own(r).group = r
        /\ Own(r).matched => Own(r).params = r
        /\ Own(r).query \in {None, r}
        /\ Own(r).form \in {None, r}

\* A context in the pool has been reset, whichever way its request ended.
PooledClean ==
    \A c \in pool : /\ ~ctx[c].matched
                    /\ ctx[c].query = None /\ ctx[c].form = None

\* reset() leaves items alone, so GetValue can return what an earlier request
\* stored, but never what a request still being served stores.
ItemsNotShared ==
    \A r, s \in Requests :
        Using(r) /\ s \in Own(r).items => s = r \/ pc[s] = "done"

\* An escaped context is never filled with another request.
EscapeIsFinal ==
    [][\A c \in Ctxs : ctx[c].escape => /\ ctx[c].req' = ctx[c].req
                                        /\ ctx[c].escape']_vars

\* The inductive strengthening of OwnState: what the context looks like at the
\* steps of ServeHTTP at which no handler runs.
StepState ==
    /\ \A c \in Ctxs \ born : ctx[c] = NewContext
    /\ \A r \in Requests : pc[r] = "match" =>
          Own(r).req = r /\ Own(r).query = None /\ Own(r).form = None
    /\ \A r \in Requests : pc[r] = "put" =>
          ~Own(r).matched /\ Own(r).query = None /\ Own(r).form = None

\* ServeHTTP and the pool implement exclusive ownership.
Owners == INSTANCE Ownership WITH free <- pool, used <- born
OwnershipSpec == Owners!Spec
=============================================================================
