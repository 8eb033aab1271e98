---------------------------- MODULE EngineProofs ----------------------------
(* Proofs about Engine for every set of requests, contexts and routes.     *)
EXTENDS Engine, TLAPS

\* TypeOK and Exclusive are inductive together: Put gives back a context no
\* other request uses only because Get handed it to one request.
Inv == TypeOK /\ Exclusive

\* The zero Context is a Context.
LEMMA NewContextType == NewContext \in Context
BY EngineAssumption DEF NewContext, Context

\* The assignments of handlers and of reset() keep a context a context.
LEMMA ContextType ==
    ASSUME NEW x \in Context, NEW r \in Requests
    PROVE  /\ [x EXCEPT !.req = r] \in Context
           /\ [x EXCEPT !.items = x.items \cup {r}] \in Context
           /\ [x EXCEPT !.escape = TRUE] \in Context
           /\ [x EXCEPT !.query = x.req] \in Context
           /\ [x EXCEPT !.form = x.req] \in Context
           /\ Cleared(x) \in Context
<1>1. [x EXCEPT !.req = r] \in Context
  BY DEF Context
<1>2. [x EXCEPT !.items = x.items \cup {r}] \in Context
  BY DEF Context
<1>3. [x EXCEPT !.escape = TRUE] \in Context
  BY DEF Context
<1>4. [x EXCEPT !.query = x.req] \in Context
  BY DEF Context
<1>5. [x EXCEPT !.form = x.req] \in Context
  BY DEF Context
<1>6. Cleared(x) \in Context
  BY DEF Context, Cleared
<1>7. QED
  BY <1>1, <1>2, <1>3, <1>4, <1>5, <1>6

\* What Match makes of a context is a Context.
LEMMA MatchedType ==
    ASSUME NEW r \in Requests, NEW x \in Context, TypeOK
    PROVE  Matched(r, x) \in Context
BY EngineAssumption DEF Matched, Context, TypeOK

\* Every step preserves typing and exclusive use of contexts.
LEMMA InvStep == Inv /\ [Next]_vars => Inv'
<1> SUFFICES ASSUME Inv, [Next]_vars PROVE Inv'
  OBVIOUS
<1> USE EngineAssumption DEF Inv
<1>1. ASSUME NEW r \in Requests, NEW c \in Ctxs, Get(r, c) PROVE Inv'
  <2>1. ctx' \in [Ctxs -> Context]
    BY <1>1, ContextType DEF Get, TypeOK
  <2>2. TypeOK'
    BY <1>1, <2>1 DEF Get, Available, TypeOK, PCs
  <2>3. Exclusive'
    BY <1>1 DEF Get, Available, TypeOK, Exclusive
  <2>4. QED
    BY <2>2, <2>3
<1>2. ASSUME NEW r \in Requests, Match(r) PROVE Inv'
  <2>1. lease[r] \in Ctxs /\ ctx[lease[r]] \in Context
    BY <1>2 DEF Match, TypeOK
  <2> DEFINE m == Matched(r, Own(r))
             b == target[r] \in Routes
             x == [m EXCEPT !.matched = b, !.group = IF b THEN m.group ELSE r]
  <2>2. m \in Context
    BY <2>1, MatchedType DEF Own
  <2>3. b \in BOOLEAN
    OBVIOUS
  <2>4. ctx' = [ctx EXCEPT ![lease[r]] = x]
    BY <1>2 DEF Match
  <2> HIDE DEF m, b
  <2>5. x \in Context
    BY <2>2, <2>3 DEF Context
  <2> HIDE DEF x
  <2>6. ctx' \in [Ctxs -> Context]
    BY <2>1, <2>4, <2>5 DEF TypeOK
  <2>7. QED
    BY <1>2, <2>6 DEF Match, TypeOK, PCs, Exclusive
<1>3. ASSUME NEW r \in Requests,
             SetValue(r) \/ Query(r) \/ From(r) \/ Escape(r)
      PROVE  Inv'
  <2>1. lease[r] \in Ctxs /\ ctx[lease[r]] \in Context
    BY <1>3 DEF SetValue, Query, From, Escape, Using, TypeOK
  <2>2. PICK x \in Context : ctx' = [ctx EXCEPT ![lease[r]] = x]
    <3>1. CASE SetValue(r)
      BY <2>1, <3>1, ContextType DEF SetValue
    <3>2. CASE Query(r)
      BY <2>1, <3>2, ContextType DEF Query, Own
    <3>3. CASE From(r)
      BY <2>1, <3>3, ContextType DEF From, Own
    <3>4. CASE Escape(r)
      BY <2>1, <3>4, ContextType DEF Escape
    <3>5. QED
      BY <1>3, <3>1, <3>2, <3>3, <3>4
  <2>3. ctx' \in [Ctxs -> Context]
    BY <2>1, <2>2 DEF TypeOK
  <2>4. QED
    BY <1>3, <2>3 DEF SetValue, Query, From, Escape, TypeOK, Exclusive
<1>4. ASSUME NEW r \in Requests, Started(r) PROVE Inv'
  BY <1>4 DEF Started, TypeOK, PCs, Exclusive
<1>5. ASSUME NEW r \in Requests, PanicOut(r) \/ Release(r) PROVE Inv'
  BY <1>5 DEF PanicOut, Release, TypeOK, PCs, Exclusive
<1>6. ASSUME NEW r \in Requests, Reset(r) PROVE Inv'
  <2>1. lease[r] \in Ctxs /\ ctx[lease[r]] \in Context
    BY <1>6 DEF Reset, TypeOK
  <2>2. ctx' \in [Ctxs -> Context]
    BY <1>6, <2>1, ContextType DEF Reset, TypeOK
  <2>3. QED
    BY <1>6, <2>2 DEF Reset, TypeOK, PCs, Exclusive
<1>7. ASSUME NEW r \in Requests, Put(r) PROVE Inv'
  <2>1. TypeOK'
    BY <1>7 DEF Put, TypeOK, PCs, Exclusive
  <2>2. Exclusive'
    BY <1>7 DEF Put, TypeOK, Exclusive
  <2>3. QED
    BY <2>1, <2>2
<1>8. ASSUME NEW c \in Ctxs, CollectPool(c) PROVE Inv'
  BY <1>8 DEF CollectPool, TypeOK, Exclusive
<1>9. CASE UNCHANGED vars
  BY <1>9 DEF vars, TypeOK, Exclusive
<1>10. QED
  BY <1>1, <1>2, <1>3, <1>4, <1>5, <1>6, <1>7, <1>8, <1>9 DEF Next, Step

\* Typing and exclusive use hold before the first request.
LEMMA InvInit == Init => Inv
BY NewContextType, EngineAssumption DEF Init, Inv, TypeOK, PCs, Exclusive

\* A context is used by one request at a time and never while it is pooled,
\* for every number of concurrent requests and pooled contexts.
THEOREM ContextsAreExclusive == Spec => [](TypeOK /\ Exclusive)
<1>1. QED
  BY InvInit, InvStep, PTL DEF Spec, Inv

-----------------------------------------------------------------------------
(* Refinement.                                                             *)

\* ServeHTTP implements exclusive ownership: every step acquires, gives back
\* or abandons a context as Ownership allows, or changes no ownership.
THEOREM ServeImplementsOwnership == Spec => OwnershipSpec
<1>1. Init => Owners!Init
  BY DEF Init, Owners!Init
<1>2. Inv /\ [Next]_vars => [Owners!Next]_(Owners!vars)
  <2> SUFFICES ASSUME Inv, [Next]_vars
               PROVE  Owners!Next \/ UNCHANGED Owners!vars
    OBVIOUS
  <2>1. ASSUME NEW r \in Requests, NEW c \in Ctxs, Get(r, c)
        PROVE  Owners!Next
    <3>1. Owners!Acquire(r, c)
      BY <2>1 DEF Get, Available, Inv, TypeOK, Owners!Acquire
    <3>2. QED
      BY <3>1 DEF Owners!Next
  <2>2. ASSUME NEW r \in Requests,
               Match(r) \/ SetValue(r) \/ Query(r) \/ From(r) \/ Escape(r)
                 \/ Started(r) \/ Reset(r)
        PROVE  UNCHANGED Owners!vars
    BY <2>2 DEF Match, SetValue, Query, From, Escape, Started, Reset,
                Owners!vars
  <2>3. ASSUME NEW r \in Requests, PanicOut(r) \/ Release(r)
        PROVE  Owners!Next \/ UNCHANGED Owners!vars
    <3>1. lease[r] # NoCtx
      BY <2>3 DEF PanicOut, Release, Inv, TypeOK
    <3>2. Owners!Abandon(r) \/ UNCHANGED Owners!vars
      BY <2>3, <3>1 DEF PanicOut, Release, Owners!Abandon, Owners!vars
    <3>3. QED
      BY <3>2 DEF Owners!Next
  <2>4. ASSUME NEW r \in Requests, Put(r) PROVE Owners!Next
    <3>1. Owners!GiveBack(r)
      BY <2>4 DEF Put, Inv, TypeOK, Owners!GiveBack
    <3>2. QED
      BY <3>1 DEF Owners!Next
  <2>5. ASSUME NEW c \in Ctxs, CollectPool(c) PROVE Owners!Next
    <3>1. Owners!Collect(c)
      BY <2>5 DEF CollectPool, Owners!Collect
    <3>2. QED
      BY <3>1 DEF Owners!Next
  <2>6. CASE UNCHANGED vars
    BY <2>6 DEF vars, Owners!vars
  <2>7. QED
    BY <2>1, <2>2, <2>3, <2>4, <2>5, <2>6 DEF Next, Step
<1>3. Spec => []Inv
  BY ContextsAreExclusive DEF Inv
<1>4. QED
  BY <1>1, <1>2, <1>3, PTL DEF Spec, OwnershipSpec, Owners!Spec

-----------------------------------------------------------------------------
(* Whose data a context shows.                                             *)

StateInv == PooledClean /\ StepState /\ OwnState

\* A step of r on its own context leaves the contexts of the pool, of other
\* requests and those not created yet as they are.
LEMMA OthersKept ==
    ASSUME Inv, NEW r \in Requests, lease[r] # NoCtx,
           NEW x, ctx' = [ctx EXCEPT ![lease[r]] = x]
    PROVE  /\ ctx'[lease[r]] = x
           /\ \A c \in pool \cup (Ctxs \ born) : ctx'[c] = ctx[c]
           /\ \A s \in Requests :
                s # r /\ lease[s] # NoCtx => ctx'[lease[s]] = ctx[lease[s]]
BY EngineAssumption DEF Inv, TypeOK, Exclusive

\* The state invariant after a step of r that keeps lease, pool and born and
\* makes x of its context: only what x must satisfy at r's new place is left.
LEMMA OwnStep ==
    ASSUME Inv, StateInv, NEW r \in Requests, lease[r] # NoCtx,
           NEW x, ctx' = [ctx EXCEPT ![lease[r]] = x],
           NEW p, pc' = [pc EXCEPT ![r] = p],
           UNCHANGED <<target, lease, pool, born>>,
           p # "match",
           p = "put" => ~x.matched /\ x.query = None /\ x.form = None,
           p \in {"run", "escaped"} =>
               /\ x.req = r
               /\ x.matched = (target[r] \in Routes)
               /\ x.group = r
               /\ x.matched => x.params = r
               /\ x.query \in {None, r} /\ x.form \in {None, r}
    PROVE  StateInv'
<1>1. /\ ctx'[lease[r]] = x
      /\ \A c \in pool \cup (Ctxs \ born) : ctx'[c] = ctx[c]
      /\ \A s \in Requests :
           s # r /\ lease[s] # NoCtx => ctx'[lease[s]] = ctx[lease[s]]
  BY OthersKept
<1>2. /\ pc \in [Requests -> PCs]
      /\ \A s \in Requests : lease[s] = NoCtx <=> pc[s] \in {"idle", "done"}
  BY DEF Inv, TypeOK
<1>3. pc'[r] = p /\ \A s \in Requests : s # r => pc'[s] = pc[s]
  BY <1>2
<1>4. PooledClean'
  BY <1>1 DEF StateInv, PooledClean
<1>5. ASSUME NEW s \in Requests, pc'[s] = "match"
      PROVE  Own(s)'.req = s /\ Own(s)'.query = None /\ Own(s)'.form = None
  <2>1. s # r /\ pc[s] = "match" /\ lease[s] # NoCtx
    BY <1>2, <1>3, <1>5
  <2>2. QED
    BY <1>1, <2>1 DEF StateInv, StepState, Own
<1>6. ASSUME NEW s \in Requests, pc'[s] = "put"
      PROVE  ~Own(s)'.matched /\ Own(s)'.query = None /\ Own(s)'.form = None
  <2>1. CASE s = r
    BY <1>1, <1>3, <1>6, <2>1 DEF Own
  <2>2. CASE s # r
    <3>1. pc[s] = "put" /\ lease[s] # NoCtx
      BY <1>2, <1>3, <1>6, <2>2
    <3>2. QED
      BY <1>1, <2>2, <3>1 DEF StateInv, StepState, Own
  <2>3. QED
    BY <2>1, <2>2
<1>7. StepState'
  BY <1>1, <1>5, <1>6 DEF StateInv, StepState
<1>8. OwnState'
  <2> SUFFICES ASSUME NEW s \in Requests, Using(s)'
               PROVE  /\ Own(s)'.req = s
                      /\ Own(s)'.matched = (target'[s] \in Routes)
                      /\ Own(s)'.group = s
                      /\ Own(s)'.matched => Own(s)'.params = s
                      /\ Own(s)'.query \in {None, s}
                      /\ Own(s)'.form \in {None, s}
    BY DEF OwnState
  <2>1. CASE s = r
    <3>1. p \in {"run", "escaped"} /\ Own(s)' = x
      BY <1>1, <1>3, <2>1 DEF Using, Own
    <3>2. QED
      BY <2>1, <3>1
  <2>2. CASE s # r
    <3>1. Using(s) /\ lease[s] # NoCtx
      BY <1>2, <1>3, <2>2 DEF Using
    <3>2. Own(s)' = Own(s)
      BY <1>1, <2>2, <3>1 DEF Own
    <3>3. QED
      BY <3>1, <3>2 DEF StateInv, OwnState
  <2>3. QED
    BY <2>1, <2>2
<1>9. QED
  BY <1>4, <1>7, <1>8 DEF StateInv

\* Steps that change no context: a request that gets the place p has nothing
\* to show there, or already satisfies what p asks for.
LEMMA QuietStep ==
    ASSUME Inv, StateInv, UNCHANGED <<target, born, ctx>>,
           \A c \in pool' : c \in pool
                            \/ /\ ~ctx[c].matched
                               /\ ctx[c].query = None /\ ctx[c].form = None,
           \A s \in Requests :
              pc'[s] \in {"match", "put", "run", "escaped"} =>
                /\ lease'[s] = lease[s]
                /\ pc[s] = pc'[s] \/ (Using(s) /\ pc'[s] = "escaped")
    PROVE  StateInv'
<1>1. PooledClean'
  BY DEF StateInv, PooledClean
<1>2. StepState'
  BY DEF StateInv, StepState, Own
<1>3. OwnState'
  BY DEF StateInv, OwnState, Own, Using
<1>4. QED
  BY <1>1, <1>2, <1>3 DEF StateInv

\* Every step preserves what the contexts show of their requests.
LEMMA StateStep == Inv /\ StateInv /\ [Next]_vars => StateInv'
<1> SUFFICES ASSUME Inv, StateInv, [Next]_vars PROVE StateInv'
  OBVIOUS
<1>0. /\ lease \in [Requests -> Ctxs \cup {NoCtx}]
      /\ pc \in [Requests -> PCs] /\ ctx \in [Ctxs -> Context]
      /\ \A r \in Requests : lease[r] = NoCtx <=> pc[r] \in {"idle", "done"}
  BY DEF Inv, TypeOK
<1>1. ASSUME NEW r \in Requests, NEW c \in Ctxs, Get(r, c) PROVE StateInv'
  <2>1. /\ ~ctx[c].matched /\ ctx[c].query = None /\ ctx[c].form = None
    BY <1>1 DEF Get, Available, StateInv, PooledClean, StepState, NewContext
  <2>2. \A s \in Requests : lease[s] # NoCtx => lease[s] # c /\ lease'[s] = lease[s]
    BY <1>0, <1>1, EngineAssumption DEF Get, Available, Inv, Exclusive
  <2>3. /\ ctx'[c].req = r /\ ctx'[c].query = None /\ ctx'[c].form = None
        /\ \A d \in Ctxs : d # c => ctx'[d] = ctx[d]
    BY <1>0, <1>1, <2>1 DEF Get, Context
  <2>4. /\ lease'[r] = c /\ pc'[r] = "match" /\ target' = target
        /\ pool' = pool \ {c} /\ born' = born \cup {c}
        /\ \A s \in Requests : s # r => pc'[s] = pc[s]
    BY <1>0, <1>1 DEF Get
  <2>5. ASSUME NEW s \in Requests, s # r, pc[s] \notin {"idle", "done"}
        PROVE  Own(s)' = Own(s)
    BY <1>0, <2>2, <2>3, <2>5 DEF Own
  <2>6. PooledClean'
    BY <2>3, <2>4 DEF StateInv, PooledClean, Inv, TypeOK
  <2>7. StepState'
    BY <2>3, <2>4, <2>5 DEF StateInv, StepState, Own
  <2>8. OwnState'
    BY <2>4, <2>5 DEF StateInv, OwnState, Using
  <2>9. QED
    BY <2>6, <2>7, <2>8 DEF StateInv
<1>2. ASSUME NEW r \in Requests, Match(r) PROVE StateInv'
  <2> DEFINE m == Matched(r, Own(r))
             b == target[r] \in Routes
             x == [m EXCEPT !.matched = b, !.group = IF b THEN m.group ELSE r]
  <2>1. /\ lease[r] # NoCtx /\ Own(r) \in Context
        /\ Own(r).req = r /\ Own(r).query = None /\ Own(r).form = None
    BY <1>0, <1>2, EngineAssumption DEF Match, StateInv, StepState, Own
  <2>2. /\ m.req = r /\ m.query = None /\ m.form = None /\ m \in Context
        /\ b => m.params = r /\ m.group = r
    <3>0. m \in Context
      BY <2>1, MatchedType DEF Inv
    <3>1. CASE target[r] = "nomethod"
      <4>1. m = Own(r) /\ ~b
        BY <3>1, EngineAssumption DEF Matched
      <4>2. QED
        BY <2>1, <3>0, <4>1
    <3>2. CASE target[r] = "miss"
      <4>1. /\ m = [Own(r) EXCEPT !.fullPath = LastRoute, !.params = r,
                                  !.group = None]
            /\ ~b
        BY <3>2, EngineAssumption DEF Matched
      <4>2. m.req = r /\ m.query = None /\ m.form = None
        BY <2>1, <4>1 DEF Context
      <4>3. QED
        BY <3>0, <4>1, <4>2
    <3>3. CASE target[r] \notin Misses
      <4>1. m = [Own(r) EXCEPT !.fullPath = LastRoute, !.params = r,
                               !.group = r]
        BY <3>3 DEF Matched, Misses
      <4>2. /\ m.req = r /\ m.query = None /\ m.form = None
            /\ m.params = r /\ m.group = r
        BY <2>1, <4>1 DEF Context
      <4>3. QED
        BY <3>0, <4>2
    <3>4. QED
      BY <3>1, <3>2, <3>3 DEF Misses
  <2>3. /\ ctx' = [ctx EXCEPT ![lease[r]] = x]
        /\ pc' = [pc EXCEPT ![r] = "run"]
        /\ UNCHANGED <<target, lease, pool, born>>
    BY <1>2 DEF Match
  <2> HIDE DEF m, b
  <2>4. /\ x.req = r /\ x.query = None /\ x.form = None
        /\ x.matched = b /\ x.group = r
        /\ x.matched => x.params = r
    BY <2>2 DEF Context
  <2> HIDE DEF x
  <2>5. QED
    BY <2>1, <2>3, <2>4, OwnStep DEF b
<1>3. ASSUME NEW r \in Requests,
             SetValue(r) \/ Query(r) \/ From(r) \/ Escape(r)
      PROVE  StateInv'
  <2>1. /\ lease[r] # NoCtx /\ Own(r) \in Context /\ Using(r)
        /\ pc' = [pc EXCEPT ![r] = pc[r]]
        /\ UNCHANGED <<target, lease, pool, born>>
    BY <1>0, <1>3, EngineAssumption
       DEF SetValue, Query, From, Escape, Using, Own
  <2>2. /\ Own(r).req = r
        /\ Own(r).matched = (target[r] \in Routes)
        /\ Own(r).group = r
        /\ Own(r).matched => Own(r).params = r
        /\ Own(r).query \in {None, r} /\ Own(r).form \in {None, r}
    BY <2>1 DEF StateInv, OwnState
  <2>3. PICK x : /\ ctx' = [ctx EXCEPT ![lease[r]] = x]
                 /\ x.req = r
                 /\ x.matched = (target[r] \in Routes)
                 /\ x.group = r
                 /\ x.matched => x.params = r
                 /\ x.query \in {None, r} /\ x.form \in {None, r}
    <3>1. CASE SetValue(r)
      <4> DEFINE x == [Own(r) EXCEPT !.items = @ \cup {r}]
      <4>1. ctx' = [ctx EXCEPT ![lease[r]] = x]
        BY <3>1 DEF SetValue, Own
      <4>2. /\ x.req = r
            /\ x.matched = (target[r] \in Routes)
            /\ x.group = r
            /\ x.matched => x.params = r
            /\ x.query \in {None, r} /\ x.form \in {None, r}
        BY <2>1, <2>2 DEF Context
      <4> HIDE DEF x
      <4>3. QED
        BY <4>1, <4>2
    <3>2. CASE Query(r)
      <4> DEFINE x == [Own(r) EXCEPT !.query = Own(r).req]
      <4>1. ctx' = [ctx EXCEPT ![lease[r]] = x]
        BY <3>2 DEF Query, Own
      <4>2. /\ x.req = r
            /\ x.matched = (target[r] \in Routes)
            /\ x.group = r
            /\ x.matched => x.params = r
            /\ x.query \in {None, r} /\ x.form \in {None, r}
        BY <2>1, <2>2 DEF Context
      <4> HIDE DEF x
      <4>3. QED
        BY <4>1, <4>2
    <3>3. CASE From(r)
      <4> DEFINE x == [Own(r) EXCEPT !.form = Own(r).req]
      <4>1. ctx' = [ctx EXCEPT ![lease[r]] = x]
        BY <3>3 DEF From, Own
      <4>2. /\ x.req = r
            /\ x.matched = (target[r] \in Routes)
            /\ x.group = r
            /\ x.matched => x.params = r
            /\ x.query \in {None, r} /\ x.form \in {None, r}
        BY <2>1, <2>2 DEF Context
      <4> HIDE DEF x
      <4>3. QED
        BY <4>1, <4>2
    <3>4. CASE Escape(r)
      <4> DEFINE x == [Own(r) EXCEPT !.escape = TRUE]
      <4>1. ctx' = [ctx EXCEPT ![lease[r]] = x]
        BY <3>4 DEF Escape, Own
      <4>2. /\ x.req = r
            /\ x.matched = (target[r] \in Routes)
            /\ x.group = r
            /\ x.matched => x.params = r
            /\ x.query \in {None, r} /\ x.form \in {None, r}
        BY <2>1, <2>2 DEF Context
      <4> HIDE DEF x
      <4>3. QED
        BY <4>1, <4>2
    <3>5. QED
      BY <1>3, <3>1, <3>2, <3>3, <3>4
  <2>4. pc[r] # "match" /\ pc[r] # "put"
    BY <2>1 DEF Using
  <2>5. QED
    BY <2>1, <2>3, <2>4, OwnStep
<1>4. ASSUME NEW r \in Requests, Started(r) \/ PanicOut(r) \/ Release(r)
      PROVE  StateInv'
  BY <1>0, <1>4, QuietStep DEF Started, PanicOut, Release, Using
<1>5. ASSUME NEW r \in Requests, Reset(r) PROVE StateInv'
  <2>1. lease[r] # NoCtx /\ Own(r) \in Context
    BY <1>0, <1>5, EngineAssumption DEF Reset, Own
  <2> DEFINE x == Cleared(Own(r))
  <2>2. ~x.matched /\ x.query = None /\ x.form = None
    BY <2>1 DEF Cleared, Context
  <2>3. /\ ctx' = [ctx EXCEPT ![lease[r]] = x]
        /\ pc' = [pc EXCEPT ![r] = "put"]
        /\ UNCHANGED <<target, lease, pool, born>>
    BY <1>5 DEF Reset, Own
  <2> HIDE DEF x
  <2>4. QED
    BY <2>1, <2>2, <2>3, OwnStep
<1>6. ASSUME NEW r \in Requests, Put(r) PROVE StateInv'
  <2>1. ~Own(r).matched /\ Own(r).query = None /\ Own(r).form = None
    BY <1>6 DEF Put, StateInv, StepState
  <2>2. QED
    BY <1>0, <1>6, <2>1, QuietStep DEF Put, Own
<1>7. ASSUME NEW c \in Ctxs, CollectPool(c) PROVE StateInv'
  BY <1>7, QuietStep DEF CollectPool
<1>8. CASE UNCHANGED vars
  BY <1>8, QuietStep DEF vars
<1>9. QED
  BY <1>1, <1>2, <1>3, <1>4, <1>5, <1>6, <1>7, <1>8 DEF Next, Step

\* StateInv holds in every reachable state.
LEMMA StateHolds == Spec => [](Inv /\ StateInv)
<1>1. Init => StateInv
  BY DEF Init, StateInv, PooledClean, StepState, OwnState, Using
<1>2. Spec => []Inv
  BY ContextsAreExclusive DEF Inv
<1>3. QED
  BY <1>1, <1>2, StateStep, PTL DEF Spec

\* Handlers only ever see the request, group, Params and caches of their own
\* request, although contexts are reused and reset() clears only some fields.
THEOREM ContextShowsOwnRequest == Spec => []OwnState
<1>1. StateInv => OwnState
  BY DEF StateInv
<1>2. QED
  BY <1>1, StateHolds, PTL

\* Whichever way its request ended, a context in the pool has been reset:
\* matched is false and no cache is left in it.
THEOREM PoolHoldsCleanContexts == Spec => []PooledClean
<1>1. StateInv => PooledClean
  BY DEF StateInv
<1>2. QED
  BY <1>1, StateHolds, PTL

-----------------------------------------------------------------------------
(* What Escape and items leave behind.                                     *)

\* A context marked by Escape has been created, is never pooled, and a request
\* that has it is running its handlers or has escaped with it.  An item is in
\* the context of the request that stored it until that request is done.
EscapeInv ==
    \A c \in Ctxs : ctx[c].escape =>
        /\ c \in born /\ c \notin pool
        /\ \A r \in Requests : lease[r] = c => Using(r)

ItemsInv ==
    \A c \in Ctxs : \A s \in ctx[c].items : pc[s] = "done" \/ lease[s] = c

TraceInv == EscapeInv /\ ItemsInv

\* The steps that rewrite the context of r in place leave its Request and a set
\* escape flag alone, set the flag only while handlers run, and add no item but
\* r's own, while handlers run.
LEMMA OwnFields ==
    ASSUME Inv, NEW r \in Requests,
           Match(r) \/ SetValue(r) \/ Query(r) \/ From(r) \/ Escape(r) \/ Reset(r)
    PROVE  /\ lease[r] \in Ctxs /\ ctx[lease[r]] \in Context
           /\ UNCHANGED <<target, lease, pool, born>>
           /\ ctx' = [ctx EXCEPT ![lease[r]] = ctx'[lease[r]]]
           /\ ctx'[lease[r]].req = ctx[lease[r]].req
           /\ ctx[lease[r]].escape => ctx'[lease[r]].escape
           /\ ctx'[lease[r]].escape =>
                 ctx[lease[r]].escape \/ (pc[r] = "run" /\ pc' = pc)
           /\ ctx'[lease[r]].items \subseteq ctx[lease[r]].items \cup {r}
<1> DEFINE y == ctx[lease[r]]
           Kept(x) == /\ x.req = y.req
                      /\ y.escape => x.escape
                      /\ x.escape => y.escape \/ (pc[r] = "run" /\ pc' = pc)
                      /\ x.items \subseteq y.items \cup {r}
<1>1. lease[r] \in Ctxs /\ y \in Context /\ ctx \in [Ctxs -> Context]
  BY EngineAssumption
     DEF Inv, TypeOK, Match, SetValue, Query, From, Escape, Reset, Using
<1>2. PICK x : ctx' = [ctx EXCEPT ![lease[r]] = x] /\ Kept(x)
  <2>1. CASE Match(r)
    <3> DEFINE m == Matched(r, y)
               b == target[r] \in Routes
               x == [m EXCEPT !.matched = b,
                              !.group = IF b THEN m.group ELSE r]
    <3>1. m \in Context
      BY <1>1, MatchedType DEF Inv
    <3>2. m.req = y.req /\ m.escape = y.escape /\ m.items = y.items
      BY <1>1 DEF Matched, Context
    <3>3. ctx' = [ctx EXCEPT ![lease[r]] = x]
      BY <2>1 DEF Match, Own
    <3> HIDE DEF m, b
    <3>4. x.req = m.req /\ x.escape = m.escape /\ x.items = m.items
      BY <3>1 DEF Context
    <3> HIDE DEF x
    <3>5. QED
      BY <3>2, <3>3, <3>4
  <2>2. CASE SetValue(r)
    <3> DEFINE x == [y EXCEPT !.items = @ \cup {r}]
    <3>1. ctx' = [ctx EXCEPT ![lease[r]] = x]
      BY <2>2 DEF SetValue
    <3>2. Kept(x)
      BY <1>1 DEF Context
    <3> HIDE DEF x
    <3>3. QED
      BY <3>1, <3>2
  <2>3. CASE Query(r)
    <3> DEFINE x == [y EXCEPT !.query = y.req]
    <3>1. ctx' = [ctx EXCEPT ![lease[r]] = x]
      BY <2>3 DEF Query, Own
    <3>2. Kept(x)
      BY <1>1 DEF Context
    <3> HIDE DEF x
    <3>3. QED
      BY <3>1, <3>2
  <2>4. CASE From(r)
    <3> DEFINE x == [y EXCEPT !.form = y.req]
    <3>1. ctx' = [ctx EXCEPT ![lease[r]] = x]
      BY <2>4 DEF From, Own
    <3>2. Kept(x)
      BY <1>1 DEF Context
    <3> HIDE DEF x
    <3>3. QED
      BY <3>1, <3>2
  <2>5. CASE Escape(r)
    <3> DEFINE x == [y EXCEPT !.escape = TRUE]
    <3>1. ctx' = [ctx EXCEPT ![lease[r]] = x] /\ pc[r] = "run" /\ pc' = pc
      BY <2>5 DEF Escape
    <3>2. Kept(x)
      BY <1>1, <3>1 DEF Context
    <3> HIDE DEF x
    <3>3. QED
      BY <3>1, <3>2
  <2>6. CASE Reset(r)
    <3> DEFINE x == Cleared(y)
    <3>1. ctx' = [ctx EXCEPT ![lease[r]] = x]
      BY <2>6 DEF Reset
    <3>2. Kept(x)
      BY <1>1 DEF Context, Cleared
    <3> HIDE DEF x
    <3>3. QED
      BY <3>1, <3>2
  <2>7. QED
    BY <2>1, <2>2, <2>3, <2>4, <2>5, <2>6
<1>3. ctx'[lease[r]] = x
  BY <1>1, <1>2
<1>4. UNCHANGED <<target, lease, pool, born>>
  BY DEF Match, SetValue, Query, From, Escape, Reset
<1>5. QED
  BY <1>1, <1>2, <1>3, <1>4

\* Every step preserves TraceInv.
LEMMA TraceStep ==
    Inv /\ StateInv /\ TraceInv /\ [Next]_vars => TraceInv'
<1> SUFFICES ASSUME Inv, StateInv, TraceInv, [Next]_vars PROVE TraceInv'
  OBVIOUS
<1>0. /\ lease \in [Requests -> Ctxs \cup {NoCtx}]
      /\ pc \in [Requests -> PCs] /\ ctx \in [Ctxs -> Context]
      /\ \A r \in Requests : lease[r] = NoCtx <=> pc[r] \in {"idle", "done"}
      /\ \A c \in Ctxs : ctx[c].items \subseteq Requests
  BY DEF Inv, TypeOK, Context
<1>1. ASSUME NEW r \in Requests, NEW c \in Ctxs, Get(r, c) PROVE TraceInv'
  <2>1. ~ctx[c].escape
    BY <1>1 DEF Get, Available, TraceInv, EscapeInv, StateInv, StepState,
                NewContext
  <2>2. /\ \A d \in Ctxs : /\ ctx'[d].escape = ctx[d].escape
                           /\ ctx'[d].items = ctx[d].items
        /\ pool' \subseteq pool /\ born \subseteq born'
        /\ lease'[r] = c
        /\ \A s \in Requests : s # r => lease'[s] = lease[s] /\ pc'[s] = pc[s]
    BY <1>0, <1>1 DEF Get, Context
  <2>3. EscapeInv'
    BY <1>0, <2>1, <2>2 DEF TraceInv, EscapeInv, Using
  <2>4. \A d \in Ctxs : r \notin ctx[d].items
    BY <1>0, <1>1, EngineAssumption DEF Get, TraceInv, ItemsInv
  <2>5. ItemsInv'
    BY <1>0, <2>2, <2>4 DEF TraceInv, ItemsInv
  <2>6. QED
    BY <2>3, <2>5 DEF TraceInv
<1>2. ASSUME NEW r \in Requests,
             Match(r) \/ SetValue(r) \/ Query(r) \/ From(r) \/ Escape(r)
               \/ Reset(r)
      PROVE  TraceInv'
  <2> DEFINE x == ctx'[lease[r]]
  <2>1. /\ lease[r] \in Ctxs /\ UNCHANGED <<lease, pool, born>>
        /\ \A c \in Ctxs : c # lease[r] => ctx'[c] = ctx[c]
        /\ x.escape => ctx[lease[r]].escape \/ (pc[r] = "run" /\ pc' = pc)
        /\ x.items \subseteq ctx[lease[r]].items \cup {r}
    BY <1>0, <1>2, OwnFields
  <2>2. /\ \A s \in Requests : s # r => pc'[s] = pc[s]
        /\ pc[r] # "done" /\ pc'[r] # "done"
        /\ Using(r) => Using(r)' \/ ~ctx[lease[r]].escape
        /\ ~Using(r) => ~ctx[lease[r]].escape
    BY <1>0, <1>2, <2>1
       DEF Match, SetValue, Query, From, Escape, Reset, Using, TraceInv,
           EscapeInv
  <2>3. \A s \in Requests : s # r => lease[s] # lease[r]
    BY <2>1, EngineAssumption DEF Inv, Exclusive
  <2>4. EscapeInv'
    <3> SUFFICES ASSUME NEW c \in Ctxs, ctx'[c].escape
                 PROVE  /\ c \in born /\ c \notin pool
                        /\ \A s \in Requests : lease[s] = c => Using(s)'
      BY <2>1 DEF EscapeInv
    <3>1. CASE c # lease[r]
      <4>1. ctx[c].escape
        BY <2>1, <3>1
      <4>2. /\ c \in born /\ c \notin pool
            /\ \A s \in Requests : lease[s] = c => Using(s)
        BY <4>1 DEF TraceInv, EscapeInv
      <4>3. QED
        BY <2>2, <3>1, <4>2 DEF Using
    <3>2. CASE c = lease[r]
      <4>1. c \in born /\ c \notin pool
        BY <2>1, <3>2, EngineAssumption DEF Inv, Exclusive
      <4>2. Using(r)'
        BY <2>1, <2>2, <3>2 DEF Using
      <4>3. QED
        BY <2>3, <3>2, <4>1, <4>2
    <3>3. QED
      BY <3>1, <3>2
  <2>5. ItemsInv'
    <3> SUFFICES ASSUME NEW c \in Ctxs, NEW s \in ctx'[c].items
                 PROVE  pc'[s] = "done" \/ lease[s] = c
      BY <2>1 DEF ItemsInv
    <3>1. s \in ctx[c].items \/ (c = lease[r] /\ s = r)
      BY <2>1
    <3>2. QED
      BY <1>0, <2>2, <3>1 DEF TraceInv, ItemsInv
  <2>6. QED
    BY <2>4, <2>5 DEF TraceInv
<1>3. ASSUME NEW r \in Requests, Started(r) PROVE TraceInv'
  <2>1. EscapeInv'
    BY <1>0, <1>3 DEF Started, TraceInv, EscapeInv, Using, Own
  <2>2. ItemsInv'
    BY <1>0, <1>3 DEF Started, TraceInv, ItemsInv
  <2>3. QED
    BY <2>1, <2>2 DEF TraceInv
<1>4. ASSUME NEW r \in Requests, PanicOut(r) \/ Put(r) \/ Release(r)
      PROVE  TraceInv'
  <2>1. pc[r] = "put" => ~ctx[lease[r]].escape
    BY <1>0 DEF TraceInv, EscapeInv, Using
  <2>2. EscapeInv'
    BY <1>0, <1>4, <2>1, EngineAssumption
       DEF PanicOut, Put, Release, TraceInv, EscapeInv, Using, Own
  <2>3. ItemsInv'
    BY <1>0, <1>4 DEF PanicOut, Put, Release, TraceInv, ItemsInv
  <2>4. QED
    BY <2>2, <2>3 DEF TraceInv
<1>5. ASSUME NEW c \in Ctxs, CollectPool(c) PROVE TraceInv'
  BY <1>5 DEF CollectPool, TraceInv, EscapeInv, ItemsInv, Using
<1>6. CASE UNCHANGED vars
  BY <1>6 DEF vars, TraceInv, EscapeInv, ItemsInv, Using
<1>7. QED
  BY <1>1, <1>2, <1>3, <1>4, <1>5, <1>6 DEF Next, Step

\* TraceInv holds in every reachable state.
LEMMA TraceHolds == Spec => [](Inv /\ StateInv /\ TraceInv)
<1>1. Init => TraceInv
  BY DEF Init, TraceInv, EscapeInv, ItemsInv, NewContext
<1>2. QED
  BY <1>1, StateHolds, TraceStep, PTL DEF Spec

\* reset() leaves items in the context, yet GetValue never returns what a
\* request still being served has stored: only r's own values and left-overs.
THEOREM ItemsStayWithTheirRequest == Spec => []ItemsNotShared
<1>1. Inv /\ TraceInv => ItemsNotShared
  <2> SUFFICES ASSUME Inv, TraceInv, NEW r \in Requests, NEW s \in Requests,
                      Using(r), s \in Own(r).items
               PROVE  s = r \/ pc[s] = "done"
    BY DEF ItemsNotShared
  <2>1. lease[r] \in Ctxs /\ lease[r] # NoCtx
    BY EngineAssumption DEF Inv, TypeOK, Using
  <2>2. pc[s] = "done" \/ lease[s] = lease[r]
    BY <2>1 DEF TraceInv, ItemsInv, Own
  <2>3. QED
    BY <2>1, <2>2 DEF Inv, Exclusive
<1>2. QED
  BY <1>1, TraceHolds, PTL

\* Once Escape is called, no later ServeHTTP fills the context with another
\* request and nothing clears the flag, however long its goroutines run.
THEOREM EscapedContextKeepsRequest == Spec => EscapeIsFinal
<1> DEFINE Final == \A c \in Ctxs : ctx[c].escape =>
                       /\ ctx[c].req' = ctx[c].req
                       /\ ctx[c].escape'
<1>1. Inv /\ StateInv /\ TraceInv /\ [Next]_vars => [Final]_vars
  <2> SUFFICES ASSUME Inv, StateInv, TraceInv, [Next]_vars,
                      NEW c \in Ctxs, ctx[c].escape
               PROVE  ctx'[c].req = ctx[c].req /\ ctx'[c].escape
    OBVIOUS
  <2>0. ctx \in [Ctxs -> Context]
    BY DEF Inv, TypeOK
  <2>1. ASSUME NEW r \in Requests, NEW d \in Ctxs, Get(r, d)
        PROVE  ctx'[c] = ctx[c]
    <3>1. d # c
      BY <2>1 DEF Get, Available, TraceInv, EscapeInv
    <3>2. QED
      BY <2>0, <2>1, <3>1 DEF Get
  <2>2. ASSUME NEW r \in Requests,
               Match(r) \/ SetValue(r) \/ Query(r) \/ From(r) \/ Escape(r)
                 \/ Reset(r)
        PROVE  ctx'[c].req = ctx[c].req /\ ctx'[c].escape
    <3>1. /\ ctx' = [ctx EXCEPT ![lease[r]] = ctx'[lease[r]]]
          /\ ctx'[lease[r]].req = ctx[lease[r]].req
          /\ ctx[lease[r]].escape => ctx'[lease[r]].escape
      BY <2>2, OwnFields
    <3>2. CASE c = lease[r]
      BY <3>1, <3>2
    <3>3. CASE c # lease[r]
      BY <2>0, <3>1, <3>3
    <3>4. QED
      BY <3>2, <3>3
  <2>3. CASE \/ \E r \in Requests : Started(r) \/ PanicOut(r) \/ Put(r) \/ Release(r)
             \/ \E d \in Ctxs : CollectPool(d)
             \/ UNCHANGED vars
    <3>1. ctx' = ctx
      BY <2>3 DEF Started, PanicOut, Put, Release, CollectPool, vars
    <3>2. QED
      BY <3>1
  <2>4. QED
    BY <2>1, <2>2, <2>3 DEF Next, Step
<1>2. QED
  BY <1>1, TraceHolds, PTL DEF Spec, EscapeIsFinal

=============================================================================
