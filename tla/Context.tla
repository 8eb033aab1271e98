------------------------------ MODULE Context ------------------------------
(***************************************************************************)
(* One *Context serving request after request: the handler chain driven by *)
(* Next, Abort and recovered panics (core/context.go, core/handler.go),    *)
(* the response state kept in status/written, and the gzip middleware      *)
(* (core/zip/gzip.go), whose deferred Close both sends bytes and looks up  *)
(* a logger through the chain index.                                       *)
(*                                                                         *)
(* The Go call stack is explicit: one frame per active call of Next, with  *)
(* the handler that call is running.  Data (bodies, headers, names) is     *)
(* abstracted to the first status line sent and to which writes are lost.  *)
(***************************************************************************)
EXTENDS Integers, Sequences

CONSTANTS IndexMod,  \* size of the type of index: 2^8, it is a uint8
          MaxGroup,  \* bound: longest handler group of a request
          MaxNext,   \* bound: Next calls made by plain handlers per request
          Codes,     \* status codes handlers set and renderers send
          NoBody     \* codes whose response carries no body

ASSUME ContextAssumption ==
    /\ IndexMod \in Nat /\ IndexMod > 1
    /\ MaxGroup \in Nat
    /\ MaxNext \in Nat
    /\ Codes \subseteq Nat \ {0}
    /\ NoBody \subseteq Codes

VARIABLES
    group,       \* kinds of the handlers matched for the request
    index,       \* Context.index, a uint8
    abortIndex,  \* Context.abortIndex, a uint8; 0 = not aborted
    status,      \* Context.status; 0 = not set
    written,     \* Context.written
    stack,       \* active Next calls, innermost last
    phase,       \* where ServeHTTP is
    panicking,   \* a Go panic is unwinding the stack
    hdr,         \* net/http: status line sent, 0 = none yet
    zip          \* the gzip writer in ctx.ResponseWriter

\* History of the current request, for the properties only.
VARIABLES
    calls,       \* positions in the order their handlers were called
    extra,       \* Next calls made by plain handlers and recovery callbacks
    lastSet,     \* last code given to SetStatus / AbortWithStatus
    output,      \* a handler rendered or wrote something
    abortBy,     \* position of the handler that aborted last, 0 = none
    abortAt,     \* Len(calls) at the first Abort, 0 = none
    recovered,   \* a panic was recovered by RecoverHandler
    lostBy,      \* last handler whose body went into a closed gzip writer
    refused      \* net/http refused a rendered body because of the status

chain == <<group, index, abortIndex>>
resp  == <<status, written, hdr, zip>>
ctl   == <<stack, phase, panicking>>
hist  == <<calls, extra, lastSet, output, abortBy, abortAt, recovered, lostBy,
           refused>>
vars  == <<chain, resp, ctl, hist>>

-----------------------------------------------------------------------------
(* Handlers.  "plain" stands for any user handler, "recover" for the       *)
(* closure RecoverHandler returns, "gzip" for the one GZip returns.        *)

Kinds == {"plain", "recover", "gzip"}

Groups ==
    {g \in UNION {[1..n -> Kinds] : n \in 0..MaxGroup} :
        \A i, j \in DOMAIN g : g[i] = "gzip" /\ g[j] = "gzip" => i = j}

Frame == [pos : 0..MaxGroup, pc : {"loop", "run", "rec"}, next : BOOLEAN]

\* A Next call that has just incremented the index and is at its loop test.
NewFrame == [pos |-> 0, pc |-> "loop", next |-> FALSE]

Top   == stack[Len(stack)]
Below == SubSeq(stack, 1, Len(stack) - 1)

\* Mutant: index is an int and does not wrap around.
IncWide(i) == i + 1

\* uint8 arithmetic: c.index++, c.index-1 and uint8(len(c.group)).
Inc(i)   == IF i + 1 = IndexMod THEN 0 ELSE i + 1
Dec(i)   == IF i = 0 THEN IndexMod - 1 ELSE i - 1
Trunc(n) == IF n < IndexMod THEN n ELSE n % IndexMod

\* c.group[c.index-1] does not panic.
InRange == Dec(index) < Len(group)

IsAborted == abortIndex # 0

Active == phase = "serve" /\ stack # <<>> /\ ~panicking
AtLoop == Active /\ Top.pc = "loop"
AtRun  == Active /\ Top.pc # "loop"

\* User code is on top of the stack: a plain handler or a recovery callback.
UserCode == AtRun /\ (group[Top.pos] = "plain" \/ Top.pc = "rec")

\* A middleware of the framework is on top of the stack.
Middleware(kind) == AtRun /\ group[Top.pos] = kind /\ Top.pc = "run"

-----------------------------------------------------------------------------
(* Context.Next: the call, the loop test, the handler call and the return. *)

PushNext ==
    /\ index' = Inc(index)
    /\ stack' = Append([stack EXCEPT ![Len(stack)].next = TRUE], NewFrame)

\* Mutant: Next forgets IsAborted.
LoopCondNoAbort == index <= Trunc(Len(group))

LoopCond == index <= Trunc(Len(group)) /\ ~IsAborted

\* Mutant: the index is incremented before the handler is called.
CallHandlerIncFirst ==
    /\ AtLoop
    /\ LoopCond
    /\ InRange
    /\ index' = Inc(index)
    /\ calls' = Append(calls, Dec(index) + 1)
    /\ stack' = [stack EXCEPT ![Len(stack)] =
                    [pos |-> Dec(index) + 1, pc |-> "run", next |-> FALSE]]
    /\ UNCHANGED <<group, abortIndex, resp, phase, panicking, extra, lastSet,
                   output, abortBy, abortAt, recovered, lostBy, refused>>

\* c.group[c.index-1].HandleFunc(c)
CallHandler ==
    /\ AtLoop
    /\ LoopCond
    /\ InRange
    /\ calls' = Append(calls, Dec(index) + 1)
    /\ stack' = [stack EXCEPT ![Len(stack)] =
                    [pos |-> Dec(index) + 1, pc |-> "run", next |-> FALSE]]
    /\ UNCHANGED <<chain, resp, phase, panicking, extra, lastSet, output,
                   abortBy, abortAt, recovered, lostBy, refused>>

\* The same line when index-1 wrapped around: index out of range.
LoopPanic ==
    /\ AtLoop
    /\ LoopCond
    /\ ~InRange
    /\ panicking' = TRUE
    /\ UNCHANGED <<chain, resp, stack, phase, hist>>

\* Next returns to the handler that called it, or to start().
ExitLoop ==
    /\ AtLoop
    /\ ~LoopCond
    /\ stack' = Below
    /\ phase' = IF Below = <<>> THEN "finish" ELSE phase
    /\ UNCHANGED <<chain, resp, panicking, hist>>

\* Mutant: the loop forgets c.index++ after a handler.
BackToLoopNoInc ==
    /\ UNCHANGED index
    /\ stack' = [stack EXCEPT ![Len(stack)] = NewFrame]

\* A handler returns into the loop of the Next call running it; c.index++.
BackToLoop ==
    /\ index' = Inc(index)
    /\ stack' = [stack EXCEPT ![Len(stack)] = NewFrame]

\* ctx.Next() in a user handler or in a recovery callback.
HandlerNext ==
    /\ UserCode
    /\ extra < MaxNext
    /\ extra' = extra + 1
    /\ PushNext
    /\ UNCHANGED <<group, abortIndex, resp, phase, panicking, calls, lastSet,
                   output, abortBy, abortAt, recovered, lostBy, refused>>

\* A user handler or a recovery callback returns.
Return ==
    /\ UserCode
    /\ BackToLoop
    /\ UNCHANGED <<group, abortIndex, resp, phase, panicking, hist>>

\* RecoverHandler's closure calls ctx.Next() once, then returns.
RecoverNext ==
    /\ Middleware("recover")
    /\ ~Top.next
    /\ PushNext
    /\ UNCHANGED <<group, abortIndex, resp, phase, panicking, hist>>

\* Mutant: RecoverHandler calls ctx.Next() in a loop.
RecoverReturnRetry ==
    /\ Middleware("recover")
    /\ Top.next
    /\ PushNext
    /\ UNCHANGED <<group, abortIndex, resp, phase, panicking, hist>>

RecoverReturn ==
    /\ Middleware("recover")
    /\ Top.next
    /\ BackToLoop
    /\ UNCHANGED <<group, abortIndex, resp, phase, panicking, hist>>

-----------------------------------------------------------------------------
(* net/http's ResponseWriter, external: only the first status line counts, *)
(* and the first byte of a body sends 200 when none was sent.              *)

WriteHeader(h, code) == IF h # 0 \/ code = 0 THEN h ELSE code

StatusOK == 200

\* What the client has as status line after bytes were written, when the
\* writer in ctx.ResponseWriter still takes them.
BodyWrite(h) == IF zip = "closed" THEN h ELSE WriteHeader(h, StatusOK)

-----------------------------------------------------------------------------
(* GZip(level): early return, wrapping the writer, deferred Close.         *)

\* No "zip" in Accept-Encoding, or an invalid level that is only logged.
GZipSkip ==
    /\ Middleware("gzip")
    /\ ~Top.next
    /\ BackToLoop
    /\ UNCHANGED <<group, abortIndex, resp, phase, panicking, hist>>

\* Mutant: Close is called at once instead of deferred.
GZipNextCloseFirst ==
    /\ Middleware("gzip")
    /\ ~Top.next
    /\ zip' = "closed"
    /\ PushNext
    /\ UNCHANGED <<group, abortIndex, status, written, hdr, phase, panicking,
                   hist>>

GZipNext ==
    /\ Middleware("gzip")
    /\ ~Top.next
    /\ zip' = "open"
    /\ PushNext
    /\ UNCHANGED <<group, abortIndex, status, written, hdr, phase, panicking,
                   hist>>

\* Content-Length is set to 0 and Close writes the gzip trailer: without a
\* status line 200 is sent and the trailer exceeds the length; after a status
\* without body it is refused; otherwise it fails only if the client is gone.
CloseFails(err) == hdr = 0 \/ hdr \in NoBody => err

\* The deferred function after ctx.Next() returned: on an error ctx.Logger()
\* goes through c.group[c.index-1].
GZipReturn(err) ==
    /\ Middleware("gzip")
    /\ Top.next
    /\ CloseFails(err)
    /\ hdr' = WriteHeader(hdr, StatusOK)
    /\ zip' = "closed"
    /\ IF err /\ ~InRange
         THEN panicking' = TRUE /\ UNCHANGED <<index, stack>>
         ELSE panicking' = FALSE /\ BackToLoop
    /\ UNCHANGED <<group, abortIndex, status, written, phase, hist>>

-----------------------------------------------------------------------------
(* What a user handler does with its context.                              *)

SetStatus(code) ==
    /\ UserCode
    /\ status' = code
    /\ lastSet' = code
    /\ UNCHANGED <<chain, written, hdr, zip, ctl, calls, extra, output, abortBy,
                   abortAt, recovered, lostBy, refused>>

\* c.abortIndex = c.index, and the history of it.
DoAbort ==
    /\ abortIndex' = index
    /\ abortBy' = Top.pos
    /\ abortAt' = IF abortAt = 0 THEN Len(calls) ELSE abortAt

Abort ==
    /\ UserCode
    /\ DoAbort
    /\ UNCHANGED <<group, index, resp, ctl, calls, extra, lastSet, output,
                   recovered, lostBy, refused>>

AbortWithStatus(code) ==
    /\ UserCode
    /\ status' = code
    /\ lastSet' = code
    /\ DoAbort
    /\ UNCHANGED <<group, index, written, hdr, zip, ctl, calls, extra, output,
                   recovered, lostBy, refused>>

bodyAllowedForStatus(code) == code \notin NoBody

\* A body given to a gzip writer that was closed before is lost.
LoseBody(body) ==
    lostBy' = IF body /\ zip = "closed" THEN Top.pos ELSE lostBy

\* Context.Render with a renderer that sends the status line code (0: leaves
\* that to the first byte) and then body bytes or, when the encoder fails or
\* the code has no body, none.
DoRender(code, body) ==
    LET h == WriteHeader(hdr, status)
        r == WriteHeader(h, code)
    IN  /\ status' = 0
        /\ output' = TRUE
        /\ IF bodyAllowedForStatus(status')
             THEN /\ written' = TRUE
                  /\ hdr' = IF body THEN BodyWrite(r) ELSE r
                  /\ refused' = (refused \/ (body /\ r \in NoBody))
                  /\ LoseBody(body)
             ELSE /\ hdr' = h
                  /\ UNCHANGED <<written, refused, lostBy>>

\* What a renderer can send: JSON, XML and String no status line of their own
\* (code 0), Redirect, ServeFile and ServeContent a code; there is no body
\* when an encoder fails, for a HEAD request, or with a code that has none.
Sends(code, body) == code \in NoBody => ~body

\* JSON, XML, String, Redirect, ServeFile, ServeContent.
Render(code, body) ==
    /\ UserCode
    /\ Sends(code, body)
    /\ DoRender(code, body)
    /\ UNCHANGED <<chain, zip, ctl, calls, extra, lastSet, abortBy, abortAt,
                   recovered>>

\* AbortWithJSON, AbortWithXML, AbortWithString.
AbortWithBody(body) ==
    /\ UserCode
    /\ DoRender(0, body)
    /\ DoAbort
    /\ UNCHANGED <<group, index, zip, ctl, calls, extra, lastSet, recovered>>

\* ctx.Write (code 0), or a handler that uses the ResponseWriter directly, as
\* RawHandlerFuncGroup's and HandleNotFound do.
Write(code) ==
    /\ UserCode
    /\ output' = TRUE
    /\ hdr' = BodyWrite(WriteHeader(hdr, code))
    /\ LoseBody(TRUE)
    /\ UNCHANGED <<chain, status, written, zip, ctl, calls, extra, lastSet,
                   abortBy, abortAt, recovered, refused>>

-----------------------------------------------------------------------------
(* Panics.                                                                 *)

\* A user handler panics, on its own account or because ctx.BluePrint(),
\* Logger(), JSON(), Data()... index the group out of range.
Panic ==
    /\ UserCode
    /\ panicking' = TRUE
    /\ UNCHANGED <<chain, resp, stack, phase, hist>>

Unwinding == phase = "serve" /\ panicking /\ stack # <<>>

\* The panic leaves a frame: RecoverHandler's deferred function stops it.
Recover ==
    /\ Unwinding
    /\ Top.pc = "run" /\ Top.next
    /\ group[Top.pos] = "recover"
    /\ panicking' = FALSE
    /\ recovered' = TRUE
    /\ stack' = [stack EXCEPT ![Len(stack)].pc = "rec"]
    /\ UNCHANGED <<chain, resp, phase, calls, extra, lastSet, output, abortBy,
                   abortAt, lostBy, refused>>

\* Any other frame is popped; GZip's deferred Close runs on the way.  Whether
\* its logger lookup panics as well makes no difference to the unwinding.
Unwind ==
    /\ Unwinding
    /\ ~(Top.pc = "run" /\ Top.next /\ group[Top.pos] = "recover")
    /\ stack' = Below
    /\ phase' = IF Below = <<>> THEN "finish" ELSE phase
    /\ IF Top.pc = "run" /\ Top.next /\ group[Top.pos] = "gzip"
         THEN hdr' = WriteHeader(hdr, StatusOK) /\ zip' = "closed"
         ELSE UNCHANGED <<hdr, zip>>
    /\ UNCHANGED <<chain, status, written, panicking, hist>>

-----------------------------------------------------------------------------
(* ServeHTTP around the chain.                                             *)

\* Match has chosen the group; start() calls Next on a fresh ResponseWriter.
Serve(g) ==
    /\ phase = "idle"
    /\ group' = g
    /\ hdr' = 0
    /\ zip' = "off"
    /\ index' = Inc(index)
    /\ stack' = <<NewFrame>>
    /\ phase' = "serve"
    /\ panicking' = FALSE
    /\ calls' = <<>> /\ extra' = 0 /\ lastSet' = 0 /\ output' = FALSE
    /\ abortBy' = 0 /\ abortAt' = 0 /\ recovered' = FALSE /\ lostBy' = 0
    /\ refused' = FALSE
    /\ UNCHANGED <<abortIndex, status, written>>

\* The deferred finish(), which also runs when start() panics.
Finish ==
    /\ phase = "finish"
    /\ phase' = "done"
    /\ hdr' = IF status # 0 /\ ~written THEN WriteHeader(hdr, status) ELSE hdr
    /\ UNCHANGED <<chain, status, written, zip, stack, panicking, hist>>

\* Mutants: reset() forgets abortIndex; reset() forgets written.
ResetCtxKeepAbort ==
    /\ index' = 0
    /\ status' = 0
    /\ written' = FALSE
    /\ UNCHANGED abortIndex

ResetCtxKeepWritten ==
    /\ index' = 0
    /\ status' = 0
    /\ abortIndex' = 0
    /\ UNCHANGED written

ResetCtx ==
    /\ index' = 0
    /\ status' = 0
    /\ written' = FALSE
    /\ abortIndex' = 0

\* ctx.reset() before the context goes back to the pool.  After a panic (or
\* Escape) it does not go back, and the next request gets a new, zero Context.
Recycle ==
    /\ phase = "done"
    /\ phase' = "idle"
    /\ IF panicking
         THEN index' = 0 /\ status' = 0 /\ written' = FALSE /\ abortIndex' = 0
         ELSE ResetCtx
    /\ UNCHANGED <<group, hdr, zip, stack, panicking, hist>>

Init ==
    /\ group = <<>> /\ index = 0 /\ abortIndex = 0
    /\ status = 0 /\ written = FALSE /\ hdr = 0 /\ zip = "off"
    /\ stack = <<>> /\ phase = "idle" /\ panicking = FALSE
    /\ calls = <<>> /\ extra = 0 /\ lastSet = 0 /\ output = FALSE
    /\ abortBy = 0 /\ abortAt = 0 /\ recovered = FALSE /\ lostBy = 0
    /\ refused = FALSE

\* Steps of framework code, and of handlers returning: they happen unless the
\* handler first does something else.
Progress ==
    \/ CallHandler \/ LoopPanic \/ ExitLoop
    \/ Return \/ RecoverNext \/ RecoverReturn
    \/ GZipSkip \/ GZipNext \/ \E err \in BOOLEAN : GZipReturn(err)
    \/ Recover \/ Unwind
    \/ Finish

\* What user handlers choose to do.
Handler ==
    \/ HandlerNext \/ Abort \/ Panic
    \/ \E code \in Codes : SetStatus(code) \/ AbortWithStatus(code)
    \/ \E code \in Codes \cup {0} : Write(code)
    \/ \E code \in Codes \cup {0}, body \in BOOLEAN : Render(code, body)
    \/ \E body \in BOOLEAN : AbortWithBody(body)

Next ==
    \/ \E g \in Groups : Serve(g)
    \/ Progress
    \/ Handler
    \/ Recycle

Spec == Init /\ [][Next]_vars

\* The goroutine of the request is scheduled and handlers return.
FairSpec == Spec /\ WF_vars(Progress)

-----------------------------------------------------------------------------
(* Properties.                                                             *)

\* Every reachable state has the types of the Go fields, and the stack holds
\* frames of the current group.
TypeOK ==
    /\ group \in Seq(Kinds) /\ Len(group) <= MaxGroup
    /\ index \in 0..(IndexMod - 1)
    /\ abortIndex \in 0..(IndexMod - 1)
    /\ status \in Codes \cup {0}
    /\ written \in BOOLEAN
    /\ hdr \in Codes \cup {0, StatusOK}
    /\ zip \in {"off", "open", "closed"}
    /\ stack \in Seq(Frame)
    /\ phase \in {"idle", "serve", "finish", "done"}
    /\ panicking \in BOOLEAN
    /\ calls \in Seq(1..MaxGroup)
    /\ extra \in 0..MaxNext
    /\ lastSet \in Codes \cup {0}
    /\ output \in BOOLEAN
    /\ abortBy \in 0..MaxGroup
    /\ abortAt \in Nat
    /\ recovered \in BOOLEAN
    /\ lostBy \in 0..MaxGroup
    /\ refused \in BOOLEAN
    /\ \A i \in 1..Len(stack) : stack[i].pos <= Len(group)

\* The chain and the Next calls made in it fit the uint8 index: every handler
\* costs at most two increments, every Next of a plain handler one more.
Fits == 2 * Len(group) + extra + 1 < IndexMod

\* Next runs the handlers of the group at most once each and in the order of
\* registration, whatever mixture of nested Next calls, aborts and recovered
\* panics moved the index.
OnceInOrder ==
    Fits => /\ Len(calls) <= Len(group)
            /\ \A i \in 1..Len(calls) : calls[i] = i

\* Until a handler has called Next itself, ctx.BluePrint() (and with it the
\* Logger, the serializers and the parsers) is the one of that very handler.
CurrentBluePrint ==
    Fits /\ AtRun /\ Top.pc = "run" /\ ~Top.next => index = Top.pos

\* A request that ends without a panic reaching ServeHTTP and without Abort
\* has run all its handlers: no handler is skipped by a Next that returned
\* early, a recovered panic, or state left over from the previous request.
AllHandlersRan ==
    Fits /\ phase = "done" /\ ~panicking /\ abortBy = 0
        => Len(calls) = Len(group)

\* Once a handler has aborted, Next starts no further handler for this
\* request, not even through the Next calls still active below it.
AbortStops == Fits /\ abortAt # 0 => Len(calls) = abortAt

\* The status a handler set last is the one the client gets, when nothing was
\* rendered, written raw or compressed: finish() sends it even after a panic.
StatusDelivered ==
    phase = "done" /\ lastSet # 0 /\ ~output /\ zip = "off"
        => hdr = lastSet

\* A handler registered after GZip writes into the closed gzip writer (and so
\* loses its body) only when an outer RecoverHandler resumed the chain after
\* a panic had closed the writer.
GZipLosesOnlyOutside ==
    Fits /\ lostBy # 0 /\ ~recovered
        => \E i \in (lostBy + 1)..Len(group) : group[i] = "gzip"

\* The chain has nothing more to run.
Exhausted ==
    IsAborted \/ (Len(calls) = Len(group) /\ index > Len(group))

\* Handlers on the stack that have yet to return into their loop.
Running == IF Top.pc = "loop" THEN Len(stack) - 1 ELSE Len(stack)

\* A framework middleware that has yet to call Next.
Pending ==
    IF Top.pc = "run" /\ ~Top.next /\ group[Top.pos] # "plain" THEN 1 ELSE 0

\* The shape of the stack: only its top frame can be at the loop test, every
\* frame below it waits in a handler that has called Next.
StackInv ==
    /\ phase = "serve" <=> stack # <<>>
    /\ \A i \in 1..(Len(stack) - 1) : stack[i].pc # "loop" /\ stack[i].next
    /\ \A i \in 1..Len(stack) : /\ stack[i].pc = "rec" => stack[i].next
                                /\ stack[i].pc # "loop" => stack[i].pos # 0

\* How the index follows the calls made, while the index fits its type: it is
\* the number of handlers called (one more at the loop test) until the chain
\* is exhausted, and the increments still to come leave room for it.
IndexInv ==
    phase = "serve" =>
        /\ index >= 1
        /\ index + Running + Pending <= 1 + extra + 2 * Len(calls)
        /\ Running <= Len(calls)
        /\ Top.pc = "loop" =>
             ~panicking /\ (index = Len(calls) + 1 \/ Exhausted)
        /\ Top.pc # "loop" => index = Len(calls) \/ Exhausted
        /\ Top.pc = "run" /\ ~Top.next =>
             index = Len(calls) /\ Top.pos = Len(calls)

\* Abort is recorded in the context exactly when a handler aborted, and a
\* chain that ended without one is exhausted.
EndInv ==
    /\ phase # "idle" => /\ abortIndex # 0 <=> abortBy # 0
                         /\ abortBy # 0 <=> abortAt # 0
    /\ phase \in {"finish", "done"} /\ ~panicking => Exhausted

\* The inductive strengthening of the four chain properties below.
ChainInv ==
    /\ StackInv
    /\ phase = "idle" => index = 0 /\ abortIndex = 0
    /\ Fits => OnceInOrder /\ IndexInv /\ EndInv /\ AbortStops

\* Every request comes to an end: Next calls nested in handlers and panics
\* resumed by RecoverHandler do not keep the chain running for ever.
Terminates == phase = "serve" ~> (phase = "done" \/ ~Fits)

\* http.go: a status that allows no body gets none from Render.
NoBodyWhenForbidden == ~refused
=============================================================================
