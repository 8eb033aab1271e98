-------------------------------- MODULE Data --------------------------------
(***************************************************************************)
(* What the handlers of one request get out of it: Context.Data, which     *)
(* picks a parser by content type (core/parser.go), binds the request to a *)
(* struct and validates it; the binders called directly; and single values *)
(* with their conversions.                                                 *)
(*                                                                         *)
(* The handlers of a chain call these one after the other on the same      *)
(* *http.Request, whose body can be read once.  The state kept here is     *)
(* what net/http keeps of it, external: how far Body is read, and Form and *)
(* MultipartForm once they are parsed.  How a form is bound to the fields  *)
(* is in Binding; here a struct with any values comes out of it.           *)
(***************************************************************************)
EXTENDS Validators, Values

CONSTANTS Requests,   \* requests, as below
          MaxCalls    \* bound: calls on one request

Medias == {"json", "form", "multipart", "xml"}

\* contains: the media types the Content-Type header has as substrings, in
\* lower case; media: the type of the body, which net/http goes by; post: the
\* method is POST, PUT or PATCH; good and query: the body (of JSON and XML the
\* first value in it) and the query string are well formed; more: something
\* follows that value, or the last part of a multipart body.
Request ==
    [contains : SUBSET Medias, media : Medias \cup {"other"}, post : BOOLEAN,
     good : BOOLEAN, query : BOOLEAN, more : BOOLEAN]

ASSUME DataAssumption == Requests \subseteq Request /\ MaxCalls \in Nat

VARIABLES
    req,      \* the request
    body,     \* Request.Body: "full", "rest" (a reader has had the beginning)
              \* or "drained"
    form,     \* Request.Form: "nil", "body" (body and query), "some" (what was
              \* left of the body), "query" (nothing of it), "partial" (with
              \* an error)
    multi,    \* Request.MultipartForm: "nil", "body" or "some"
    via,      \* the call in progress or done last: "data", "bind" or "none"
    bound     \* what its struct was bound from: one of these, or "error"

\* History of the request, for the properties only.
VARIABLES
    calls,    \* number of calls
    had,      \* the body the call in progress found
    decoded,  \* a JSON or XML decoder has read: "no", "some", the "whole" body
    failed    \* ParseForm has failed

http  == <<req, body, form, multi>>
hist  == <<calls, had, decoded, failed>>
dvars == <<vars, reading, http, via, bound, hist>>

-----------------------------------------------------------------------------
(* Parsers.Parse with the parsers of BluePrint.Default.                    *)

\* Mutant: the form parser is forgotten.
DefaultParsersNoForm == <<"json", "multipart", "xml">>

DefaultParsers == <<"json", "form", "multipart", "xml">>

\* The first whose Match holds, or QueryParser.
Parser(q) ==
    LET match == {j \in DOMAIN DefaultParsers : DefaultParsers[j] \in q.contains}
    IN  IF match = {} THEN "query" ELSE DefaultParsers[Min(match)]

-----------------------------------------------------------------------------
(* net/http and the decoders, external.                                    *)

\* A reader that stops before the end takes a buffer more than it needs.
Left(whole) == IF whole \/ body = "drained" THEN {"drained"}
                                            ELSE {"rest", "drained"}

\* Request.ParseForm reads the body of a form the first time it is called; an
\* error is returned once, and what could be parsed is kept.
ParsesBody == form = "nil" /\ req.media = "form" /\ req.post

FormsAfter ==
    IF form # "nil" THEN {form}
    ELSE IF ~req.query THEN {"partial"}
    ELSE IF ~ParsesBody \/ body = "drained" THEN {"query"}
    ELSE IF body = "rest" THEN {"some"} \cup (IF req.good THEN {} ELSE {"partial"})
    ELSE IF req.good THEN {"body"} ELSE {"partial"}

BodiesAfterForm == IF ParsesBody THEN Left(req.good) ELSE {body}

ParseFormFails(f) == form = "nil" /\ f = "partial"

\* What a JSON or XML decoder finds: the first value of a body of its type;
\* in anything else, or from the middle on, maybe one that can be decoded.
Found(p) ==
    IF body = "drained" THEN {"error"}
    ELSE IF body = "rest" \/ req.media # p THEN {"error", "some"}
    ELSE IF ~req.good THEN {"error"}
    ELSE IF req.more THEN {"some"} ELSE {"body"}

-----------------------------------------------------------------------------
(* Binders: what they leave of the request and what they bind from; "error"*)
(* when they return one before anything is bound.                          *)

Decoded == IF bound' = "body" THEN "whole"
           ELSE IF decoded = "no" THEN "some" ELSE decoded

\* Mutant: the body is kept for the next reader.
DecodeKeeps(p) ==
    /\ bound' \in Found(p)
    /\ decoded' = Decoded
    /\ UNCHANGED <<body, form, multi, failed>>

\* BindJSON and BindXML decode one value of what is left of the body.
Decode(p) ==
    /\ bound' \in Found(p)
    /\ body' \in Left(bound' = "body")
    /\ decoded' = Decoded
    /\ UNCHANGED <<form, multi, failed>>

\* Mutant: BindForm drops the error of ParseForm.
BindFormAnyway ==
    /\ form' \in FormsAfter
    /\ body' \in BodiesAfterForm
    /\ failed' = (failed \/ ParseFormFails(form'))
    /\ bound' = form'
    /\ UNCHANGED <<multi, decoded>>

BindForm ==
    /\ form' \in FormsAfter
    /\ body' \in BodiesAfterForm
    /\ failed' = (failed \/ ParseFormFails(form'))
    /\ bound' = IF ParseFormFails(form') THEN "error" ELSE form'
    /\ UNCHANGED <<multi, decoded>>

\* ParseMultipartForm calls ParseForm first, adds the values of the body to
\* Form, and then returns the error of ParseForm, the first time.
BindMultipartForm ==
    LET reads == multi = "nil" /\ req.media = "multipart"
    IN  /\ multi' \in IF ~reads THEN {multi}
                     ELSE IF body = "rest" THEN {"nil", "some"}
                     ELSE IF body = "full" /\ req.good THEN {"body"} ELSE {"nil"}
        /\ \E f \in FormsAfter :
            /\ failed' = (failed \/ ParseFormFails(f))
            /\ form' = IF reads /\ multi' # "nil" /\ f = "query" THEN multi' ELSE f
            /\ bound' = IF multi' = "nil" \/ ParseFormFails(f) THEN "error" ELSE multi'
        /\ body' \in IF reads THEN Left(multi' = "body" /\ ~req.more)
                             ELSE BodiesAfterForm
        /\ UNCHANGED decoded

\* BindQuery reads the URL, malformed pairs left out.
BindQuery ==
    /\ bound' = "query"
    /\ UNCHANGED <<body, form, multi, decoded, failed>>

BindWith(p) ==
    \/ p \in {"json", "xml"} /\ Decode(p)
    \/ p = "form" /\ BindForm
    \/ p = "multipart" /\ BindMultipartForm
    \/ p = "query" /\ BindQuery

-----------------------------------------------------------------------------
(* Calls of handlers.                                                      *)

MayCall == phase = "idle" /\ calls < MaxCalls

Failed == [Ok EXCEPT !.out = "error", !.err = "parse"]

\* Context.Data: an error of the parser is returned, otherwise the struct, with
\* whatever was bound to it, is given to Validate.
CallData ==
    /\ MayCall
    /\ calls' = calls + 1
    /\ via' = "data" /\ had' = body
    /\ BindWith(Parser(req))
    /\ \/ /\ bound' # "error"
          /\ \E s \in Structs : Validate(s)
       \/ Stop(Failed)
    /\ reading' = NoReading
    /\ UNCHANGED req

\* BindForm, BindJSON, ... called by a handler; a value that does not fit the
\* struct is an error too.
CallBind(p) ==
    /\ MayCall
    /\ calls' = calls + 1
    /\ via' = "bind" /\ had' = body
    /\ BindWith(p)
    /\ \/ bound' # "error" /\ Stop(Ok)
       \/ Stop(Failed)
    /\ reading' = NoReading
    /\ UNCHANGED req

\* Context.From drops the error of ParseForm; its cache is in Engine.
From ==
    /\ MayCall
    /\ calls' = calls + 1
    /\ form' \in FormsAfter
    /\ body' \in BodiesAfterForm
    /\ failed' = (failed \/ ParseFormFails(form'))
    /\ reading' = NoReading
    /\ UNCHANGED <<vars, req, multi, via, bound, had, decoded>>

\* A handler converts a value of the query, of the form or of the path.
CallValue ==
    /\ phase = "idle" /\ calls = 0 /\ reading = NoReading
    /\ \/ \E acc \in Accessors, v \in Strings, def \in Defaults :
            ReadValue(acc, v, def)
       \/ \E p \in ParamLists, key \in Keys : ReadParam(p, key)
    /\ UNCHANGED <<vars, http, via, bound, hist>>

\* The handler goes on.
CallReturns ==
    /\ Return
    /\ via' = "none" /\ bound' = "none" /\ reading' = NoReading
    /\ UNCHANGED <<http, hist>>

DataInit ==
    /\ Init
    /\ reading = NoReading
    /\ req \in Requests
    /\ body = "full" /\ form = "nil" /\ multi = "nil"
    /\ via = "none" /\ bound = "none"
    /\ calls = 0 /\ had = "full" /\ decoded = "no" /\ failed = FALSE

DataNext ==
    \/ CallData
    \/ \E p \in Medias \cup {"query"} : CallBind(p)
    \/ From
    \/ CallValue
    \/ Check /\ UNCHANGED <<reading, http, via, bound, hist>>
    \/ CallReturns

DataSpec == DataInit /\ [][DataNext]_dvars

-----------------------------------------------------------------------------
(* Properties.                                                             *)

Returned(v) == phase = "done" /\ via = v /\ result.out = "nil"

\* Data returning nil means that the struct was bound from the whole body of a
\* request of one of the four types, with five exceptions: a header that names
\* several types, a form sent with a method whose body is not parsed, a form
\* whose parsing had failed in an earlier call, a body an earlier call had read
\* of (of a form, a decoder), and JSON or XML with something after the first
\* value.  The errors the multipart binder drops are those of MultipartBound.
DataIsComplete ==
    Returned("data") /\ req.media \in Medias =>
        \/ bound = "body"
        \/ req.contains # {req.media}
        \/ req.media = "form" /\ ~req.post
        \/ bound = "partial" /\ failed /\ calls > 1
        \/ /\ bound \in {"query", "some"} /\ had # "full"
           /\ req.media = "form" => decoded # "no"
        \/ bound = "some" /\ req.media \in {"json", "xml"} /\ req.more

\* Nothing is bound from a form that was not parsed without an error, except
\* after an earlier call has met that error: no call both meets it and binds.
PartialOnlyAfterError ==
    phase # "idle" /\ bound = "partial" => failed /\ calls > 1

\* After a decoder has read of a JSON or XML body no call of Data sees the
\* whole of it again, and when the decoder had all of it every one fails.
DecodedOnce ==
    [][ /\ phase = "idle" /\ decoded # "no" /\ via' = "data"
        /\ req.contains \in {{"json"}, {"xml"}}
        => /\ bound' # "body"
           /\ decoded = "whole" => bound' = "error" ]_dvars
=============================================================================
