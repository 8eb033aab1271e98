----------------------------- MODULE MCContext -----------------------------
(* Instances of Context for TLC.                                           *)
EXTENDS Context

\* Bound: a chain whose index wrapped around may call handlers for ever.
MaxCalls == 6

CallsBound == Len(calls) <= MaxCalls
=============================================================================
