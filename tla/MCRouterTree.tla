---------------------------- MODULE MCRouterTree ----------------------------
(* Instances of RouterTree for TLC.  Paths are written as tuples of bytes.  *)
EXTENDS RouterTree

\* All static paths of up to three bytes that begin with a slash, and one
\* that does not.
StaticRoutes ==
    {<<"/">> \o s : s \in BoundedSeq({"a", "b", "/"}, 2)} \cup {<<"a">>}

\* Parameters at the end and inside of a path, catch-alls, literal siblings
\* of both, and malformed wildcards.
WildRoutes ==
    { <<"/", "a">>, <<"/", "b">>, <<"/", "b", "a">>, <<"/", "a", "/", "b">>,
      <<"/", ":", "p">>, <<"/", ":", "p", "/", "a">>, <<"/", ":", "p", "/", "b">>,
      <<"/", ":", "p", "/", ":", "q", "/", "a">>,
      <<"/", ":", "p", "/", ":", "q", "/", "b">>,
      <<"/", "a", "/", "*", "x">>, <<"/", "*", "x">>, <<"/", "a", "b">>,
      <<"/", "a", "b", "a">>,
      <<"/", "b", "/", "/", "a">>,
      <<"/", "b", "/", ":", "p">>, <<"/", "a", "*", "x">>, <<"/", ":">> }

WildPaths ==
    { <<"/", "a">>, <<"/", "b">>, <<"/", "b", "a">>, <<"/", "a", "/", "b">>,
      <<"/", "a", "b">>, <<"/", "a", "/">>, <<"/", "b", "/", "b">>,
      <<"/", "a", "/", "a", "/", "b">>, <<"/">> }
=============================================================================
