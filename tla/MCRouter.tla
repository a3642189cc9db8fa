------------------------------- MODULE MCRouter -------------------------------
(***************************************************************************)
(* Model checking Router: the paths an application registers.              *)
(***************************************************************************)
EXTENDS Router

\* A literal, wildcards under two names, a pattern that crosses what Static
\* registers, the home page, the subtree of everything, and a path that panics.
RoutesMC == {<<"a">>, <<"{x}">>, <<"{y}">>, <<"{x}", "b">>,
             <<"{$}">>, <<>>, <<"{p...}">>, <<"{p...}", "a">>}
SubtreesMC == {<<"a">>}
PrefixesMC == {<<>>}
NoPrefix == <<>>
==============================================================================
