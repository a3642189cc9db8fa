------------------------------- MODULE MCServer -------------------------------
(***************************************************************************)
(* Model checking Pipeline and RateLimit: a server and the state of its    *)
(* limiter.  The two share no variable and every property reads those of   *)
(* one, so each may move only while the other has not: whatever the other  *)
(* did, its own behaviours would be the same.                              *)
(***************************************************************************)
EXTENDS Pipeline, RateLimit

serverVars == <<vars, limiterVars>>

ServerInit == Init /\ LimiterInit

Serving == LimiterInit /\ Next /\ UNCHANGED limiterVars
Limits == Init /\ LimiterNext /\ UNCHANGED vars

ServerNext == Serving \/ Limits

\* Pipeline's fairness; the limiter needs none.
ServerSpec ==
    /\ ServerInit /\ [][ServerNext]_serverVars
    /\ \A r \in Requests : WF_vars(Step(r))
    /\ WF_vars(Stop)
==============================================================================
