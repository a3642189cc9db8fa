------------------------------- MODULE MCGuarded -------------------------------
(***************************************************************************)
(* Model checking Router and Sessions: the routes of a process, and the    *)
(* guard in front of their handlers.  The two share no variable and every  *)
(* property reads those of one, so each may move only while the other has  *)
(* not: whatever the other did, its own behaviours would be the same.      *)
(***************************************************************************)
EXTENDS MCRouter, Sessions

CONSTANTS alice

\* Every token belongs to one user.
OneOwner == [t \in Tokens |-> alice]
Symmetry == Permutations(Requests)

guardedVars == <<routerVars, vars>>

GuardedInit == RouterInit /\ Init

Registers == Init /\ RouterNext /\ UNCHANGED vars
Guards == RouterInit /\ Next /\ UNCHANGED routerVars

GuardedNext == Registers \/ Guards

GuardedSpec == GuardedInit /\ [][GuardedNext]_guardedVars
==============================================================================
