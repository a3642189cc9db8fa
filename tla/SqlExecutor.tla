----------------------------- MODULE SqlExecutor -----------------------------
(***************************************************************************)
(* What the ORM expects of an Executor (pkg/orm/tx.go): a caller issues    *)
(* one statement, and gets exactly one answer to it.  The statement        *)
(* reaches the database at most once, and it did reach it when the answer  *)
(* is "ok".                                                                *)
(*                                                                         *)
(* "stale" stands for an error that concerns a prepared statement of the   *)
(* cache and not the query: a plain connection pool never gives it.  The   *)
(* set StaleMethods says which methods may surface it nevertheless.        *)
(***************************************************************************)
EXTENDS Naturals

CONSTANTS
    Callers,        \* goroutines that run statements
    StaleMethods    \* methods that may answer "stale"

VARIABLES
    pending,        \* [Callers -> BOOLEAN]: a call is in progress
    method,         \* [Callers -> Methods]: of the current or last call
    sent,           \* [Callers -> Nat]: times its SQL reached the database
    answer          \* [Callers -> Answers]: what the last call returned

vars == <<pending, method, sent, answer>>

\* "exec" stands for QueryContext and ExecContext, whose bodies are the same;
\* "row" for QueryRowContext.
Methods == {"exec", "row"}
Answers == {"none", "ok", "error", "stale"}

Init ==
    /\ pending = [c \in Callers |-> FALSE]
    /\ method \in [Callers -> Methods]
    /\ sent = [c \in Callers |-> 0]
    /\ answer = [c \in Callers |-> "none"]

Begin(c, m) ==
    /\ ~pending[c]
    /\ pending' = [pending EXCEPT ![c] = TRUE]
    /\ method' = [method EXCEPT ![c] = m]
    /\ sent' = [sent EXCEPT ![c] = 0]
    /\ answer' = [answer EXCEPT ![c] = "none"]

Finish(c, a, n) ==
    /\ pending[c]
    /\ a = "ok" => n = 1
    /\ a = "stale" => n = 0 /\ method[c] \in StaleMethods
    /\ pending' = [pending EXCEPT ![c] = FALSE]
    /\ sent' = [sent EXCEPT ![c] = n]
    /\ answer' = [answer EXCEPT ![c] = a]
    /\ UNCHANGED method

Next ==
    \E c \in Callers :
        \/ \E m \in Methods : Begin(c, m)
        \/ \E a \in Answers \ {"none"}, n \in {0, 1} : Finish(c, a, n)

Spec == Init /\ [][Next]_vars
==============================================================================
