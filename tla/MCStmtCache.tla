----------------------------- MODULE MCStmtCache -----------------------------
(***************************************************************************)
(* Model checking StmtCache on a few goroutines, texts and statements.     *)
(***************************************************************************)
EXTENDS StmtCache

==============================================================================
