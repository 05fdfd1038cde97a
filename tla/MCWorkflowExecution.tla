------------------------ MODULE MCWorkflowExecution ------------------------
(* A three-state workflow: submit, a -> b, needs an approval; finish, b -> c,  *)
(* and reopen, c -> b, are automatic and form a cycle.                         *)
EXTENDS WorkflowExecution, TLC

CONSTANTS a, b, c, submit, finish, reopen

MCFrom == submit :> a @@ finish :> b @@ reopen :> c

MCTo == submit :> b @@ finish :> c @@ reopen :> b

Symmetry == Permutations(Requests)
===============================================================================
