---------------------------- MODULE MCThreadPool ----------------------------
(***************************************************************************)
(* Two workers, hence a stack of four, and five connections: four queued   *)
(* and one in the accept loop's hand fill the stack and make it wait, and  *)
(* two served with three queued keep both workers busy.                    *)
(***************************************************************************)
EXTENDS ThreadPool

CONSTANTS c1, c2, c3, c4, c5

MCConns == {c1, c2, c3, c4, c5}

=============================================================================
