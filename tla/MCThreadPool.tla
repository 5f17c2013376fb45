---------------------------- MODULE MCThreadPool ----------------------------
(* Two workers, five tasks, pipes that hold two bytes: the dispatcher can  *)
(* block, workers can lag behind, and exitAllThread can run at any point.  *)
EXTENDS ThreadPool
=============================================================================
