--------------------------- MODULE MCDBWorkerPool ---------------------------
(* Two accounts served by different workers, a queue that holds one pair.  *)
EXTENDS DBWorkerPool
=============================================================================
