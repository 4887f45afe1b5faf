--------------------------- MODULE MCBulkExecutor ---------------------------
(* BulkExecutor with more items than can be in flight, so that dispatch       *)
(* waits for a settled item and receipts can arrive out of plan order.        *)
EXTENDS BulkExecutor
=============================================================================
