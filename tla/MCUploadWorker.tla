--------------------------- MODULE MCUploadWorker ---------------------------
(***************************************************************************)
(* UploadWorker on small instances.                                        *)
(***************************************************************************)
EXTENDS UploadWorker

OneSerial == [j \in Jobs |-> "gw"]
\* Rows 3 and 5 were recorded under another hardware id.
TwoSerials == [j \in Jobs |-> IF j \in {3, 5} THEN "old" ELSE "gw"]
=============================================================================
