---------------------------- MODULE MCWorkerJobs ----------------------------
(* Constants of the runs of WorkerJobs. *)
EXTENDS WorkerJobs

CONSTANTS w1, w2, eod, check, price, f1, f2

MCBackoff == <<1, 2>>
MCBackoffShort == <<1>>
=============================================================================
