---------------------------- MODULE MCNvmeTrace ----------------------------
(***************************************************************************)
(* A small instance of NvmeTrace: two CPUs, two queues that share one of   *)
(* their tags, and one zone beside zone 0.                                 *)
(***************************************************************************)
EXTENDS NvmeTrace, TLC

MCSlots == {<<"q1", 1>>, <<"q1", 2>>, <<"q2", 1>>}

MCCPUs == Permutations(CPUs)
=============================================================================
