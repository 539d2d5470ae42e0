---------------------------- MODULE MCBenchmark ----------------------------
(***************************************************************************)
(* Benchmark with no, one, two and three repetitions and tracing switched  *)
(* by other code up to five times: enough to spoil two samples and to      *)
(* leave tracing on in the third.                                          *)
(***************************************************************************)
EXTENDS Benchmark

MCRepetitions == -1 .. 3
=============================================================================
