---------------------------- MODULE MCTransfer ----------------------------
(* Model-checking instances of Transfer: the stage shapes, as backend,    *)
(* source and destination world sizes and a bound on the stage's blocks.  *)
EXTENDS Transfer

Shape(b, s, d, n) == [backend |-> b, stp |-> s, dtp |-> d, maxn |-> n]

\* Both backends, equal tp and fan-in (source wider) with stages of up to 3
\* blocks, and a RayRpc fan-out (two chunk ranks share one source worker)
\* whose stage fits the buffer, so each destination worker calls once.
MCStagesPass ==
  {Shape(b, s, 1, 3) : b \in {"rayrpc", "raycol"}, s \in {1, 2}}
    \cup {Shape("rayrpc", 1, 2, 2)}
\* Fan-out with stages of up to 3 blocks, both backends.
MCStagesFanOut == {Shape(b, 1, 2, 3) : b \in {"rayrpc", "raycol"}}
\* Every shape of both backends, stages of up to 2 blocks.
MCStagesAll ==
  {Shape(b, s, d, 2) : b \in {"rayrpc", "raycol"}, <<s, d>> \in {<<1, 1>>, <<2, 1>>, <<1, 2>>}}
=============================================================================
