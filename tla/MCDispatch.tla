----------------------------- MODULE MCDispatch -----------------------------
(* Two requests in progress, three communications in batches of two: a dispatch *)
(* takes two posts, and each of its steps meets every step of another request.  *)
EXTENDS Dispatch

CONSTANTS r1, r2

MCWorkers == {r1, r2}
MCComms == 1..3
=============================================================================
