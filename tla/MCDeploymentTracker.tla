------------------------ MODULE MCDeploymentTracker ------------------------
(***************************************************************************)
(* DeploymentTracker on a small instance. A tick is half the debounce      *)
(* interval; the cache lives for one tick, sooner than in the code, so     *)
(* that it is used and expires within a few.                               *)
(***************************************************************************)
EXTENDS DeploymentTracker, TLC

CONSTANTS u1, u2, q1, q2, p1
=============================================================================
