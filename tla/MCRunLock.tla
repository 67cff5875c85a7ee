------------------------------ MODULE MCRunLock ------------------------------
(* Three runs, the last two on one host.  The first and the third use each   *)
(* other's output directory as working directory, so they meet the two locks *)
(* in opposite orders; the second works in its output directory, which is    *)
(* the first one's.  Or all three share everything, on one host.             *)
EXTENDS RunLock, TLC

CONSTANTS r1, r2, r3, out, work

MCRun == {r1, r2, r3}
MCDir == {out, work}
MCOut == r1 :> out @@ r2 :> out @@ r3 :> work
MCWork == r1 :> work @@ r2 :> out @@ r3 :> out
SharedOut == [r \in MCRun |-> out]
SharedWork == [r \in MCRun |-> work]
OneHost == [r \in MCRun |-> "a"]
MCHost == r1 :> "b" @@ r2 :> "a" @@ r3 :> "a"
=============================================================================
