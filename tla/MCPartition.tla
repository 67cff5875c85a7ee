---------------------------- MODULE MCPartition ----------------------------
(* Partition of four features with up to three references between them. *)
EXTENDS Partition

Children == {p \in (0..3) \X (0..3) : p[1] < p[2]}
Parents == {p \in (0..3) \X (0..3) : p[1] > p[2]}
UpToThree(S) == {{p, q, r} : p, q, r \in S} \cup {{}}
MCInputs ==
  UpToThree(Children) \cup UpToThree(Parents)
    \cup {{<<0, Nowhere>>, <<1, 1>>, <<1, 3>>, <<3, Nowhere>>}}

MCSpecs ==
  {[kind |-> "count", n |-> n] : n \in {0, 3}}
    \cup {[kind |-> "features", n |-> n] : n \in {0, 3}}
    \cup {[kind |-> "box", cell |-> [i \in 0..3 |-> IF i \in s THEN 2 ELSE 0]] : s \in {{0}, {1, 2}}}
=============================================================================
