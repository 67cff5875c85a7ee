---------------------------- MODULE PackageStore ----------------------------
(***************************************************************************)
(* What `convert` promises about one output directory, as a reader of the  *)
(* directory sees it: a package is there or it is not, it is replaced as a *)
(* whole, and the old one is given up only once its successor is complete  *)
(* somewhere on disk.  PackageCommit implements this module.               *)
(***************************************************************************)
EXTENDS Integers

CONSTANT Name \* the file names a package may consist of

VARIABLES
  visible,  \* the package a reader of the directory finds
  staged    \* the complete package waiting to take its place

svars == <<visible, staged>>

\* A package is the run that wrote it and the files it consists of.
Package == [gen : Nat, files : SUBSET Name]

NoPackage == [gen |-> -1, files |-> {}]

Init ==
  /\ visible \in Package \cup {NoPackage}
  /\ staged = NoPackage

\* A run has written every file of a package no reader has seen yet.
Stage ==
  /\ staged = NoPackage
  /\ staged' \in Package
  /\ staged'.gen # visible.gen
  /\ UNCHANGED visible

\* A later run throws away what an unfinished one had staged.
Discard ==
  /\ staged' = NoPackage
  /\ UNCHANGED visible

\* The old package goes away: its successor must be complete.
Retire ==
  /\ staged # NoPackage
  /\ visible' = NoPackage
  /\ UNCHANGED staged

\* The staged package appears, all of it in one step.
Publish ==
  /\ staged # NoPackage
  /\ visible = NoPackage
  /\ visible' = staged
  /\ staged' = NoPackage

Next == Stage \/ Discard \/ Retire \/ Publish

Spec == Init /\ [][Next]_svars
=============================================================================
