---------------------------- MODULE MCRunEngine ----------------------------
(***************************************************************************)
(* Instances of RunEngine for TLC.                                         *)
(***************************************************************************)
EXTENDS RunEngineProperties, TLC

CONSTANTS r1, p1, p2, w1, w2

\* Two processes of one consumer slot each, and one process of two.
TwoProcesses == (w1 :> p1) @@ (w2 :> p2)
OneProcess == (w1 :> p1) @@ (w2 :> p1)

\* Slots and processes are interchangeable as far as ProcOf is preserved.
SlotSymmetry ==
  {f \in Permutations({p1, p2, w1, w2}) :
     \A w \in Worker : f[w] \in Worker /\ f[ProcOf[w]] = ProcOf[f[w]]}
=============================================================================
