----------------------------- MODULE MCRuntimeHeap -----------------------------
(* Small heaps for TLC.                                                     *)
EXTENDS RuntimeHeap, TLC

\* Addresses are interchangeable.
Symmetry == Permutations(Addr)

\* Bound: the handles the objects hold.  Cycles, chains and shared objects
\* need no more; the graphs left out are nearly complete.
MaxHandles == 4
FewHandles == Cardinality({p \in live \X Addr : p[2] \in slots[p[1]]}) <= MaxHandles
================================================================================
