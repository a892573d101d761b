------------------------ MODULE MCMemoryMessageStore ------------------------
(* MemoryMessageStore with interchangeable consumers.                      *)
EXTENDS MemoryMessageStore

Symmetry == Permutations(Consumers)
=============================================================================
