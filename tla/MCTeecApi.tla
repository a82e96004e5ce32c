----------------------------- MODULE MCTeecApi -----------------------------
(* Small instances of the client API.                                      *)
EXTENDS TeecApi, TLC

Symmetry == Permutations(ContextId) \cup Permutations(CtxStruct)
              \cup Permutations(SessStruct)
============================================================================
