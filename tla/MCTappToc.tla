----------------------------- MODULE MCTappToc -----------------------------
(* Values for TappToc: TAIDs that differ in a first or a last word.        *)
EXTENDS TappToc

SomeTaids == {<<91, 92, 93, 94>>, <<81, 92, 93, 94>>, <<91, 92, 93, 84>>}
=============================================================================
