----------------------------- MODULE MCAnalysis -----------------------------
(* Small instances of the analysis engines.                                *)
EXTENDS Analysis

OneFocus == {<<0, 2>>}
OneLock == {<<2, 4>>}
NoWindows == {}
=============================================================================
