-------------------------- MODULE MCBrowserSession --------------------------
(* Small instances of BrowserSession for TLC.                              *)
EXTENDS BrowserSession, TLC

\* Tabs are compared for equality only; no temporal property is checked
\* where this is used.
TabSymmetry == Permutations(Tabs)
=============================================================================
