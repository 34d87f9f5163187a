--------------------------- MODULE MCBrowserSession ---------------------------
\* Small instances of BrowserSession for TLC: two tabs, two requests in progress,
\* two sign-ins.
EXTENDS BrowserSession, TLC

\* Tabs are alike, and so are requests.
Symmetry == Permutations(Tabs) \cup Permutations(Procs)
=============================================================================
