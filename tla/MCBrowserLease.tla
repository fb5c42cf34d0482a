----------------------------- MODULE MCBrowserLease -----------------------------
(* Instances of BrowserLease for TLC. *)
EXTENDS BrowserLease, TLC

\* Sessions are interchangeable, and so are tokens.
LeaseSymmetry == Permutations(Sessions) \cup Permutations(Tokens)
===============================================================================
