----------------------------- MODULE MCDriveTokens -----------------------------
\* Instances of DriveTokens for TLC: one session of the page, two authorizations.
EXTENDS DriveTokens
===============================================================================
