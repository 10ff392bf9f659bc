------------------------------- MODULE MCAuth -------------------------------
\* Two requests, of the terminal interface (two subagents) or of a process beside
\* it; two logins, a logout and a kill.
EXTENDS Auth
=============================================================================
