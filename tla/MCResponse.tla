----------------------------- MODULE MCResponse -----------------------------
EXTENDS Response

\* An empty message (errors.New("")) and a non-empty one.
MCMsgs == {"", "e1"}
\* Two non-empty messages.
MCMsgsNonEmpty == {"e1", "e2"}
====
