------------------------------ MODULE MCServer ------------------------------
EXTENDS Server

\* A valid join, a join without peers, and a request of an unknown type
\* (or a body that does not decode, which leaves Type 0).
MCRequests == {[type |-> "join", peers |-> TRUE],
               [type |-> "join", peers |-> FALSE],
               [type |-> "other", peers |-> FALSE]}
====
