---------------------------- MODULE NodeIdentity ----------------------------
(***************************************************************************)
(* What a data-node server promises about its identity in the cluster      *)
(* (src/server/server.go, initMetaStore and joinCluster), with the steps   *)
(* of Open, the retries and the goroutines abstracted away:                *)
(*  - the meta service registers a fresh data node for the server only    *)
(*    while the server has no identity on disk; it may do so more than    *)
(*    once (after a crash, or after a failed DataNode RPC while an ID is  *)
(*    held), which is the duplicate data node of OneDataNodePerServer;    *)
(*  - the node file is written once, with the registered ID the process   *)
(*    holds, and never changes afterwards;                                 *)
(*  - a peer is answered only once the ID it learns is in the node file;  *)
(*  - a restart loads the ID from the node file, or none.                 *)
(***************************************************************************)
EXTENDS Naturals

CONSTANTS
    NoFile,  \* no node file on disk
    MaxID    \* bound on the IDs the meta service hands out

VARIABLES
    registered,  \* IDs of the data nodes the meta service has registered
    file,        \* the ID in the node file, or NoFile
    held,        \* the ID the running process holds (0: none)
    acked        \* a peer has been told the server's data node

vars == <<registered, file, held, acked>>

Init ==
    /\ registered \subseteq 1..MaxID
    /\ file = NoFile \/ file \in registered
    /\ held = 0 /\ acked = FALSE

\* initMetaStore: LoadNode gives the saved ID, or a new node with ID 0.
Load ==
    /\ held = 0 /\ file # NoFile
    /\ held' = file
    /\ UNCHANGED <<registered, file, acked>>

\* joinCluster: CreateDataNode registers a fresh data node and the process
\* takes its ID, replacing any ID it held.
Register(i) ==
    /\ file = NoFile /\ i \notin registered
    /\ registered' = registered \cup {i} /\ held' = i
    /\ UNCHANGED <<file, acked>>

\* joinCluster: s.Node.Save() writes the held ID to the node file.
Persist ==
    /\ file = NoFile /\ held \in registered
    /\ file' = held
    /\ UNCHANGED <<registered, held, acked>>

\* joinCluster: the peer is sent the data node once it is saved.
Ack ==
    /\ file # NoFile /\ held = file
    /\ acked' = TRUE
    /\ UNCHANGED <<registered, file, held>>

\* The process dies; the node file and the meta service keep their state.
Crash ==
    /\ held' = 0
    /\ UNCHANGED <<registered, file, acked>>

Next == Load \/ (\E i \in 1..MaxID : Register(i)) \/ Persist \/ Ack \/ Crash

Spec == Init /\ [][Next]_vars

====
