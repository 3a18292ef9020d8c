------------------------------- MODULE Server -------------------------------
(***************************************************************************)
(* The data-node server of src/server/server.go: Open, the node-server     *)
(* goroutine that answers cluster-join requests, and Close.                *)
(*                                                                         *)
(* Open runs initMetaStore, initTCPServer (then starts the node server),   *)
(* initMetaClient, initTSDBStore, initHTTPServer and openServices in this  *)
(* order; with a remote meta service initMetaClient polls s.Node.Peers     *)
(* until the node server's joinCluster has written it.  joinCluster        *)
(* registers the node with the meta service (CreateDataNode, retried until *)
(* it succeeds), writes s.Node.ID and s.Node.Peers, saves the node file    *)
(* and answers the peer.  The node file and the meta service's data nodes  *)
(* survive a crash of the process; everything else is lost.               *)
(***************************************************************************)
EXTENDS Naturals, Sequences, FiniteSets

CONSTANTS
    Requests,     \* requests a peer may send: [type, peers : BOOLEAN]
    NoNode,       \* s.Node before initMetaStore
    NoFile,       \* no node file on disk
    MaxRequests,  \* bound on requests sent to the node server
    MaxFailures,  \* bound on injected I/O or RPC failures
    MaxRestarts,  \* bound on crashes of the process
    MaxHandlers   \* bound on HTTP requests being handled at once

\* Every join can register at most one data node; one may exist at start.
MaxID == MaxRequests + 1

\* The components Open creates; "tcp" is the node listener (tcpMux) and
\* "httpListener" and "httpMux" are the HTTP listener and its cmux.
Svcs == {"tcp", "metaClient", "store", "pointsWriter", "hintedHandoff",
         "subscriber", "queryExecutor", "coordinator", "snapshotter",
         "httpListener", "httpMux"}
\* The services that write into the TSDB store.
StoreWriters == {"pointsWriter", "hintedHandoff", "subscriber", "coordinator", "snapshotter"}

NodeRec == [id : 0..MaxID, peers : BOOLEAN]

VARIABLES
    disk,      \* the node file: NoFile or [id, peers]
    meta,      \* IDs of the data nodes the meta service has registered
    nextID,    \* the ID the meta service assigns next
    remote,    \* Config.Meta.HTTPD != nil: the meta service is remote
    node,      \* s.Node: NoNode or [id, peers] (peers: len(Peers) > 0)
    newNode,   \* s.NewNode
    svc,       \* [Svcs -> "nil", "created", "open" or "closed"]
    mpc,       \* step of the goroutine running Open and then Close
    npc,       \* step of the node-server goroutine
    req,       \* the request the node server is handling
    jid,       \* n.ID returned by CreateDataNode
    inbox,     \* connections accepted by the listener, not yet handled
    sent,      \* requests sent so far
    replied,   \* a peer has received a data node from joinCluster
    failures,  \* injected failures so far
    restarts,  \* crashes so far
    hpc,       \* the startHTTPServer goroutine: none, start, serving or done
    handlers,  \* HTTP requests accepted and still being handled
    ci         \* components Close has gone through

vars == <<disk, meta, nextID, remote, node, newNode, svc, mpc, npc, req, jid,
          inbox, sent, replied, failures, restarts, hpc, handlers, ci>>

\* Open has returned: with nil, with an error, or the process went on to Close.
Returned == {"serving", "failed", "closing", "closed", "panicked"}
\* Steps of Open after initMetaClient has left its wait for peers.
PastWait == {"mcopen", "mcwait", "tsdb", "http", "services", "serving"}

\* NewServer(c): nothing is created yet.
Fresh == <<NoNode, FALSE, [x \in Svcs |-> "nil"], "metastore", "idle",
           CHOOSE r \in Requests : TRUE, 0, <<>>, "none", 0, 0>>

\* The in-memory state takes the values of Fresh.
IsFresh(n, nn, sv, m, np, rq, j, ib, hp, hd, c) ==
    /\ n = Fresh[1] /\ nn = Fresh[2] /\ sv = Fresh[3] /\ m = Fresh[4]
    /\ np = Fresh[5] /\ rq = Fresh[6] /\ j = Fresh[7] /\ ib = Fresh[8]
    /\ hp = Fresh[9] /\ hd = Fresh[10] /\ c = Fresh[11]

Init ==
    /\ disk \in {NoFile, [id |-> 1, peers |-> TRUE]}
    /\ meta = IF disk = NoFile THEN {} ELSE {1}
    /\ nextID = Cardinality(meta) + 1
    /\ remote \in BOOLEAN
    /\ IsFresh(node, newNode, svc, mpc, npc, req, jid, inbox, hpc, handlers, ci)
    /\ sent = 0 /\ replied = FALSE /\ failures = 0 /\ restarts = 0

\* An I/O call or RPC fails (bounded).
Fail == failures < MaxFailures /\ failures' = failures + 1

----------------------------------------------------------------------------
(* Open                                                                    *)

\* Faulty variant: any LoadNode result is taken as "no node file".
InitMetaStore_ignoreFile ==
    /\ mpc = "metastore"
    /\ \/ Fail /\ mpc' = "failed" /\ UNCHANGED <<node, newNode>>
       \/ newNode' = TRUE /\ node' = [id |-> 0, peers |-> FALSE]
          /\ mpc' = "tcp" /\ UNCHANGED failures
    /\ UNCHANGED <<disk, meta, nextID, remote, svc, npc, req, jid, inbox, sent, replied, restarts, hpc, handlers, ci>>

\* Faulty variant: a missing node file sets NewNode but leaves s.Node nil.
InitMetaStore_forgetNode ==
    /\ mpc = "metastore"
    /\ \/ Fail /\ mpc' = "failed" /\ UNCHANGED <<node, newNode>>
       \/ disk = NoFile /\ newNode' = TRUE /\ mpc' = "tcp" /\ UNCHANGED <<node, failures>>
       \/ disk # NoFile /\ node' = disk /\ mpc' = "tcp"
          /\ UNCHANGED <<newNode, failures>>
    /\ UNCHANGED <<disk, meta, nextID, remote, svc, npc, req, jid, inbox, sent, replied, restarts, hpc, handlers, ci>>

\* initMetaStore: MkdirAll, then LoadNode; a missing file makes a new node.
InitMetaStore ==
    /\ mpc = "metastore"
    /\ \/ Fail /\ mpc' = "failed" /\ UNCHANGED <<node, newNode>>
       \/ disk = NoFile /\ newNode' = TRUE /\ node' = [id |-> 0, peers |-> FALSE]
          /\ mpc' = "tcp" /\ UNCHANGED failures
       \/ disk # NoFile /\ node' = disk /\ mpc' = "tcp"
          /\ UNCHANGED <<newNode, failures>>
    /\ UNCHANGED <<disk, meta, nextID, remote, svc, npc, req, jid, inbox, sent, replied, restarts, hpc, handlers, ci>>

\* initTCPServer: net.Listen, then `go s.startNodeServer()`.
InitTCPServer ==
    /\ mpc = "tcp"
    /\ \/ Fail /\ mpc' = "failed" /\ UNCHANGED <<svc, npc>>
       \/ svc' = [svc EXCEPT !["tcp"] = "open"] /\ npc' = "accept"
          /\ mpc' = "metaclient" /\ UNCHANGED failures
    /\ UNCHANGED <<disk, meta, nextID, remote, node, newNode, req, jid, inbox, sent, replied, restarts, hpc, handlers, ci>>

\* initMetaClient: a local client, or a remote one once len(s.Node.Peers) > 0
\* (the loop sleeps a second and reads s.Node.Peers again).
InitMetaClient ==
    /\ mpc = "metaclient"
    /\ ~remote \/ node.peers
    /\ svc' = [svc EXCEPT !["metaClient"] = "created"]
    /\ mpc' = "mcopen"
    /\ UNCHANGED <<disk, meta, nextID, remote, node, newNode, npc, req, jid, inbox, sent, replied, failures, restarts, hpc, handlers, ci>>

\* s.metaClient.Open(); a node with an ID waits for the meta data.
MetaClientOpen ==
    /\ mpc = "mcopen"
    /\ \/ Fail /\ mpc' = "failed" /\ UNCHANGED svc
       \/ svc' = [svc EXCEPT !["metaClient"] = "open"] /\ UNCHANGED failures
          /\ mpc' = IF node.id > 0 THEN "mcwait" ELSE "tsdb"
    /\ UNCHANGED <<disk, meta, nextID, remote, node, newNode, npc, req, jid, inbox, sent, replied, restarts, hpc, handlers, ci>>

\* s.metaClient.WaitForDataChanged()
WaitForDataChanged ==
    /\ mpc = "mcwait"
    /\ mpc' = "tsdb"
    /\ UNCHANGED <<disk, meta, nextID, remote, node, newNode, svc, npc, req, jid, inbox, sent, replied, failures, restarts, hpc, handlers, ci>>

\* The services initTSDBStore opens, in its order; s.services is empty.
TSDBOpenOrder == <<"store", "pointsWriter", "hintedHandoff", "subscriber">>

\* initTSDBStore: every component is created, then the store, the points
\* writer, hinted handoff and the subscriber are opened in order; the k-th
\* Open may fail and end Open with the earlier ones open.
InitTSDBStore ==
    LET created == [x \in Svcs |-> IF x \in {"store", "pointsWriter", "hintedHandoff",
                        "subscriber", "queryExecutor", "coordinator", "snapshotter"}
                                   THEN "created" ELSE svc[x]]
        opened(k) == [x \in Svcs |-> IF \E i \in 1..k : TSDBOpenOrder[i] = x
                                        THEN "open" ELSE created[x]]
    IN
    /\ mpc = "tsdb"
    /\ \/ svc' = opened(Len(TSDBOpenOrder)) /\ mpc' = "http" /\ UNCHANGED failures
       \/ \E k \in 0..(Len(TSDBOpenOrder) - 1) :
             Fail /\ svc' = opened(k) /\ mpc' = "failed"
    /\ UNCHANGED <<disk, meta, nextID, remote, node, newNode, npc, req, jid, inbox, sent, replied, restarts, hpc, handlers, ci>>

\* initHTTPServer: net.Listen, then httpMux and httpListener are set.
InitHTTPServer ==
    /\ mpc = "http"
    /\ \/ Fail /\ mpc' = "failed" /\ UNCHANGED svc
       \/ svc' = [svc EXCEPT !["httpListener"] = "open", !["httpMux"] = "open"]
          /\ mpc' = "services"
          /\ UNCHANGED failures
    /\ UNCHANGED <<disk, meta, nextID, remote, node, newNode, npc, req, jid, inbox, sent, replied, restarts, hpc, handlers, ci>>

\* openServices: the coordinator, then the snapshotter; then
\* `go s.startHTTPServer()` and Open returns nil.
OpenServices ==
    /\ mpc = "services"
    /\ \/ Fail /\ mpc' = "failed" /\ UNCHANGED <<svc, hpc>>
       \/ Fail /\ svc' = [svc EXCEPT !["coordinator"] = "open"] /\ mpc' = "failed"
          /\ UNCHANGED hpc
       \/ svc' = [svc EXCEPT !["coordinator"] = "open", !["snapshotter"] = "open"]
          /\ mpc' = "serving" /\ hpc' = "start" /\ UNCHANGED failures
    /\ UNCHANGED <<disk, meta, nextID, remote, node, newNode, npc, req, jid, inbox, sent, replied, restarts, handlers, ci>>

\* The components Close goes through after the (empty) s.services loop,
\* in its order; the last two are closed without a nil check.
CloseOrder == <<"pointsWriter", "queryExecutor", "store", "metaClient",
                "httpListener", "httpMux">>
Unchecked == {"httpListener", "httpMux"}

\* Close going through the components of order, one call per step: a
\* non-nil one is closed, a nil one skipped, and an unchecked nil one is
\* dereferenced and panics; at the end close(s.closing) returns.
CloseThrough(order) ==
    /\ mpc = "closing"
    /\ \/ ci = Len(order) /\ mpc' = "closed" /\ UNCHANGED <<svc, ci>>
       \/ ci < Len(order)
          /\ LET x == order[ci + 1] IN
             IF x \in Unchecked /\ svc[x] = "nil"
               THEN mpc' = "panicked" /\ UNCHANGED <<svc, ci>>
               ELSE /\ svc' = [svc EXCEPT ![x] = IF @ = "nil" THEN "nil" ELSE "closed"]
                    /\ ci' = ci + 1 /\ UNCHANGED mpc
    /\ UNCHANGED <<disk, meta, nextID, remote, node, newNode, npc, req, jid, inbox, sent, replied, failures, restarts, hpc, handlers>>

\* Faulty variant: s.httpMux.Close() is missing.
Close_keepMux == CloseThrough(SubSeq(CloseOrder, 1, Len(CloseOrder) - 1))

\* Close
Close == CloseThrough(CloseOrder)

----------------------------------------------------------------------------
(* The node server (startNodeServer's goroutine and joinCluster)           *)

\* A panic in any goroutine ends the process.
Alive == mpc # "panicked"

NGoto(p) == npc' = p

\* conn, err := s.tcpListener.Accept()
Accept ==
    /\ npc = "accept" /\ inbox # <<>>
    /\ req' = Head(inbox) /\ inbox' = Tail(inbox)
    /\ NGoto("decode")
    /\ UNCHANGED <<disk, meta, nextID, remote, node, newNode, svc, mpc, jid, sent, replied, failures, restarts, hpc, handlers, ci>>

\* Faulty variant: the check len(r.Peers) == 0 is missing.
HandleRequest_allowNoPeers ==
    /\ npc = "decode"
    /\ IF req.type = "join" /\ newNode
          THEN NGoto("jopen") ELSE NGoto("accept")
    /\ UNCHANGED <<disk, meta, nextID, remote, node, newNode, svc, mpc, req, jid, inbox, sent, replied, failures, restarts, hpc, handlers, ci>>

\* Decode the request: a join reaches joinCluster only on a new node and
\* with peers; anything else (an unknown type, or a body that does not
\* decode and leaves Type 0) is logged and the connection closed.
HandleRequest ==
    /\ npc = "decode"
    /\ IF req.type = "join" /\ newNode /\ req.peers
          THEN NGoto("jopen") ELSE NGoto("accept")
    /\ UNCHANGED <<disk, meta, nextID, remote, node, newNode, svc, mpc, req, jid, inbox, sent, replied, failures, restarts, hpc, handlers, ci>>

\* joinCluster: metaClient.Open() on the peers; an error returns.
JoinOpen ==
    /\ npc = "jopen"
    /\ \/ Fail /\ NGoto("accept")
       \/ NGoto(IF node.id > 0 THEN "jwait" ELSE "jcheck") /\ UNCHANGED failures
    /\ UNCHANGED <<disk, meta, nextID, remote, node, newNode, svc, mpc, req, jid, inbox, sent, replied, restarts, hpc, handlers, ci>>

\* if s.Node.ID > 0 { metaClient.WaitForDataChanged() }
JoinWait ==
    /\ npc = "jwait"
    /\ NGoto("jcheck")
    /\ UNCHANGED <<disk, meta, nextID, remote, node, newNode, svc, mpc, req, jid, inbox, sent, replied, failures, restarts, hpc, handlers, ci>>

\* if _, err := metaClient.DataNode(s.Node.ID); err == nil { return }
\* Any error, "not found" or a failed RPC, goes on to CreateDataNode.
JoinCheck ==
    /\ npc = "jcheck"
    /\ \/ node.id \in meta /\ NGoto("accept") /\ UNCHANGED failures
       \/ node.id \notin meta /\ NGoto("jcreate") /\ UNCHANGED failures
       \/ Fail /\ NGoto("jcreate")
    /\ UNCHANGED <<disk, meta, nextID, remote, node, newNode, svc, mpc, req, jid, inbox, sent, replied, restarts, hpc, handlers, ci>>

\* n, err := metaClient.CreateDataNode(...); for err != nil { sleep; retry }
JoinCreate ==
    /\ npc = "jcreate"
    /\ \/ Fail /\ UNCHANGED <<meta, nextID, jid, npc>>
       \/ nextID <= MaxID /\ meta' = meta \cup {nextID} /\ jid' = nextID
          /\ nextID' = nextID + 1 /\ NGoto("jassign") /\ UNCHANGED failures
    /\ UNCHANGED <<disk, remote, node, newNode, svc, mpc, req, inbox, sent, replied, restarts, hpc, handlers, ci>>

\* Faulty variant: s.Node.Peers is written before s.Node.ID.
JoinAssign_peersFirst ==
    /\ \/ npc = "jassign" /\ node' = [node EXCEPT !.peers = req.peers] /\ NGoto("jpeers")
       \/ npc = "jpeers" /\ node' = [node EXCEPT !.id = jid] /\ NGoto("jsave")
    /\ UNCHANGED <<disk, meta, nextID, remote, newNode, svc, mpc, req, jid, inbox, sent, replied, failures, restarts, hpc, handlers, ci>>

\* s.Node.ID = n.ID; s.Node.Peers = peers (two writes, read by Open's loop).
JoinAssign ==
    /\ \/ npc = "jassign" /\ node' = [node EXCEPT !.id = jid] /\ NGoto("jpeers")
       \/ npc = "jpeers" /\ node' = [node EXCEPT !.peers = req.peers] /\ NGoto("jsave")
    /\ UNCHANGED <<disk, meta, nextID, remote, newNode, svc, mpc, req, jid, inbox, sent, replied, failures, restarts, hpc, handlers, ci>>

\* Faulty variant: a failed Save is logged and the join goes on.
JoinSave_ignoreError ==
    /\ npc = "jsave"
    /\ \/ Fail /\ UNCHANGED disk
       \/ disk' = node /\ UNCHANGED failures
    /\ newNode' = FALSE /\ NGoto("jreply")
    /\ UNCHANGED <<meta, nextID, remote, node, svc, mpc, req, jid, inbox, sent, replied, restarts, hpc, handlers, ci>>

\* if err := s.Node.Save(); err != nil { return }; s.NewNode = false
JoinSave ==
    /\ npc = "jsave"
    /\ \/ Fail /\ NGoto("accept") /\ UNCHANGED <<disk, newNode>>
       \/ disk' = node /\ newNode' = FALSE /\ NGoto("jreply") /\ UNCHANGED failures
    /\ UNCHANGED <<meta, nextID, remote, node, svc, mpc, req, jid, inbox, sent, replied, restarts, hpc, handlers, ci>>

\* json.NewEncoder(conn).Encode(n): the peer learns its data node, unless
\* the write fails (logged); then conn.Close().
JoinReply ==
    /\ npc = "jreply"
    /\ \/ replied' = TRUE /\ UNCHANGED failures
       \/ Fail /\ UNCHANGED replied
    /\ NGoto("accept")
    /\ UNCHANGED <<disk, meta, nextID, remote, node, newNode, svc, mpc, req, jid, inbox, sent, restarts, hpc, handlers, ci>>

NodeServer ==
    /\ Alive
    /\ \/ Accept \/ HandleRequest \/ JoinOpen \/ JoinWait \/ JoinCheck
       \/ JoinCreate \/ JoinAssign \/ JoinSave \/ JoinReply

----------------------------------------------------------------------------
(* The HTTP server (startHTTPServer's goroutines and the handlers)         *)

\* go s.startHTTPServer(): s.httpServer is set and serves httpListener in a
\* goroutine of its own, and httpMux.Serve() blocks; both return at once
\* when Close has already closed the mux.
StartHTTPServer ==
    /\ hpc = "start"
    /\ hpc' = IF svc["httpMux"] = "closed" THEN "done" ELSE "serving"
    /\ UNCHANGED <<disk, meta, nextID, remote, node, newNode, svc, mpc, npc, req, jid, inbox, sent, replied, failures, restarts, handlers, ci>>

\* httpMux.Serve() returns once s.httpMux.Close() has closed the listener.
HTTPServeReturn ==
    /\ hpc = "serving" /\ svc["httpMux"] = "closed"
    /\ hpc' = "done"
    /\ UNCHANGED <<disk, meta, nextID, remote, node, newNode, svc, mpc, npc, req, jid, inbox, sent, replied, failures, restarts, handlers, ci>>

\* httpServer.Serve(s.httpListener) accepts a client's request and starts
\* its handler; it stops accepting once the listener is closed.
HTTPRequest ==
    /\ Alive /\ hpc = "serving" /\ svc["httpListener"] = "open"
    /\ handlers < MaxHandlers /\ handlers' = handlers + 1
    /\ UNCHANGED <<disk, meta, nextID, remote, node, newNode, svc, mpc, npc, req, jid, inbox, sent, replied, failures, restarts, hpc, ci>>

\* The handler runs the request through s.queryExecutor and
\* s.pointsWriter (initHTTPServer), which read and write the TSDB store.
HTTPHandle ==
    /\ handlers > 0 /\ handlers' = handlers - 1
    /\ UNCHANGED <<disk, meta, nextID, remote, node, newNode, svc, mpc, npc, req, jid, inbox, sent, replied, failures, restarts, hpc, ci>>

HTTPServer == Alive /\ (StartHTTPServer \/ HTTPServeReturn \/ HTTPHandle)

Main ==
    \/ InitMetaStore \/ InitTCPServer \/ InitMetaClient \/ MetaClientOpen
    \/ WaitForDataChanged \/ InitTSDBStore \/ InitHTTPServer \/ OpenServices
    \/ Close

----------------------------------------------------------------------------
(* The environment                                                         *)

\* Close is called on the server once Open has returned.
CallClose ==
    /\ mpc \in {"serving", "failed"}
    /\ mpc' = "closing" /\ ci' = 0
    /\ UNCHANGED <<disk, meta, nextID, remote, node, newNode, svc, npc, req, jid, inbox, sent, replied, failures, restarts, hpc, handlers>>

\* A peer connects to the node listener and sends a request.
Send(r) ==
    /\ Alive /\ svc["tcp"] = "open" /\ sent < MaxRequests
    /\ inbox' = Append(inbox, r) /\ sent' = sent + 1
    /\ UNCHANGED <<disk, meta, nextID, remote, node, newNode, svc, mpc, npc, req, jid, replied, failures, restarts, hpc, handlers, ci>>

\* The process dies at any point (or has panicked) and is started again
\* with the same configuration: only the node file and the meta service
\* keep their state; open connections are lost.
Restart ==
    /\ restarts < MaxRestarts
    /\ restarts' = restarts + 1
    /\ IsFresh(node', newNode', svc', mpc', npc', req', jid', inbox', hpc', handlers', ci')
    /\ UNCHANGED <<disk, meta, nextID, remote, sent, replied, failures>>

Next ==
    \/ Main \/ NodeServer \/ HTTPServer
    \/ CallClose \/ HTTPRequest
    \/ \E r \in Requests : Send(r)
    \/ Restart

\* Goroutines are preemptively scheduled: Open and the node server keep
\* moving while they can.  Requests, crashes and the call of Close come
\* from outside and are never forced.  Failures are bounded, so the
\* CreateDataNode retry loop eventually succeeds.
Fairness == WF_vars(Main) /\ WF_vars(NodeServer) /\ WF_vars(HTTPServer)

Spec == Init /\ [][Next]_vars /\ Fairness

----------------------------------------------------------------------------
TypeOK ==
    /\ disk \in NodeRec \cup {NoFile}
    /\ meta \subseteq 1..MaxID /\ nextID \in 1..(MaxID + 1)
    /\ node \in NodeRec \cup {NoNode}
    /\ svc["tcp"] # "nil" => node \in NodeRec
    /\ svc \in [Svcs -> {"nil", "created", "open", "closed"}]
    /\ inbox \in Seq(Requests) /\ jid \in 0..MaxID
    /\ replied \in BOOLEAN /\ newNode \in BOOLEAN
    /\ hpc \in {"none", "start", "serving", "done"}
    /\ handlers \in 0..MaxHandlers /\ ci \in 0..Len(CloseOrder)

\* A peer that has been told its data node can rely on it: the node file
\* on disk names that data node and the meta service has it, across
\* crashes (joinCluster answers only after Save succeeded).
ReplyImpliesDurable ==
    replied => disk # NoFile /\ disk.id \in meta

\* With a remote meta service, Open gets past its wait for s.Node.Peers
\* only as a data node the meta service has registered: joinCluster writes
\* s.Node.ID before s.Node.Peers, which is what the loop polls.
RegisteredBeforeMetaClient ==
    remote /\ mpc \in PastWait => node.id \in meta

\* However often the node is asked to join, and whatever fails on the way,
\* the meta service registers at most one data node for this server
\* (NewNode and the DataNode(s.Node.ID) check make joinCluster idempotent).
OneDataNodePerServer == Cardinality(meta) <= 1

\* Once the node has answered a join, Open, polling s.Node.Peers, returns.
OpenFinishes == replied ~> mpc \in Returned

\* The ID the running process holds: CreateDataNode's answer until
\* joinCluster has copied it into s.Node.ID.
HeldID == IF npc = "jassign" THEN jid ELSE IF node = NoNode THEN 0 ELSE node.id

Identity == INSTANCE NodeIdentity WITH
    registered <- meta,
    file <- IF disk = NoFile THEN NoFile ELSE disk.id,
    held <- HeldID,
    acked <- replied

\* The server keeps the identity contract of NodeIdentity: a data node is
\* registered only while no node file exists, the node file is written
\* once with a registered ID and never changes, and a peer is answered
\* only with the saved ID (across crashes, failed RPCs and retries).
JoinContract == Identity!Spec

\* An ID the running node has been given is eventually saved in its node
\* file, so that a restart keeps it (unless the process dies first).
NodeIdentityPersisted ==
    \A i \in 1..MaxID :
        (node \in NodeRec /\ node.id = i) ~> ((disk \in NodeRec /\ disk.id = i) \/ ~Alive)

\* Close: "Close the TSDBStore, no more reads or writes at this point":
\* when the store is closed no service that writes into it is still open,
\* the HTTP listener accepts no more requests and no handler is running.
StoreClosedLast ==
    svc["store"] = "closed" =>
        /\ \A x \in StoreWriters : svc[x] # "open"
        /\ svc["httpListener"] # "open" /\ handlers = 0

\* Close can be called on a server whose Open failed (it checks every
\* component for nil) without panicking.
CloseNoPanic == mpc # "panicked"

\* Once Close has returned, the HTTP server goroutine started by Open ends,
\* also when Close ran before the goroutine was scheduled (its Serve calls
\* return when httpListener and httpMux are closed).
HTTPServerStops == mpc = "closed" ~> hpc \notin {"start", "serving"}

====
