----------------------------- MODULE Enrichment -----------------------------
(***************************************************************************)
(* How the network-flow aggregator names the ends of a TCP flow            *)
(* (network-flow-aggregator, collector/server.go, collector/kube and       *)
(* collector/peerindex).  A client opens a connection to a Service or      *)
(* straight to a pod.  The agent of the client's node reports it, and so   *)
(* does the agent of the server's node, as a reply.  Each report is        *)
(* enriched by lookups in informer caches that lag behind the cluster and  *)
(* may change between two lookups of one report; the address of a pod may  *)
(* pass to another pod; the peer index joins the reply to the report of    *)
(* the client, whichever arrives first.  The store's lock lets one report  *)
(* be enriched at a time.                                                  *)
(***************************************************************************)
EXTENDS Integers, Sequences, FiniteSets

CONSTANTS
  Selected,       \* Service -> the pods it selects; the target port is the same for all
  Target,         \* the Service that the clients use
  Client,         \* a client that is a pod
  HostClient,     \* a client in the network of its node
  Addrs,          \* addresses of pods
  NodeAddr,       \* the address of HostClient's node
  Ports,          \* ports of clients: the range they come from is a node's own setting
  HostnameOf,     \* address -> the host name that the DNS cache may have for it
  Uses,           \* how clients connect: <<client, port, straight to a pod?>>
  MaxConns        \* bound: connections

VARIABLES
  ip,             \* the cluster: the address of each pod, or "none"
  podCache,       \* the pod informer's copy of ip
  sliceCache,     \* the EndpointSlice informer's endpoints: <<pod, address>> by Service
  conn,           \* the connections so far
  sent,           \* reports under way: <<connection, "client" or "reply">>
  peer,           \* the peer index: client socket -> backend
  cur,            \* the report in work, and what is known of it so far
  \* history
  held            \* which pod had which address

enrichmentVars == <<ip, podCache, sliceCache, conn, sent, peer, cur, held>>

Services == DOMAIN Selected
Servers == UNION {Selected[svc] : svc \in Services}
Pods == Servers \cup {Client}
ServicePort == 80
TargetPort == 8080
Nothing == [kind |-> "", name |-> "none"]
NoEntry == [pod |-> "none", service |-> "none"]
linuxDefaultEphemeralPortMin == 32768
Idle == [pc |-> "idle", report |-> <<0, "none">>, dst |-> Nothing, backend |-> "none"]
-----------------------------------------------------------------------------
\* The two sockets of a report, the other end being the Service's when the client used it.
srcEndpoint(report) ==
  LET c == conn[report[1]]
  IN  IF report[2] = "client" THEN c.client ELSE <<c.at, TargetPort>>

dstEndpoint(report) ==
  LET c == conn[report[1]]
  IN  IF report[2] = "reply" THEN c.client
      ELSE IF c.direct THEN <<c.at, TargetPort>> ELSE <<Target, ServicePort>>

reporter(report) ==
  IF report[2] = "client" THEN conn[report[1]].from ELSE conn[report[1]].server
-----------------------------------------------------------------------------
workloadOf(pod) == IF pod \in Servers THEN "server" ELSE "client"

\* The owner at the end of a pod's owner references.  A pod that is not cached stands for
\* itself, and the walk ends at a ReplicaSet that is not cached.
ResolveSrcWorkload(pod) ==
  IF podCache[pod] = "none"
    THEN {[kind |-> "Pod", name |-> pod]}
    ELSE {[kind |-> k, name |-> workloadOf(pod)] : k \in {"ReplicaSet", "Deployment"}}

\* The ready endpoint at a socket.  When several Services have it, the one listed last is
\* taken, and the order of the list is that of a Go map.
LookupEndpoint(socket) ==
  IF socket[2] # TargetPort THEN {}
  ELSE UNION {{[service |-> svc, pod |-> ep[1]] :
                  ep \in {e \in sliceCache[svc] : e[2] = socket[1]}} : svc \in Services}

\* The Services with an endpoint at the address, whatever the port.
buildEndpointIPIndex(addr) ==
  {svc \in Services : \E ep \in sliceCache[svc] : ep[2] = addr}

buildPodIPIndex(addr) == {pod \in Pods : podCache[pod] = addr}

\* The Service of an address and a port: its own address, or an endpoint's.
buildDstIndex(socket) ==
  (Services \cap {socket[1]}) \cup {e.service : e \in LookupEndpoint(socket)}

\* The node or nothing, when no Service and no pod can be named.
resolveDstFromNodeIP(addr) ==
  IF addr = NodeAddr THEN {[kind |-> "Node", name |-> addr]} ELSE {Nothing}

\* Not the code: it names the pod whatever the port.
ResolveDstAnyPort(socket) ==
  LET exact == buildDstIndex(socket)
      byIP == buildEndpointIPIndex(socket[1])
      pods == buildPodIPIndex(socket[1])
  IN  IF exact # {} THEN {[kind |-> "Service", name |-> svc] : svc \in exact}
      ELSE IF Cardinality(byIP) = 1 THEN {[kind |-> "Service", name |-> svc] : svc \in byIP}
      ELSE IF Cardinality(pods) = 1 THEN UNION {ResolveSrcWorkload(p) : p \in pods}
      ELSE resolveDstFromNodeIP(socket[1])

\* What a destination may be resolved to: the Service of the address and port; the only
\* Service with the address; the only pod with it, unless the port is an ephemeral one;
\* the node.
ResolveDst(socket) ==
  LET exact == buildDstIndex(socket)
      byIP == buildEndpointIPIndex(socket[1])
      pods == buildPodIPIndex(socket[1])
  IN  IF exact # {} THEN {[kind |-> "Service", name |-> svc] : svc \in exact}
      ELSE IF Cardinality(byIP) = 1 THEN {[kind |-> "Service", name |-> svc] : svc \in byIP}
      ELSE IF socket[2] < linuxDefaultEphemeralPortMin /\ Cardinality(pods) = 1
        THEN UNION {ResolveSrcWorkload(p) : p \in pods}
      ELSE resolveDstFromNodeIP(socket[1])
-----------------------------------------------------------------------------
\* Not the code: all connections of a client share an entry.
peerKeyAddr(socket) == <<socket[1], CHOOSE p \in Ports : TRUE>>

peerKey(socket) == socket

Put(socket, entry) == peer' = [peer EXCEPT ![peerKey(socket)] = entry]

Lookup(socket) == peer[peerKey(socket)]

\* An entry's time is up.  Put prunes by the time of its report and Lookup by the clock of
\* the aggregator, and both depend on the clocks of the agents: an entry may go at any time.
pruneLocked(socket) ==
  /\ peer[socket] # NoEntry
  /\ peer' = [peer EXCEPT ![socket] = NoEntry]
  /\ UNCHANGED <<ip, podCache, sliceCache, conn, sent, cur, held>>
-----------------------------------------------------------------------------
endpoints ==
  [svc \in Services |-> {<<pod, ip[pod]>> : pod \in {p \in Selected[svc] : ip[p] # "none"}}]

\* The cluster: a pod stops for good; a pod starts at a free address, ready; a client
\* connects, to a server itself or to one that the Service's proxy picks.
Stop(pod) ==
  /\ ip[pod] # "none"
  /\ ip' = [ip EXCEPT ![pod] = "none"]
  /\ UNCHANGED <<podCache, sliceCache, conn, sent, peer, cur, held>>

Start(pod, addr) ==
  /\ \A h \in held : h[1] # pod
  /\ \A other \in Pods : ip[other] # addr
  /\ ip' = [ip EXCEPT ![pod] = addr]
  /\ held' = held \cup {<<pod, addr>>}
  /\ UNCHANGED <<podCache, sliceCache, conn, sent, peer, cur>>

addrOf(from) == IF from = HostClient THEN NodeAddr ELSE ip[from]

Connect(from, port, server, direct) ==
  /\ Len(conn) < MaxConns
  /\ addrOf(from) # "none" /\ ip[server] # "none"
  /\ direct \/ server \in Selected[Target]
  /\ conn' = Append(conn, [from |-> from, client |-> <<addrOf(from), port>>,
                           server |-> server, at |-> ip[server], direct |-> direct])
  /\ sent' = sent \cup {<<Len(conn'), "client">>, <<Len(conn'), "reply">>}
  /\ UNCHANGED <<ip, podCache, sliceCache, peer, cur, held>>

\* An informer catches up with the cluster, with the slices of one Service at a time.
SyncPods ==
  /\ podCache # ip
  /\ podCache' = ip
  /\ UNCHANGED <<ip, sliceCache, conn, sent, peer, cur, held>>

SyncSlices(svc) ==
  /\ sliceCache[svc] # endpoints[svc]
  /\ sliceCache' = [sliceCache EXCEPT ![svc] = endpoints[svc]]
  /\ UNCHANGED <<ip, podCache, conn, sent, peer, cur, held>>
-----------------------------------------------------------------------------
\* enrichEvent begins, with isServerObservedTCP.  An agent sends its reports in order and
\* may lose some: what it reported before this one will not come any more.
TakeReport(report) ==
  /\ cur.pc = "idle" /\ report \in sent
  /\ sent' = {r \in sent : reporter(r) # reporter(report) \/ r[1] > report[1]}
  /\ cur' = [Idle EXCEPT !.report = report,
                !.pc = IF LookupEndpoint(srcEndpoint(report)) # {} THEN "record" ELSE "resolve"]
  /\ UNCHANGED <<ip, podCache, sliceCache, conn, peer, held>>

\* The host name that the DNS cache has for an address, for the pod that reports or for
\* any other (see DnsCache); it may have expired.
cachedHostname(addr) ==
  {Nothing} \cup {[kind |-> "ExternalHostname", name |-> HostnameOf[a]] :
                    a \in {addr} \cap DOMAIN HostnameOf}

\* The destination by the informers' caches, or else by the DNS cache.
Resolve ==
  LET socket == dstEndpoint(cur.report)
  IN  /\ cur.pc = "resolve"
      /\ \E known \in ResolveDst(socket) :
           \E d \in IF known = Nothing THEN cachedHostname(socket[1]) ELSE {known} :
             cur' = [cur EXCEPT !.dst = d, !.pc = "record"]
      /\ UNCHANGED <<ip, podCache, sliceCache, conn, sent, peer, held>>

\* The endpoint is looked up anew, and the peer index learns who serves the client's socket.
recordServerPeer ==
  LET entries == LookupEndpoint(srcEndpoint(cur.report))
  IN  /\ cur.pc = "record"
      /\ IF entries = {} THEN UNCHANGED peer
         ELSE \E e \in entries :
                Put(dstEndpoint(cur.report), [pod |-> reporter(cur.report), service |-> e.service])
      /\ cur' = [cur EXCEPT !.pc = IF cur.dst.kind = "Service" THEN "backend" ELSE "done"]
      /\ UNCHANGED <<ip, podCache, sliceCache, conn, sent, held>>

\* The backend of a flow to a Service: the endpoint itself when the flow names it, or what
\* the peer index knows of the client's socket, if that is about the same Service.
resolveClientBackend ==
  LET entries == LookupEndpoint(dstEndpoint(cur.report))
      known == Lookup(srcEndpoint(cur.report))
  IN  /\ cur.pc = "backend"
      /\ \/ \E e \in entries :
              /\ e.service = cur.dst.name
              /\ cur' = [cur EXCEPT !.pc = "done", !.backend = e.pod]
         \/ /\ entries = {} \/ \E e \in entries : e.service # cur.dst.name
            /\ cur' = [cur EXCEPT !.pc = "done",
                         !.backend = IF known.service = cur.dst.name THEN known.pod ELSE "none"]
      /\ UNCHANGED <<ip, podCache, sliceCache, conn, sent, peer, held>>

\* The enriched report is stored.
Store ==
  /\ cur.pc = "done"
  /\ cur' = Idle
  /\ UNCHANGED <<ip, podCache, sliceCache, conn, sent, peer, held>>
-----------------------------------------------------------------------------
placement == CHOOSE f \in [Pods -> Addrs \cup {"none"}] :
            /\ f[Client] # "none"
            /\ \E s \in Selected[Target] : f[s] \in Addrs \ {f[Client]}
                                         /\ \A p \in Pods \ {Client, s} : f[p] = "none"

Init ==
  /\ ip = placement /\ podCache = ip /\ sliceCache = endpoints
  /\ conn = <<>> /\ sent = {} /\ cur = Idle
  /\ peer = [s \in (Addrs \cup {NodeAddr}) \X (Ports \cup {TargetPort}) |-> NoEntry]
  /\ held = {<<p, ip[p]>> : p \in {q \in Pods : ip[q] # "none"}}

\* Nothing is told apart by what happens while a finished report waits to be stored.
Around ==
  /\ cur.pc # "done"
  /\ \/ \E p \in Pods : Stop(p) \/ \E a \in Addrs : Start(p, a)
     \/ \E u \in Uses, s \in Servers : Connect(u[1], u[2], s, u[3])
     \/ SyncPods
     \/ \E svc \in Services : SyncSlices(svc)
     \/ \E s \in DOMAIN peer : pruneLocked(s)

Next ==
  \/ Around
  \/ \E report \in sent : TakeReport(report)
  \/ Resolve
  \/ recordServerPeer
  \/ resolveClientBackend
  \/ Store

Spec == Init /\ [][Next]_enrichmentVars
-----------------------------------------------------------------------------
Recycled(addr, from) == \E h \in held : h[2] = addr /\ h[1] # from

\* A backend named for a flow served that connection (server.go:resolveClientBackend,
\* peerindex).  The exceptions are the ones the design cannot tell apart: the client's
\* socket was used for another connection too, which this backend did serve; or the flow names the address of a pod, and that address has
\* belonged to another pod too.
RightBackend ==
  cur.pc = "done" /\ cur.backend # "none" =>
    LET c == conn[cur.report[1]]
    IN  \/ cur.backend = c.server
        \/ c.direct /\ Recycled(c.at, c.server)
        \/ \E m \in DOMAIN conn : /\ conn[m].client = c.client /\ conn[m].server = cur.backend

\* What the client's socket of a reply may be taken for: the node, when the client is in
\* its node's network; a Service, when its address was also that of a pod of the Service;
\* a workload that had a pod at its address, when its port is below the default range of
\* ephemeral ports; or a host name that DNS has given for its address.
TakenFor(dst, socket) ==
  \/ dst.kind = "Node" /\ socket[1] = NodeAddr
  \/ dst.kind = "Service" /\ \E s \in Selected[dst.name] : <<s, socket[1]>> \in held
  \/ /\ socket[2] < linuxDefaultEphemeralPortMin
     /\ \E h \in held : h[2] = socket[1] /\ dst.name = workloadOf(h[1])
  \/ dst.kind = "ExternalHostname" /\ socket[1] \in DOMAIN HostnameOf

\* A reply makes no edge towards its client (server.go:119, enricher.go:218), neither when
\* the server is a known endpoint nor when the informers are behind, but for the cases of
\* TakenFor: from an ephemeral port, no workload is named.
NoFalseEdge ==
  cur.pc = "done" /\ cur.report[2] = "reply" /\ cur.dst # Nothing =>
    TakenFor(cur.dst, conn[cur.report[1]].client)

\* What the comment of isServerObservedTCP says: when a reply is not recognised, the test
\* of the port still "blocks the recycled-IP false-edge case" (server.go:160-161): a client
\* on an ephemeral port whose address had another pod too is taken for nothing in the
\* cluster.  Does not hold: a Service is named whatever the port.
RecycledMakesNoEdge ==
  cur.pc = "done" /\ cur.report[2] = "reply" =>
    LET c == conn[cur.report[1]]
    IN  c.client[2] >= linuxDefaultEphemeralPortMin /\ Recycled(c.client[1], c.from)
          => cur.dst.kind \notin {"Service", "Pod", "ReplicaSet", "Deployment"}
=============================================================================
