---------------------------- MODULE MCCollectors ----------------------------
(* Parts of the network-flow aggregator and of the event-watcher, and the    *)
(* opa and prometheus plugins, which have nothing in common with each other: *)
(* a behaviour is one of one part, chosen at the start, while the others     *)
(* stay in an initial state.                                                 *)
EXTENDS Collectors, TLC

VARIABLE part

MCReplies ==
  {<<"p", "x", "Success">>, <<"p", "y", "Success">>, <<"q", "y", "Success">>,
   <<"q", "x", "Failed">>, <<"p", "svc", "Success">>, <<"coredns", "x", "Success">>}

MCSelected == ("web" :> {"s1", "s2"}) @@ ("canary" :> {"s1"})
MCUses == {<<"c", 40000, FALSE>>, <<"c", 30000, FALSE>>, <<"c", 40000, TRUE>>,
           <<"host", 40000, FALSE>>}
MCHostnameOf == "a1" :> "db.example.com"

OpaCheck(name, isLibrary, regoVersion, needs) ==
  [name |-> name, isLibrary |-> isLibrary, regoVersion |-> regoVersion, needs |-> needs]
MCAnswers ==
  {<<OpaCheck("lib", TRUE, "v1", {}), OpaCheck("limits", FALSE, "v1", {"lib"}),
     OpaCheck("labels", FALSE, "v0", {})>>,
   <<OpaCheck("lib", TRUE, "v0", {}), OpaCheck("limits", FALSE, "v1", {"lib"})>>,
   <<>>}
MCTargetFlags == <<[apiGroups |-> <<"apps">>, resources |-> <<"deployments", "daemonsets">>]>>
MCResources == {<<"apps", "deployments">>, <<"apps", "daemonsets">>}
MCResourceOf == ("d1" :> <<"apps", "deployments">>) @@ ("d2" :> <<"apps", "deployments">>)
                @@ ("s1" :> <<"apps", "daemonsets">>)
MCOutputs ==
  ("limits" :> (("d1" :> {"string"}) @@ ("d2" :> {"string", "other"}) @@ ("s1" :> {"map"})))
  @@ ("labels" :> (("d1" :> {}) @@ ("d2" :> {"map"}) @@ ("s1" :> {"map"})))

MCOwnerOf == ("web-1" :> "web") @@ ("web-api-1" :> "web-api") @@ ("db-0" :> "db")
MCNamespaceOf == ("web" :> "front") @@ ("web-api" :> "front") @@ ("db" :> "back")
MCPrefixes == ("web-1" :> {"web"}) @@ ("web-api-1" :> {"web", "web-api"}) @@ ("db-0" :> {"db"})
MCNameLength == ("web" :> 3) @@ ("web-api" :> 7) @@ ("db" :> 2)
MCContainersOf ==
  ("web-1" :> <<"app", "proxy">>) @@ ("web-api-1" :> <<"app">>) @@ ("db-0" :> <<"app">>)
MCTemplates == {<<"app">>, <<"app", "proxy">>}
MCMeasured ==
  ("memory" :> (("web-1" :> 7) @@ ("web-api-1" :> 8) @@ ("db-0" :> 9)))
  @@ ("cpu" :> (("web-1" :> 400) @@ ("web-api-1" :> 0) @@ ("db-0" :> 2500)))
  @@ ("memoryRequest" :> ("web-1" :> 6)) @@ ("cpuRequest" :> ("web-1" :> 5000))
  @@ ("memoryLimit" :> ("db-0" :> 12)) @@ ("cpuLimit" :> ("db-0" :> 3000))
  @@ ("networkTransmit" :> (("web-1" :> 37) @@ ("web-api-1" :> 20)))
  @@ ("networkReceive" :> (("web-1" :> 5) @@ ("db-0" :> 41)))
  @@ ("gpu" :> ("web-api-1" :> 50))
  @@ ("gpuRequest" :> (("web-api-1" :> 1000) @@ ("db-0" :> 1000)))
  @@ ("gpuLimit" :> ("web-api-1" :> 1000))
MCClaimsOf ==
  ("web-1" :> <<"data", "share">>) @@ ("web-api-1" :> <<"share">>) @@ ("db-0" :> <<"cache", "cache">>)
Claim(namespace, name, capacity) ==
  [namespace |-> namespace, name |-> name, capacity |-> capacity]
MCClaims ==
  <<Claim("front", "cache", 3), Claim("back", "cache", 5), Claim("front", "data", 4),
    Claim("front", "share", 6)>>
MCConfigs == {[gkeFallback |-> FALSE, skipCAdvisor |-> FALSE, skipKSM |-> TRUE],
              [gkeFallback |-> TRUE, skipCAdvisor |-> TRUE, skipKSM |-> FALSE]}

enrichmentVars == <<ip, podCache, sliceCache, conn, sent, peer, cur, held>>
dnsVars == <<clock, skew, answers, byWorkload, byIP, flow, recorded>>
routerVars == <<message, console, event, outcome>>
cloudWatchVars ==
  <<time, filtered, log, due, interval, consecutiveErrors, poll, seen, excused>>
opaVars == <<opaCluster, opaPc, checks, work, actionItems, opaFailed, files, opaStatus, uploads,
             told, errorsLeft, always, ever>>
metricsVars == <<config, exists, live, template, stage, query, found, storage, listing,
                 statistics, anomalies>>
vars == <<part, enrichmentVars, dnsVars, routerVars, cloudWatchVars, opaVars, metricsVars>>

Init ==
  /\ part \in {"enrichment", "dns", "router", "cloudwatch", "opa", "metrics"}
  /\ Enrichment!Init
  /\ Dns!Init /\ (part = "dns" \/ skew = [p \in Resolvers |-> 0])
  /\ IF part = "router" THEN Router!Init
     ELSE /\ message = Router!Passed("other", 1) /\ console = FALSE
          /\ event = Router!NoEvent /\ outcome = Router!Undone
  /\ CloudWatch!Init /\ (part = "cloudwatch" \/ ~filtered)
  /\ Opa!Init /\ (part = "opa" \/ opaCluster = {})
  /\ Metrics!Init
  /\ \/ part = "metrics"
     \/ config.skipKSM /\ template = [w \in Workloads |-> <<"app">>]

EnrichmentNext ==
  /\ part = "enrichment" /\ Enrichment!Next
  /\ UNCHANGED <<part, dnsVars, routerVars, cloudWatchVars, opaVars, metricsVars>>

DnsNext ==
  /\ part = "dns" /\ Dns!Next
  /\ UNCHANGED <<part, enrichmentVars, routerVars, cloudWatchVars, opaVars, metricsVars>>

RouterNext ==
  /\ part = "router" /\ Router!Next
  /\ UNCHANGED <<part, enrichmentVars, dnsVars, cloudWatchVars, opaVars, metricsVars>>

CloudWatchNext ==
  /\ part = "cloudwatch" /\ CloudWatch!Next
  /\ UNCHANGED <<part, enrichmentVars, dnsVars, routerVars, opaVars, metricsVars>>

OpaNext ==
  /\ part = "opa" /\ Opa!Next
  /\ UNCHANGED <<part, enrichmentVars, dnsVars, routerVars, cloudWatchVars, metricsVars>>

MetricsNext ==
  /\ part = "metrics" /\ Metrics!Next
  /\ UNCHANGED <<part, enrichmentVars, dnsVars, routerVars, cloudWatchVars, opaVars>>

Next ==
  \/ EnrichmentNext \/ DnsNext \/ RouterNext \/ CloudWatchNext \/ OpaNext \/ MetricsNext

Spec == Init /\ [][Next]_vars
=============================================================================
