----------------------------- MODULE MCHosting -----------------------------
(* The three services of ryobid, with its names and with two alike.        *)
EXTENDS Hosting

CONSTANTS http, grpc, worker

RyobidServices == {http, grpc, worker}
ServiceNames   == {"api-server", "grpc-server", "async-worker"}
ServiceNamings ==
    { f \in [RyobidServices -> ServiceNames] :
        f[grpc] = "grpc-server" /\ f[worker] = "async-worker" /\ f[http] # "async-worker" }
=============================================================================
