---------------------------- MODULE MCSupervisor ----------------------------
(* The API has a listener and no fingerprint and runs turns; the relay has both a   *)
(* listener and a fingerprint and runs none; the gateway is missing from the build. *)
EXTENDS Supervisor

MCSubs == <<"http", "gateway", "swarm">>
Cfg(on, moved, listens) ==
  [on |-> on, print |-> [k \in Kinds |-> IF k \in moved THEN 1 ELSE 0],
   key |-> [k \in Kinds |-> IF k \in listens THEN 1 ELSE 0]]
\* Both surfaces; the relay alone, built anew; nothing at all; the API moved together with a
\* surface the build does not have.
MCConfigs ==
  {Cfg({"http", "swarm"}, {}, {}), Cfg({"swarm"}, {"swarm"}, {}), Cfg({}, {}, {}),
   Cfg({"http", "gateway"}, {}, {"http"})}
=============================================================================
