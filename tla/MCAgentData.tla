---------------------------- MODULE MCAgentData ----------------------------
(* What agents send, in one run for TLC: the three modules share no variable, *)
(* so that one of them moves, chosen at the start, and the others stand still. *)
EXTENDS AgentTelemetry, Identity, InventorySync

CONSTANTS dom, pc1, pc2, ip1, ip2

VARIABLE part

\* One of the computers is on the network; its row may have been entered by hand.  What a part that
\* stands still starts with makes no difference.
OnePart ==
  /\ part \in {"telemetry", "identity", "inventory"}
  /\ address[pc1] = ip1 /\ address[pc2] = NoIp
  /\ entryIp[1] \in {NoIp, ip1}
  /\ part # "telemetry" => exempt = FALSE
  /\ part # "identity" => entryIp[1] = NoIp

MCInit == Init /\ IdentityInit /\ SyncInit /\ OnePart

MCNext ==
  /\ UNCHANGED part
  /\ \/ part = "telemetry" /\ Next /\ UNCHANGED <<identityVars, syncVars>>
     \/ part = "identity" /\ IdentityNext /\ UNCHANGED <<vars, syncVars>>
     \/ part = "inventory" /\ SyncNext /\ UNCHANGED <<vars, identityVars>>

MCSpec == MCInit /\ [][MCNext]_<<part, vars, identityVars, syncVars>>

TypesOK ==
  /\ part = "telemetry" => TypeOK
  /\ part = "identity" => IdentityTypeOK
  /\ part = "inventory" => SyncTypeOK
=============================================================================
