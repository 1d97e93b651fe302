----------------------------- MODULE MCMcpClient -----------------------------
(***************************************************************************)
(* Two instances of McpClient for TLC, one after the other: callers that   *)
(* share the session of one connection, with a server "a" whose tool       *)
(* prefix begins that of another server "a.b"; and two connections of one  *)
(* server that overlap, without calls.                                     *)
(***************************************************************************)
EXTENDS McpClient

CONSTANTS s1, s2, c1, c2

Nested == {<<s1, s1>>, <<s2, s2>>, <<s1, s2>>}

VARIABLE scenario

MCInit ==
  /\ Init
  /\ scenario \in {"sessions", "manager"}
  /\ scenario = "sessions" => target[c2] = s1
  /\ scenario = "manager" => \A c \in Conn : target[c] = s1

MCNext ==
  /\ Next
  /\ UNCHANGED scenario
  /\ scenario = "sessions" => pc'[c2] = "idle" /\ c2 \notin gone'
  /\ scenario = "manager" =>
       /\ calls' = 0 /\ changes' <= 2
       /\ \A s \in {s2} : servers'[s] = "none" /\ status'[s] = "none" /\ s \notin deleting'
       /\ pc'[c2] = "idle" \/ pc[c1] # "idle"  \* connections start alike

MCSpec == MCInit /\ [][MCNext]_<<vars, scenario>> /\ \A c \in Conn : WF_vars(Going(c))
=============================================================================
