------------------------------ MODULE MCPlatform ------------------------------
(***************************************************************************)
(* An instance of Platform for TLC.                                        *)
(***************************************************************************)
EXTENDS Platform, TLC

Manifest(id, kind, make, good) == [id |-> id, kind |-> kind, make |-> make, good |-> good]

MCCollection == {"note", "upload", "node", "edge"}

MCBuiltin ==
  {[id |-> "provider.example.echo", kind |-> "Provider", make |-> "Provider"],
   [id |-> "runtime.example.echo", kind |-> "Runtime", make |-> "Runtime"],
   [id |-> AgentLoopId, kind |-> "Runtime", make |-> "AgentLoop"],
   [id |-> "memory.example.ephemeral", kind |-> "Memory", make |-> "Memory"]}

\* The agent loop, a memory under its id, and drivers that do not fit the kind.
File ==
  {Manifest(KimchiId, "Provider", "Provider", TRUE),
   Manifest(OpenAIId, "Provider", "Memory", TRUE),
   Manifest(AgentLoopId, "Runtime", "AgentLoop", TRUE),
   Manifest(AgentLoopId, "Memory", "Memory", TRUE),
   Manifest("runtime.disk", "Runtime", "Runtime", TRUE),
   Manifest(KimchiId, "Provider", "Provider", FALSE)}

\* Up to two roots, the first with up to two manifests.
Tree(n) == UNION {[1..k -> File] : k \in 0..n}

MCDisk == {<<>>} \cup {<<r>> : r \in Tree(2)} \cup {<<r, q>> : r \in Tree(2), q \in Tree(1)}
================================================================================
