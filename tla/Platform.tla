------------------------------- MODULE Platform -------------------------------
(***************************************************************************)
(* The parts of the host that keep state of their own beside the missions: *)
(* how it starts, the limiter of its API, the keys of its providers, the   *)
(* collections with their backup, and deployments.  Each has its own lock  *)
(* and its own data, and none reads another's: a behaviour of this module  *)
(* is one of one of them.                                                  *)
(***************************************************************************)
EXTENDS Stores, Credentials, RateLimiter, Deployments, Bootstrap

VARIABLE part  \* the part that is used

vars == <<part, storeVars, credentialVars, limiterVars, deployVars, bootVars>>

Init ==
  /\ part \in {"stores", "credentials", "limiter", "deployments", "bootstrap"}
  /\ StoresInit
  /\ CredentialInit
  /\ LimiterInit
  /\ DeployInit
  /\ BootInit
  /\ part # "bootstrap" => disk = CHOOSE d \in Disk : TRUE
  /\ part # "bootstrap" => env = {} /\ boot.seedBuiltins

Next ==
  /\ UNCHANGED part
  /\ \/ /\ part = "stores"
        /\ StoresNext
        /\ UNCHANGED <<credentialVars, limiterVars, deployVars, bootVars>>
     \/ /\ part = "credentials"
        /\ CredentialNext
        /\ UNCHANGED <<storeVars, limiterVars, deployVars, bootVars>>
     \/ /\ part = "limiter"
        /\ LimiterNext
        /\ UNCHANGED <<storeVars, credentialVars, deployVars, bootVars>>
     \/ /\ part = "deployments"
        /\ DeployNext
        /\ UNCHANGED <<storeVars, credentialVars, limiterVars, bootVars>>
     \/ /\ part = "bootstrap"
        /\ BootNext
        /\ UNCHANGED <<storeVars, credentialVars, limiterVars, deployVars>>

Spec == Init /\ [][Next]_vars

TypeOK ==
  /\ StoresTypeOK
  /\ CredentialTypeOK
  /\ LimiterTypeOK
  /\ DeployTypeOK
  /\ BootTypeOK
================================================================================
