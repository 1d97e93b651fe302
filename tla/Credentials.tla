----------------------------- MODULE Credentials -----------------------------
(***************************************************************************)
(* Keys of providers: the broker (kernel/pkg/credentials/broker.go), the   *)
(* requests and the environment that store keys, and the attempts of       *)
(* missions, which take a key for their provider or, finding none, put a   *)
(* demonstration token of their own into the broker.  No operation of the  *)
(* host revokes a key.                                                     *)
(***************************************************************************)
EXTENDS Integers, FiniteSets

CONSTANTS
  Provider,  \* providers that need a key
  Attempt,   \* executions of missions on a provider
  MaxKeys    \* bound on records in the broker

ASSUME KeyAssumption == MaxKeys \in Nat

VARIABLES
  records,   \* MemoryBroker.byH
  attempts   \* attempt -> where it is, its provider, its handle and what was there when it began

credentialVars == <<records, attempts>>

Handle == 1..MaxKeys
NoHandle == 0

\* Labels of keys of operators, of the environment and of attempts.
Label == {"api-key", "env", "demo", "mission"}
DemoLabel == {"demo", "mission"}

NoAttempt == [at |-> "idle", provider |-> "none", handle |-> NoHandle, keyed |-> FALSE]

Given == {r.handle : r \in records}
OfProvider(p) == {r \in records : r.provider = p}
OperatorKeys(p) == {r \in OfProvider(p) : r.label \notin DemoLabel}

CredentialInit ==
  /\ records = {}
  /\ attempts = [a \in Attempt |-> NoAttempt]

\* Put stores the key under a new handle.
Put(p, label, h) ==
  /\ h = Cardinality(records) + 1
  /\ records' = records \cup {[handle |-> h, provider |-> p, label |-> label]}

\* Start-up puts the key of each provider the environment has one for, before anything else.
LoadKey(p) ==
  /\ \A r \in records : r.label = "env" /\ r.provider # p
  /\ \A a \in Attempt : attempts[a].at = "idle"
  /\ \E h \in Handle : Put(p, "env", h)
  /\ UNCHANGED attempts

\* A request stores a key under any label; without one it is an "api-key".
StoreKey(p) ==
  /\ \E label \in {"api-key", "demo"}, h \in Handle : Put(p, label, h)
  /\ UNCHANGED attempts

\* An attempt begins on the provider its mission is routed to.
BeginAttempt(a) ==
  /\ attempts[a].at = "idle"
  /\ \E p \in Provider :
       attempts' = [attempts EXCEPT ![a] =
                      [at |-> "find", provider |-> p, handle |-> NoHandle,
                       keyed |-> OperatorKeys(p) # {}]]
  /\ UNCHANGED records

\* Mutant: any key of the provider.
AnyKey(p) == OfProvider(p)

\* FindByPlugin walks a copy of the records, in the order of a map, and returns the first
\* that is no demonstration token, or else the last one that is.
Found(p) == IF OperatorKeys(p) # {} THEN OperatorKeys(p) ELSE OfProvider(p)

FindByPlugin(a) ==
  /\ attempts[a].at = "find"
  /\ LET found == Found(attempts[a].provider) IN
       \/ /\ found = {}
          /\ attempts' = [attempts EXCEPT ![a].at = "put"]
       \/ \E r \in found :
            attempts' = [attempts EXCEPT ![a].at = "execute", ![a].handle = r.handle]
  /\ UNCHANGED records

\* A token is put although another attempt, or an operator, may have put a key meanwhile.
PutToken(a) ==
  /\ attempts[a].at = "put"
  /\ \E h \in Handle :
       /\ Put(attempts[a].provider, "mission", h)
       /\ attempts' = [attempts EXCEPT ![a].at = "execute", ![a].handle = h]

\* The provider resolves the handle when it is asked to complete.
Execute(a) ==
  /\ attempts[a].at = "execute"
  /\ attempts[a].handle \in Given
  /\ attempts' = [attempts EXCEPT ![a].at = "done"]
  /\ UNCHANGED records

CredentialNext ==
  \/ \E p \in Provider : LoadKey(p) \/ StoreKey(p)
  \/ \E a \in Attempt : BeginAttempt(a) \/ FindByPlugin(a) \/ PutToken(a) \/ Execute(a)

CredentialSpec == CredentialInit /\ [][CredentialNext]_credentialVars
------------------------------------------------------------------------------
CredentialTypeOK ==
  /\ records \subseteq [handle : Handle, provider : Provider, label : Label]
  /\ attempts \in [Attempt -> [at : {"idle", "find", "put", "execute", "done"},
                               provider : Provider \cup {"none"},
                               handle : Handle \cup {NoHandle},
                               keyed : BOOLEAN]]

\* An attempt that began when its provider had a key of an operator or of the environment
\* uses such a key, and no attempt uses a key of another provider, whatever tokens other
\* attempts put into the broker meanwhile (FindByPlugin: "prefer env/operator keys over
\* demos").
OperatorKeyUsed ==
  \A a \in Attempt :
    attempts[a].handle # NoHandle =>
      \A r \in records :
        r.handle = attempts[a].handle =>
          /\ r.provider = attempts[a].provider
          /\ attempts[a].keyed => r.label \notin DemoLabel
================================================================================
