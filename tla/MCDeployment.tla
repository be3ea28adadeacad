---------------------------- MODULE MCDeployment ----------------------------
(***************************************************************************)
(* The instances of Deployment that TLC checks.                            *)
(***************************************************************************)
EXTENDS DeploymentProperties, TLC

CONSTANTS p1, p2, legacy, old, new, candidate

\* "new" and "candidate" differ in the text of their versions only (1.1.0 and
\* 1.1.0-rc1).
MCNumber == [r \in Releases |-> CASE r = legacy -> 0 [] r = old -> 1 [] OTHER -> 2]
MCMinSupported == [r \in Releases |-> CASE r = legacy -> 0 [] r = old -> 1 [] OTHER -> 2]

\* p1 comes through two proxies, p2 directly; both send a forged header.
MCRoute ==
  [p \in Clients |->
     IF p = p1 THEN [client |-> "c1", forged |-> <<"c2", "x1">>, proxies |-> <<"x1", "x2">>]
     ELSE [client |-> "c2", forged |-> <<"c1">>, proxies |-> <<>>]]

Whole(r) == [release |-> r, files |-> Files, config |-> TRUE]
MCPackages == {Whole(old), Whole(new), Whole(candidate)}

MCFiles == {"manifest.json", "type_registry.py"}
MCCommands == [p \in Clients |-> IF p = p1 THEN {"allocate", "update"} ELSE {"update"}]
=============================================================================
