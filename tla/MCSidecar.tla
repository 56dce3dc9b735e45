------------------------------ MODULE MCSidecar ------------------------------
(***************************************************************************)
(* Sidecar for TLC: an object and a CR that may share a key. Entries record *)
(* what they were built from; a "secured" version names the auth Secret.   *)
(***************************************************************************)
EXTENDS Sidecar

CONSTANTS a, p, route, k1

MCControllerOf == [o \in Objects |-> route]
MCKeyOf == [o \in PublicCRs |-> k1]
Always(x) == TRUE
Always2(x, y) == TRUE
Secured(s) == s = "secured"
Secured2(o, s) == s = "secured"
MCbuildResource(o, s, d) == <<o, s, d>>
MCBuildEntries(o, s, d) == [k \in Keys |-> <<o, s, d>>]
MCResources ==
    (Objects \cup PublicCRs) \X (Specs \cup CRSpecs) \X (SecretData \cup {NoSecret})
===============================================================================
