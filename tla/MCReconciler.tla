----------------------------- MODULE MCReconciler -----------------------------
(***************************************************************************)
(* Reconciler for TLC: two public CRs and a private one. A "secured" spec   *)
(* names an auth Secret, a "plain" one does not, "invalid" is one that      *)
(* validate rejects. An entry is the triple of what it was built from.      *)
(***************************************************************************)
EXTENDS Reconciler

CONSTANTS a, b, p, k1, k2, q1

MCValid(s) == s # "invalid"
MCUsesSecret(s) == s = "secured"
MCbuildResource(o, s, d) == <<o, s, d>>
MCResources == PublicCRs \X Specs \X (SecretData \cup {NoSecret})
MCPrivateResources == PrivateCRs \X Specs \X (SecretData \cup {NoSecret})

\* Names that differ, and one name used in two namespaces.
UniqueNames == [o \in CRs |-> CASE o = p -> q1 [] o = b -> k2 [] OTHER -> k1]
SharedName == [o \in CRs |-> IF o = p THEN q1 ELSE k1]
===============================================================================
