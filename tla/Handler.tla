------------------------------- MODULE Handler -------------------------------
(***************************************************************************)
(* internal/resources/handler.go: which objects of a watched type the      *)
(* sidecar exposes. A definition's FilterFunc and AutoConfigFunc come in   *)
(* as their results; a function that is nil counts as one that says TRUE.  *)
(***************************************************************************)
EXTENDS Blueprint

isOptOut(a) == a.enabled \in {"false", "0"}

HasRequiredAnnotations(a) == a.enabled \in {"true", "1"}

ShouldProcessAutoFirst(a, filter, auto) == auto \/ (filter /\ HasRequiredAnnotations(a))

ShouldProcess(a, filter, auto) == ~isOptOut(a) /\ filter /\ (auto \/ HasRequiredAnnotations(a))
===============================================================================
