----------------------------- MODULE MCController -----------------------------
(***************************************************************************)
(* Controller for TLC. An entry is the triple of what it was built from, so *)
(* every change of version or of Secret data shows. A "secured" version    *)
(* names an auth Secret, a moved one declares another key than the rest (a *)
(* renamed host), "off" is opted out, "empty" yields no entry and "broken" *)
(* does not convert.                                                       *)
(***************************************************************************)
EXTENDS Controller, TLC

CONSTANTS
    a, b,              \* objects
    route, service,    \* controllers
    k1, k2,            \* keys
    plain, moved       \* versions

MCControllerOf == [o \in Objects |-> IF o = b THEN service ELSE route]

MCConverts(s) == s # "broken"
MCShouldProcess(o, s) == s # "off"
MCUsesSecret(o, s) == s = "secured"

MCResources == Objects \X Specs \X (SecretData \cup {NoSecret})

\* Every object declares k1, or k2 once it has moved.
MCKeys(s) == CASE s \in {"empty", "off", "broken"} -> {}
               [] s = moved -> {k2}
               [] OTHER -> {k1}

MCBuildEntries(o, s, d) == [k \in Keys |-> IF k \in MCKeys(s) THEN <<o, s, d>> ELSE NoEntry]

\* Objects may change places if their controllers do so with them, and so may
\* the keys with the versions that declare them.
Mirror ==
    {f \in Permutations(Objects \cup Controllers \cup Keys \cup {plain, moved}) :
        /\ \A o \in Objects : f[o] \in Objects /\ MCControllerOf[f[o]] = f[MCControllerOf[o]]
        /\ \A s \in {plain, moved} : f[s] \in {plain, moved} /\ MCKeys(f[s]) = {f[k] : k \in MCKeys(s)}}
===============================================================================
