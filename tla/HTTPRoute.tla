------------------------------ MODULE HTTPRoute ------------------------------
(***************************************************************************)
(* internal/resources/httproute: from an HTTPRoute to blueprint entries,   *)
(* one per host name. One behaviour handles one input: what the            *)
(* environment and the command line say, a route, its annotations and the  *)
(* data of its Secret.                                                     *)
(***************************************************************************)
EXTENDS Handler, FiniteSets

CONSTANT Inputs \* families of inputs: sets of records (env, flags, route, annotations, secret)

\* Every setting and every annotation may be given. Lists and host names are
\* sequences.
ASSUME InputAssumption ==
    \A i \in DOMAIN Inputs : \A in \in Inputs[i] :
        /\ DOMAIN in = {"env", "flags", "route", "annotations", "secret"}
        /\ DOMAIN in.env = Settings /\ DOMAIN in.flags = Settings
        /\ DOMAIN in.annotations = DOMAIN NoAnnotations
        /\ IsSequence(in.route.hostnames)
        /\ \A j \in DOMAIN in.route.hostnames : IsSequence(in.route.hostnames[j])
        /\ in.annotations.rules \notin {Absent, Malformed} => IsSequence(in.annotations.rules)
        /\ \A given \in {in.env.DenyCountries, in.flags.DenyCountries} : given # Absent => IsSequence(given)

VARIABLES input, entries, done

vars == <<input, entries, done>>

Hosts(r) == {r.hostnames[i] : i \in DOMAIN r.hostnames}
Parents(r) == {r.parentRefs[i] : i \in DOMAIN r.parentRefs}

\* A parentRef without a namespace matches whatever namespace is configured.
referencesGateway(r, gatewayName, gatewayNamespace) ==
    \E parent \in Parents(r) :
        /\ parent.name = gatewayName
        /\ gatewayNamespace = "" \/ parent.namespace \in {Absent, gatewayNamespace}

filterByGateway(r, c) ==
    c.GatewayName = "" \/ referencesGateway(r, c.GatewayName, c.GatewayNamespace)

\* A later host name replaces an earlier one with its key.
buildEntries(r, a, secret, c) ==
    [k \in {HostnameToKey(h) : h \in Hosts(r)} |->
        LET last == SelectLastInSeq(r.hostnames, LAMBDA h : HostnameToKey(h) = k)
        IN BuildResource(r.name, r.hostnames[last], a, secret, c)]

\* main and the controller's processObject, for this one object.
Exposed(in) ==
    LET c == Load(in.env, in.flags)
    IN IF WatchesHTTPRoutes(c) /\ ShouldProcess(in.annotations, filterByGateway(in.route, c), TRUE)
       THEN buildEntries(in.route, in.annotations, in.secret, c)
       ELSE <<>>

Init ==
    /\ \E i \in DOMAIN Inputs : input \in Inputs[i]
    /\ entries = <<>>
    /\ done = FALSE

Process ==
    /\ ~done
    /\ entries' = Exposed(input)
    /\ done' = TRUE
    /\ UNCHANGED input

Next == Process

Spec == Init /\ [][Next]_vars

(***************************************************************************)
(* Properties.                                                             *)
(***************************************************************************)
route == input.route
annotations == input.annotations

\* What the operator gave for a setting: the flag, else the variable.
Given(setting) == OrDefault(input.flags[setting], input.env[setting])

\* A route is only exposed through the gateway the operator names (and never
\* without one), and it is live only if its enabled annotation is absent or
\* true: "false" and "0" give no entry, any other value one that is switched off.
LiveOnlyThroughTheGateway ==
    \A k \in DOMAIN entries :
        /\ \E i \in DOMAIN route.parentRefs :
             /\ route.parentRefs[i].name = Given("GatewayName")
             /\ \/ route.parentRefs[i].namespace = Absent
                \/ Given("GatewayNamespace") \in {Absent, "", route.parentRefs[i].namespace}
        /\ annotations.enabled \notin {Absent, "true", "1"} => entries[k].Enabled = FALSE

\* Every host name of an exposed route has its entry, unless a later host name of
\* the route is the same but for dots and dashes.
EveryHostHasItsEntry ==
    entries # <<>> => \A i \in DOMAIN route.hostnames :
        LET h == route.hostnames[i]
            Alike(g) == /\ Len(g) = Len(h)
                        /\ \A n \in DOMAIN h : g[n] = h[n] \/ {g[n], h[n]} = {".", "-"}
        IN \/ \E k \in DOMAIN entries : entries[k].FullDomain = h
           \/ \E j \in DOMAIN route.hostnames : j > i /\ Alike(route.hostnames[j])

\* The documented ranges and matches.
Priorities == 1 .. MaxPriority
Ports == 1 .. MaxPort
PathMatches == {"prefix", "exact", "regex"}
RewriteMatches == {"exact", "prefix", "regex", "stripPrefix"}

\* README, custom rules: what a rule of the annotation may be. Without a priority
\* it has 0.
Documented(r) ==
    /\ r.Action \in {"allow", "deny", "pass"} /\ r.Match \in {"cidr", "ip", "path", "country"}
    /\ r.Value # "" /\ r.Priority \in {0} \cup Priorities

\* README: "annotation rules come first, then country-deny rules are appended".
\* Whatever the rules annotation holds, every entry ends in one deny rule per
\* configured country, and before them come rules of the annotation only, with
\* every documented one among them: an invalid rule takes no other with it.
DenialsSurvive ==
    \A k \in DOMAIN entries :
        LET rules == entries[k].Rules
            given == OrDefault(Given("DenyCountries"), <<>>)
            denied == {i \in DOMAIN given : given[i] \notin {"", " "}}
            own == Len(rules) - Cardinality(denied)
        IN /\ own >= 0
           /\ {given[i] : i \in denied} = {rules[i].Value : i \in own + 1 .. Len(rules)}
           /\ \A i \in own + 1 .. Len(rules) : rules[i].Action = "deny" /\ rules[i].Match = "country"
           /\ \A i \in 1 .. own : \E j \in DOMAIN annotations.rules : rules[i] = annotations.rules[j]
           /\ annotations.rules \notin {Absent, Malformed} => \A j \in DOMAIN annotations.rules :
                Documented(annotations.rules[j]) => \E i \in 1 .. own : rules[i] = annotations.rules[j]

\* The annotations that may be unusable: JSON that does not parse, a number that is
\* none or out of its range, an unknown match.
Checked == {"rules", "headers", "targetHealthcheck", "targetPathMatch", "targetRewriteMatch",
            "targetPriority", "targetInternalPort", "idp"}

Unusable(field, v) ==
    CASE field = "targetPathMatch" -> v \notin PathMatches \cup {Absent}
      [] field = "targetRewriteMatch" -> v \notin RewriteMatches \cup {Absent}
      [] field = "targetPriority" -> v # Absent /\ Atoi(v) \notin Priorities
      [] field = "targetInternalPort" -> v # Absent /\ Atoi(v) \notin Ports
      [] field = "idp" -> v # Absent /\ ~(Atoi(v) # NotANumber /\ Atoi(v) > 0)
      [] OTHER -> v = Malformed

\* BuildRules, BuildHeaders, BuildTargetExtras and BuildAuth: an annotation that
\* cannot be used counts as absent (so the default that it would override
\* applies), and spoils nothing else.
UnusableIsAbsent ==
    done => \A field \in Checked : Unusable(field, annotations[field]) =>
        entries = Exposed([input EXCEPT !.annotations[field] = Absent])

\* config.go: "There is deliberately no --auth-sso flag: SSO must be enabled per
\* resource". The cluster-wide roles, users and IdP never reach a resource that
\* did not ask for SSO itself, not even next to other auth it has.
SSOOnlyPerResource ==
    annotations.sso \notin {"true", "1"} => \A k \in DOMAIN entries :
        LET auth == entries[k].Auth
        IN auth = NoAuth \/ /\ ~auth.SSOEnabled
                            /\ auth.SSORoles = <<>> /\ auth.SSOUsers = <<>>
                            /\ auth.AutoLoginIDP = 0


\* README: "CLI flags take precedence over environment variables." A variable
\* whose flag is given has no influence on what is exposed, unless it does not
\* parse, which ends the process whatever the flags say.
FlagsWin ==
    done => \A s \in Settings : (input.flags[s] # Absent /\ AllParse(input.env)) =>
        entries = Exposed([input EXCEPT !.env[s] = Absent])
===============================================================================
