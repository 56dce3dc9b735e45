--------------------------- MODULE HTTPRouteProofs ---------------------------
(***************************************************************************)
(* What an HTTPRoute's entries can and cannot be, for every environment,   *)
(* command line, route, annotations and Secret.                            *)
(***************************************************************************)
EXTENDS HTTPRoute, FiniteSetTheorems, TLAPS

\* Entries appear when the input is processed, and are what Exposed makes of it.
DoneInv ==
    /\ \E i \in DOMAIN Inputs : input \in Inputs[i]
    /\ entries = IF done THEN Exposed(input) ELSE <<>>

\* Every state is before or after Process.
LEMMA Processed == Spec => []DoneInv
<1>1. Init => DoneInv
  BY DEF Init, DoneInv
<1>2. DoneInv /\ [Next]_vars => DoneInv'
  BY DEF DoneInv, Next, Process, vars
<1> QED
  BY <1>1, <1>2, PTL DEF Spec

\* The fields of an entry that the properties look at.
LEMMA EntryFields ==
    ASSUME NEW n, NEW h, NEW a, NEW s, NEW c
    PROVE  /\ BuildResource(n, h, a, s, c).Auth = BuildAuth(a, s, c)
           /\ BuildResource(n, h, a, s, c).Enabled =
                IF a.enabled = Absent THEN Absent ELSE isTruthy(a.enabled)
           /\ BuildResource(n, h, a, s, c).FullDomain = h
           /\ BuildResource(n, h, a, s, c).Rules = BuildRules(a, c)
BY DEF BuildResource, ZeroResource

\* An entry comes from one of the route's host names, and only if the route is
\* watched and not filtered out.
LEMMA EntriesAreBuilt ==
    ASSUME DoneInv, NEW k \in DOMAIN entries
    PROVE  LET c == Load(input.env, input.flags)
           IN /\ \E h : entries[k] = BuildResource(route.name, h, annotations, input.secret, c)
              /\ WatchesHTTPRoutes(c)
              /\ filterByGateway(route, c)
              /\ ~isOptOut(annotations)
<1> DEFINE c == Load(input.env, input.flags)
<1>1. entries # <<>> /\ done /\ entries = Exposed(input)
  BY DEF DoneInv
<1>2. WatchesHTTPRoutes(c) /\ ShouldProcess(annotations, filterByGateway(route, c), TRUE)
      /\ entries = buildEntries(route, annotations, input.secret, c)
  BY <1>1 DEF Exposed, route, annotations
<1>3. \E h : entries[k] = BuildResource(route.name, h, annotations, input.secret, c)
  BY <1>2 DEF buildEntries
<1> QED
  BY <1>2, <1>3 DEF ShouldProcess

\* The cluster-wide roles, users and IdP never reach a resource that did not ask
\* for SSO itself.
THEOREM SSOIsPerResource == Spec => []SSOOnlyPerResource
<1>1. ASSUME DoneInv, annotations.sso \notin {"true", "1"}, NEW k \in DOMAIN entries
      PROVE  LET auth == entries[k].Auth
             IN auth = NoAuth \/ /\ ~auth.SSOEnabled
                                 /\ auth.SSORoles = <<>> /\ auth.SSOUsers = <<>>
                                 /\ auth.AutoLoginIDP = 0
  <2>1. entries[k].Auth = BuildAuth(annotations, input.secret, Load(input.env, input.flags))
    BY <1>1, EntriesAreBuilt, EntryFields
  <2>2. ssoEnabled(annotations) = FALSE
    BY <1>1 DEF ssoEnabled, isTruthy
  <2>3. PICK auth : auth = BuildAuth(annotations, input.secret, Load(input.env, input.flags))
    OBVIOUS
  <2>4. auth = NoAuth \/ /\ ~auth.SSOEnabled
                         /\ auth.SSORoles = <<>> /\ auth.SSOUsers = <<>>
                         /\ auth.AutoLoginIDP = 0
    BY <2>2, <2>3 DEF BuildAuth, SSOPart, IDP
  <2> QED
    BY <2>1, <2>3, <2>4
<1>2. DoneInv => SSOOnlyPerResource
  BY <1>1 DEF SSOOnlyPerResource
<1> QED
  BY <1>2, Processed, PTL

\* The flag, else the variable, else the default, if everything parses.
LEMMA Loaded ==
    ASSUME NEW env, NEW flags, Load(env, flags) # NoConfig, NEW s \in Settings
    PROVE  Load(env, flags)[s] = IF flags[s] # Absent THEN Parse(s, flags[s])
                                 ELSE IF env[s] # Absent THEN Parse(s, env[s])
                                 ELSE Defaults[s]
BY DEF Load, Override, newConfig

\* The gateway settings are texts, and the default is no gateway.
LEMMA GatewaySettings ==
    /\ {"GatewayName", "GatewayNamespace"} \subseteq Settings
    /\ \A s \in {"GatewayName", "GatewayNamespace"} : Defaults[s] = "" /\ \A text : Parse(s, text) = text
BY DEF Settings, Defaults, Parse, BoolSettings, IntSettings

\* A text setting is what the operator gave for it, or empty.
LEMMA LoadedText ==
    ASSUME NEW env, NEW flags, Load(env, flags) # NoConfig, NEW s \in Settings
    PROVE  Defaults[s] = "" /\ (\A text : Parse(s, text) = text) =>
             \/ Load(env, flags)[s] = OrDefault(flags[s], env[s])
             \/ Load(env, flags)[s] = "" /\ OrDefault(flags[s], env[s]) = Absent
<1>1. PICK v, f, e : v = Load(env, flags)[s] /\ f = flags[s] /\ e = env[s]
  OBVIOUS
<1>2. v = IF f # Absent THEN Parse(s, f) ELSE IF e # Absent THEN Parse(s, e) ELSE Defaults[s]
  BY <1>1, Loaded
<1>3. HAVE Defaults[s] = "" /\ \A text : Parse(s, text) = text
<1>4. Parse(s, f) = f /\ Parse(s, e) = e
  BY <1>3, Zenon
<1>5. v = IF f # Absent THEN f ELSE IF e # Absent THEN e ELSE ""
  BY <1>2, <1>3, <1>4, Zenon
<1>6. \/ v = OrDefault(f, e)
      \/ v = "" /\ OrDefault(f, e) = Absent
  BY <1>5, Zenon DEF OrDefault
<1> QED
  BY <1>1, <1>6, Zenon

\* An enabled annotation that is neither absent nor true switches the entry off.
LEMMA SwitchedOff ==
    ASSUME NEW n, NEW h, NEW a, NEW s, NEW c, a.enabled # Absent, isTruthy(a.enabled) = FALSE
    PROVE  BuildResource(n, h, a, s, c).Enabled = FALSE
<1>1. BuildResource(n, h, a, s, c).Enabled = IF a.enabled = Absent THEN Absent ELSE isTruthy(a.enabled)
  BY EntryFields
<1> QED
  BY <1>1, Zenon

\* A route is exposed only through the gateway the operator names, and live only
\* if its enabled annotation is absent or true.
THEOREM OnlyThroughTheGateway == Spec => []LiveOnlyThroughTheGateway
<1>1. ASSUME DoneInv, NEW k \in DOMAIN entries
      PROVE  /\ \E i \in DOMAIN route.parentRefs :
                  /\ route.parentRefs[i].name = Given("GatewayName")
                  /\ \/ route.parentRefs[i].namespace = Absent
                     \/ Given("GatewayNamespace") \in {Absent, "", route.parentRefs[i].namespace}
             /\ annotations.enabled \notin {Absent, "true", "1"} => entries[k].Enabled = FALSE
  <2>1. PICK c : c = Load(input.env, input.flags)
    OBVIOUS
  <2>2. /\ \E h : entries[k] = BuildResource(route.name, h, annotations, input.secret, c)
        /\ WatchesHTTPRoutes(c) /\ filterByGateway(route, c)
    BY <1>1, <2>1, EntriesAreBuilt
  <2>3. c # NoConfig /\ c["GatewayName"] # ""
    BY <2>2 DEF WatchesHTTPRoutes
  <2>4. /\ c["GatewayName"] = Given("GatewayName")
        /\ \/ c["GatewayNamespace"] = Given("GatewayNamespace")
           \/ Given("GatewayNamespace") = Absent
    <3>1. \/ c["GatewayName"] = Given("GatewayName")
          \/ c["GatewayName"] = "" /\ Given("GatewayName") = Absent
      BY <2>1, <2>3, GatewaySettings, LoadedText DEF Given
    <3>2. \/ c["GatewayNamespace"] = Given("GatewayNamespace")
          \/ c["GatewayNamespace"] = "" /\ Given("GatewayNamespace") = Absent
      BY <2>1, <2>3, GatewaySettings, LoadedText DEF Given
    <3> QED
      BY <2>3, <3>1, <3>2
  <2>5. PICK parent \in Parents(route) :
            /\ parent.name = c["GatewayName"]
            /\ c["GatewayNamespace"] = "" \/ parent.namespace \in {Absent, c["GatewayNamespace"]}
    BY <2>2, <2>3 DEF filterByGateway, referencesGateway
  <2>6. PICK i \in DOMAIN route.parentRefs : route.parentRefs[i] = parent
    BY <2>5 DEF Parents
  <2>7. /\ route.parentRefs[i].name = Given("GatewayName")
        /\ \/ route.parentRefs[i].namespace = Absent
           \/ Given("GatewayNamespace") \in {Absent, "", route.parentRefs[i].namespace}
    BY <2>4, <2>5, <2>6
  <2>8. annotations.enabled \notin {Absent, "true", "1"} => entries[k].Enabled = FALSE
    <3>1. PICK h : entries[k] = BuildResource(route.name, h, annotations, input.secret, c)
      BY <2>2
    <3>2. annotations.enabled \notin {Absent, "true", "1"} =>
            annotations.enabled # Absent /\ isTruthy(annotations.enabled) = FALSE
      BY DEF isTruthy
    <3>3. annotations.enabled # Absent /\ isTruthy(annotations.enabled) = FALSE =>
            BuildResource(route.name, h, annotations, input.secret, c).Enabled = FALSE
      BY SwitchedOff, Zenon
    <3>4. annotations.enabled # Absent /\ isTruthy(annotations.enabled) = FALSE =>
            entries[k].Enabled = FALSE
      BY <3>1, <3>3, Zenon
    <3> QED
      BY <3>2, <3>4, Zenon
  <2> QED
    BY <2>7, <2>8
<1>2. DoneInv => LiveOnlyThroughTheGateway
  BY <1>1 DEF LiveOnlyThroughTheGateway
<1> QED
  BY <1>2, Processed, PTL

\* A variable whose flag is given has no influence, unless it does not parse.
LEMMA FlagHidesVariable ==
    ASSUME NEW env, NEW flags, DOMAIN env = Settings, NEW s \in Settings, flags[s] # Absent,
           AllParse(env)
    PROVE  Load([env EXCEPT ![s] = Absent], flags) = Load(env, flags)
<1> DEFINE rest == [env EXCEPT ![s] = Absent]
<1>1. rest[s] = Absent /\ \A t \in Settings : t # s => rest[t] = env[t]
  OBVIOUS
<1>2. AllParse(rest)
  BY <1>1 DEF AllParse
<1>3. Override(newConfig(rest), flags) = Override(newConfig(env), flags)
  BY <1>1 DEF Override, newConfig
<1> QED
  BY <1>2, <1>3 DEF Load

\* Command-line flags take precedence over environment variables.
THEOREM FlagsTakePrecedence == Spec => []FlagsWin
<1>1. ASSUME DoneInv, done, NEW s \in Settings, input.flags[s] # Absent, AllParse(input.env)
      PROVE  entries = Exposed([input EXCEPT !.env[s] = Absent])
  <2> DEFINE in == [input EXCEPT !.env[s] = Absent]
  <2>1. DOMAIN input = {"env", "flags", "route", "annotations", "secret"} /\ DOMAIN input.env = Settings
    BY <1>1, InputAssumption DEF DoneInv
  <2>2. /\ in.flags = input.flags /\ in.route = input.route
        /\ in.annotations = input.annotations /\ in.secret = input.secret
        /\ in.env = [input.env EXCEPT ![s] = Absent]
    BY <2>1
  <2>3. Load(in.env, in.flags) = Load(input.env, input.flags)
    BY <1>1, <2>1, <2>2, FlagHidesVariable
  <2> HIDE DEF in
  <2>4. Exposed(in) = Exposed(input)
    BY <2>2, <2>3 DEF Exposed
  <2> QED
    BY <1>1, <2>4 DEF DoneInv, in
<1>2. DoneInv => FlagsWin
  BY <1>1 DEF FlagsWin
<1> QED
  BY <1>2, Processed, PTL

(***************************************************************************)
(* An annotation that cannot be used counts as absent. The readings below  *)
(* name what the builders make of the annotations that may be unusable;    *)
(* BuildResource sees those annotations through them only.                 *)
(***************************************************************************)
PathMatch(a) == OneOf(a.targetPathMatch, PathMatches)
RewriteMatch(a) == OneOf(a.targetRewriteMatch, RewriteMatches)
Priority(a) == InRange(a.targetPriority, Priorities)
InternalPort(a) == InRange(a.targetInternalPort, Ports)
HealthCheck(a) == UnmarshalHealthCheck(a.targetHealthcheck)
Switched(v) == IF v \in {Absent, " "} THEN Absent ELSE isTruthy(v)

SameReadings(a, b, c) ==
    /\ BuildRules(a, c) = BuildRules(b, c) /\ BuildHeaders(a) = BuildHeaders(b)
    /\ PathMatch(a) = PathMatch(b) /\ Priority(a) = Priority(b)
    /\ InternalPort(a) = InternalPort(b) /\ HealthCheck(a) = HealthCheck(b)
    /\ RewriteMatch(a) = RewriteMatch(b) /\ IDP(a, c) = IDP(b, c)

\* The other annotations of an HTTPRoute.
SameOtherwise(a, b) ==
    /\ a.enabled = b.enabled /\ a.name = b.name /\ a.ssl = b.ssl /\ a.hostHeader = b.hostHeader
    /\ a.tlsServerName = b.tlsServerName /\ a.maintenanceEnabled = b.maintenanceEnabled
    /\ a.targetPath = b.targetPath /\ a.targetEnabled = b.targetEnabled
    /\ a.sso = b.sso /\ a.ssoRoles = b.ssoRoles /\ a.ssoUsers = b.ssoUsers
    /\ a.whitelistUsers = b.whitelistUsers

\* The two records that the builders fill in, from the values of their fields.
Extras(base, path, pathMatch, rewriteMatch, priority, internalPort, healthCheck, enabled) ==
    [base EXCEPT !.Path = path, !.PathMatch = pathMatch, !.RewriteMatch = rewriteMatch,
                 !.Priority = priority, !.InternalPort = internalPort, !.HealthCheck = healthCheck,
                 !.Enabled = enabled]

Filled(name, enabled, ssl, hostname, hostHeader, tls, headers, auth, maintenance, rules, target) ==
    [ZeroResource EXCEPT
        !.Name = name, !.Protocol = "http", !.Enabled = enabled, !.SSL = ssl, !.FullDomain = hostname,
        !.HostHeader = hostHeader, !.TLSServerName = tls, !.Headers = headers, !.Auth = auth,
        !.Maintenance = maintenance, !.Rules = rules, !.Targets = <<target>>]

Gateway(c) == [ZeroTarget EXCEPT !.Site = c.SiteID, !.Hostname = <<c.TargetHostname>>,
                                 !.Method = c.TargetMethod, !.Port = c.TargetPort]

\* BuildTargetExtras and BuildResource, field by field.
LEMMA ExtrasAreFilled ==
    ASSUME NEW base, NEW a
    PROVE  BuildTargetExtras(base, a) =
             Extras(base, OrDefault(a.targetPath, ""), PathMatch(a), RewriteMatch(a), Priority(a),
                    InternalPort(a), HealthCheck(a), Switched(a.targetEnabled))
BY DEF BuildTargetExtras, Extras, Switched, PathMatch, RewriteMatch, Priority, InternalPort, HealthCheck,
       Ports, Priorities, PathMatches, RewriteMatches

LEMMA ResourceIsFilled ==
    ASSUME NEW n, NEW h, NEW a, NEW s, NEW c
    PROVE  BuildResource(n, h, a, s, c) =
             Filled(IF a.name \in {Absent, <<>>} THEN n ELSE a.name,
                    IF a.enabled = Absent THEN Absent ELSE isTruthy(a.enabled),
                    SSL(a, c), h, OrDefault(a.hostHeader, ""),
                    IF Trimmed(a.tlsServerName) = <<>> THEN h ELSE a.tlsServerName,
                    BuildHeaders(a), BuildAuth(a, s, c), BuildMaintenance(a), BuildRules(a, c),
                    BuildTargetExtras(Gateway(c), a))
BY DEF BuildResource, Filled, Gateway

\* Annotations that read alike make the same entry.
LEMMA SameTarget ==
    ASSUME NEW base, NEW a, NEW b, NEW c
    PROVE  SameReadings(a, b, c) /\ SameOtherwise(a, b) =>
             BuildTargetExtras(base, a) = BuildTargetExtras(base, b)
<1>1. SameOtherwise(a, b) => a.targetPath = b.targetPath /\ a.targetEnabled = b.targetEnabled
  BY Zenon DEF SameOtherwise
<1>2. SameReadings(a, b, c) => /\ PathMatch(a) = PathMatch(b) /\ RewriteMatch(a) = RewriteMatch(b)
                               /\ Priority(a) = Priority(b)
                               /\ InternalPort(a) = InternalPort(b) /\ HealthCheck(a) = HealthCheck(b)
  BY Zenon DEF SameReadings
<1> QED
  BY <1>1, <1>2, ExtrasAreFilled, Zenon

LEMMA SameAuth ==
    ASSUME NEW a, NEW b, NEW s, NEW c
    PROVE  SameReadings(a, b, c) /\ SameOtherwise(a, b) => BuildAuth(a, s, c) = BuildAuth(b, s, c)
<1>1. SameReadings(a, b, c) => IDP(a, c) = IDP(b, c)
  BY Zenon DEF SameReadings
<1> QED
  BY <1>1 DEF SameOtherwise, BuildAuth, ssoEnabled, SSOPart, WhitelistUsers

LEMMA SameResource ==
    ASSUME NEW n, NEW h, NEW a, NEW b, NEW s, NEW c
    PROVE  SameReadings(a, b, c) /\ SameOtherwise(a, b) =>
             BuildResource(n, h, a, s, c) = BuildResource(n, h, b, s, c)
<1>1. SameOtherwise(a, b) => SSL(a, c) = SSL(b, c) /\ BuildMaintenance(a) = BuildMaintenance(b)
  BY DEF SameOtherwise, SSL, BuildMaintenance
<1>2. SameOtherwise(a, b) => /\ a.enabled = b.enabled /\ a.name = b.name
                             /\ a.hostHeader = b.hostHeader /\ a.tlsServerName = b.tlsServerName
  BY Zenon DEF SameOtherwise
<1>3. SameReadings(a, b, c) => BuildRules(a, c) = BuildRules(b, c) /\ BuildHeaders(a) = BuildHeaders(b)
  BY Zenon DEF SameReadings
<1>4. SameReadings(a, b, c) /\ SameOtherwise(a, b) => BuildAuth(a, s, c) = BuildAuth(b, s, c)
  BY SameAuth
<1>5. SameReadings(a, b, c) /\ SameOtherwise(a, b) =>
        BuildTargetExtras(Gateway(c), a) = BuildTargetExtras(Gateway(c), b)
  BY SameTarget
<1> QED
  BY <1>1, <1>2, <1>3, <1>4, <1>5, ResourceIsFilled, Zenon

\* What is known of an annotation that cannot be used.
LEMMA UnusableText ==
    ASSUME NEW v
    PROVE  /\ Unusable("rules", v) => v = Malformed
           /\ Unusable("headers", v) => v = Malformed
           /\ Unusable("targetHealthcheck", v) => v = Malformed
<1>1. Unusable("rules", v) => v = Malformed
  BY DEF Unusable
<1>2. Unusable("headers", v) => v = Malformed
  BY DEF Unusable
<1>3. Unusable("targetHealthcheck", v) => v = Malformed
  BY DEF Unusable
<1> QED
  BY <1>1, <1>2, <1>3, Zenon

LEMMA UnusableMatch ==
    ASSUME NEW v
    PROVE  /\ Unusable("targetPathMatch", v) => OneOf(Absent, PathMatches) = OneOf(v, PathMatches)
           /\ Unusable("targetRewriteMatch", v) => OneOf(Absent, RewriteMatches) = OneOf(v, RewriteMatches)
<1>1. Unusable("targetPathMatch", v) => v \notin PathMatches
  BY DEF Unusable
<1>2. Unusable("targetRewriteMatch", v) => v \notin RewriteMatches
  BY DEF Unusable
<1>3. Absent \notin PathMatches /\ Absent \notin RewriteMatches
  BY AbsentIsNoText, Zenon DEF PathMatches, RewriteMatches
<1> QED
  BY <1>1, <1>2, <1>3, Zenon DEF OneOf

LEMMA UnusableIDP ==
    ASSUME NEW v
    PROVE  Unusable("idp", v) => Atoi(v) = NotANumber \/ ~(Atoi(v) > 0)
BY DEF Unusable

LEMMA UnusableNumber ==
    ASSUME NEW v
    PROVE  /\ Unusable("targetPriority", v) => InRange(Absent, Priorities) = InRange(v, Priorities)
           /\ Unusable("targetInternalPort", v) => InRange(Absent, Ports) = InRange(v, Ports)
<1>1. Unusable("targetPriority", v) => Atoi(v) \notin Priorities
  BY DEF Unusable
<1>2. Unusable("targetInternalPort", v) => Atoi(v) \notin Ports
  BY DEF Unusable
<1>3. \A range : Atoi(v) \notin range => InRange(Absent, range) = InRange(v, range)
  BY Zenon DEF InRange
<1> QED
  BY <1>1, <1>2, <1>3

\* An annotation that cannot be used reads as one that is absent.
LEMMA UnusableReads ==
    ASSUME NEW a, NEW b, NEW c
    PROVE  b.sso = a.sso /\ (\A f \in Checked : b[f] = a[f] \/ (b[f] = Absent /\ Unusable(f, a[f]))) =>
             SameReadings(b, a, c)
<1> DEFINE Close(f) == b[f] = a[f] \/ (b[f] = Absent /\ Unusable(f, a[f]))
<1>1. Close("rules") => BuildRules(b, c) = BuildRules(a, c)
  <2>1. Close("rules") => b.rules = a.rules \/ (b.rules = Absent /\ a.rules = Malformed)
    BY UnusableText
  <2> QED
    BY <2>1 DEF BuildRules
<1>2. Close("headers") => BuildHeaders(b) = BuildHeaders(a)
  <2>1. Close("headers") => b.headers = a.headers \/ (b.headers = Absent /\ a.headers = Malformed)
    BY UnusableText
  <2> QED
    BY <2>1 DEF BuildHeaders
<1>3. Close("targetHealthcheck") => HealthCheck(b) = HealthCheck(a)
  <2>1. Close("targetHealthcheck") => \/ b.targetHealthcheck = a.targetHealthcheck
                                      \/ b.targetHealthcheck = Absent /\ a.targetHealthcheck = Malformed
    BY UnusableText
  <2>2. UnmarshalHealthCheck(Absent) = Absent /\ UnmarshalHealthCheck(Malformed) = Absent
    BY Zenon DEF UnmarshalHealthCheck
  <2> QED
    BY <2>1, <2>2, Zenon DEF HealthCheck
<1>4. Close("targetPathMatch") => PathMatch(b) = PathMatch(a)
  BY UnusableMatch, Zenon DEF PathMatch
<1>5. Close("targetPriority") => Priority(b) = Priority(a)
  BY UnusableNumber, Zenon DEF Priority
<1>6. Close("targetInternalPort") => InternalPort(b) = InternalPort(a)
  BY UnusableNumber, Zenon DEF InternalPort
<1>7. Close("targetRewriteMatch") => RewriteMatch(b) = RewriteMatch(a)
  BY UnusableMatch, Zenon DEF RewriteMatch
<1>8. b.sso = a.sso /\ Close("idp") => IDP(b, c) = IDP(a, c)
  <2>1. Close("idp") => b.idp = a.idp \/ (b.idp = Absent /\ (Atoi(a.idp) = NotANumber \/ ~(Atoi(a.idp) > 0)))
    BY UnusableIDP, Zenon
  <2> HIDE DEF Close
  <2> QED
    BY <2>1, Zenon DEF IDP, ssoEnabled
<1>9. (\A f \in Checked : Close(f)) =>
        /\ Close("rules") /\ Close("headers") /\ Close("targetHealthcheck")
        /\ Close("targetPathMatch") /\ Close("targetRewriteMatch")
        /\ Close("targetPriority") /\ Close("targetInternalPort") /\ Close("idp")
  BY DEF Checked
<1> HIDE DEF Close
<1>10. b.sso = a.sso /\ (\A f \in Checked : Close(f)) => SameReadings(b, a, c)
  BY <1>1, <1>2, <1>3, <1>4, <1>5, <1>6, <1>7, <1>8, <1>9, Zenon DEF SameReadings
<1> QED
  BY <1>10 DEF Close

\* Exposed depends on the annotations through enabled and the entries built.
LEMMA SameExposed ==
    ASSUME NEW in, NEW other,
           other.env = in.env, other.flags = in.flags, other.route = in.route, other.secret = in.secret,
           other.annotations.enabled = in.annotations.enabled,
           \A n, h, s, c : BuildResource(n, h, other.annotations, s, c) = BuildResource(n, h, in.annotations, s, c)
    PROVE  Exposed(other) = Exposed(in)
<1>1. PICK c : c = Load(in.env, in.flags)
  OBVIOUS
<1>2. ShouldProcess(other.annotations, filterByGateway(in.route, c), TRUE) <=>
      ShouldProcess(in.annotations, filterByGateway(in.route, c), TRUE)
  BY Zenon DEF ShouldProcess, isOptOut
<1>3. buildEntries(in.route, other.annotations, in.secret, c) = buildEntries(in.route, in.annotations, in.secret, c)
  BY ZenonT(60) DEF buildEntries
<1>4. Exposed(in) = IF WatchesHTTPRoutes(c) /\ ShouldProcess(in.annotations, filterByGateway(in.route, c), TRUE)
                    THEN buildEntries(in.route, in.annotations, in.secret, c) ELSE <<>>
  BY <1>1 DEF Exposed
<1>5. Exposed(other) = IF WatchesHTTPRoutes(c) /\ ShouldProcess(other.annotations, filterByGateway(in.route, c), TRUE)
                       THEN buildEntries(in.route, other.annotations, in.secret, c) ELSE <<>>
  BY <1>1 DEF Exposed
<1>6. CASE WatchesHTTPRoutes(c) /\ ShouldProcess(in.annotations, filterByGateway(in.route, c), TRUE)
  <2>1. Exposed(other) = buildEntries(in.route, other.annotations, in.secret, c)
    BY <1>2, <1>5, <1>6
  <2>2. Exposed(in) = buildEntries(in.route, in.annotations, in.secret, c)
    BY <1>4, <1>6
  <2> QED
    BY <1>3, <2>1, <2>2
<1>7. CASE ~(WatchesHTTPRoutes(c) /\ ShouldProcess(in.annotations, filterByGateway(in.route, c), TRUE))
  <2>1. Exposed(other) = <<>>
    BY <1>2, <1>5, <1>7
  <2>2. Exposed(in) = <<>>
    BY <1>4, <1>7
  <2> QED
    BY <2>1, <2>2
<1> QED
  BY <1>6, <1>7

\* BuildRules, BuildHeaders, BuildTargetExtras and BuildAuth take an annotation that
\* cannot be used for one that is absent, and it spoils nothing else.
THEOREM UnusableCountsAsAbsent == Spec => []UnusableIsAbsent
<1>1. ASSUME DoneInv, done, NEW field \in Checked, Unusable(field, annotations[field])
      PROVE  entries = Exposed([input EXCEPT !.annotations[field] = Absent])
  <2>1. PICK other : other = [input EXCEPT !.annotations[field] = Absent]
    OBVIOUS
  <2>2. /\ DOMAIN input = {"env", "flags", "route", "annotations", "secret"}
        /\ DOMAIN annotations = DOMAIN NoAnnotations
    BY <1>1, InputAssumption DEF DoneInv, annotations
  <2>3. /\ other.env = input.env /\ other.flags = input.flags
        /\ other.route = input.route /\ other.secret = input.secret
        /\ other.annotations = [annotations EXCEPT ![field] = Absent]
    BY <2>1, <2>2 DEF annotations
  <2>4. PICK a, b : a = annotations /\ b = other.annotations
    OBVIOUS
  <2>5. /\ b[field] = Absent
        /\ \A f \in DOMAIN NoAnnotations : f # field => b[f] = a[f]
    BY <1>1, <2>2, <2>3, <2>4 DEF Checked, NoAnnotations
  <2>6. \A c : SameReadings(b, a, c)
    <3>1. \A f \in Checked : b[f] = a[f] \/ (b[f] = Absent /\ Unusable(f, a[f]))
      BY <1>1, <2>4, <2>5 DEF Checked, NoAnnotations
    <3>2. b.sso = a.sso
      BY <1>1, <2>5 DEF Checked, NoAnnotations
    <3> QED
      BY <3>1, <3>2, UnusableReads, Zenon
  <2>7. SameOtherwise(b, a)
    BY <1>1, <2>5 DEF Checked, NoAnnotations, SameOtherwise
  <2>8. \A n, h, s, c : BuildResource(n, h, b, s, c) = BuildResource(n, h, a, s, c)
    BY <2>6, <2>7, SameResource
  <2>9. Exposed(other) = Exposed(input)
    <3>1. other.annotations.enabled = input.annotations.enabled
      BY <2>4, <2>7 DEF SameOtherwise, annotations
    <3>2. \A n, h, s, c : BuildResource(n, h, other.annotations, s, c) =
                         BuildResource(n, h, input.annotations, s, c)
      BY <2>4, <2>8, Zenon DEF annotations
    <3> QED
      BY <2>3, <3>1, <3>2, SameExposed
  <2> QED
    BY <1>1, <2>1, <2>9 DEF DoneInv
<1>2. DoneInv => UnusableIsAbsent
  BY <1>1 DEF UnusableIsAbsent
<1> QED
  BY <1>2, Processed, PTL

(***************************************************************************)
(* Positions: the last one that passes a test, and all that do.            *)
(***************************************************************************)
\* A set of numbers that is not empty has a least one.
LEMMA LeastNumber ==
    ASSUME NEW S \in SUBSET Nat, S # {}
    PROVE  \E x \in S : \A y \in S : x <= y
<1> DEFINE Less == {p \in Nat \X Nat : p[1] < p[2]}
<1>1. IsWellFoundedOn(Less, Nat)
  BY NatLessThanWellFounded DEF OpToRel
<1>2. PICK x \in S : \A y \in S : <<y, x>> \notin Less
  BY <1>1, WFMin
<1>3. ASSUME NEW y \in S PROVE x <= y
  <2>1. <<y, x>> \in Nat \X Nat /\ <<y, x>>[1] = y /\ <<y, x>>[2] = x
    OBVIOUS
  <2>2. ~(y < x)
    BY <1>2, <2>1
  <2> QED
    BY <2>2
<1> QED
  BY <1>3

\* A set of positions that is not empty has a last one, which Max gives.
LEMMA GreatestIndex ==
    ASSUME NEW n \in Nat, NEW I \in SUBSET (1 .. n), I # {}
    PROVE  Max(I) \in I /\ \A i \in I : i <= Max(I)
<1> DEFINE S == {m \in 0 .. n : n - m \in I}
<1>1. S \in SUBSET Nat /\ S # {}
  <2>1. PICK i : i \in I
    OBVIOUS
  <2>2. n - i \in S
    BY <2>1
  <2> QED
    BY <2>2
<1>2. PICK m \in S : \A y \in S : m <= y
  BY <1>1, LeastNumber
<1>3. n - m \in I
  BY <1>2
<1>4. ASSUME NEW i \in I PROVE i <= n - m
  <2>1. n - i \in S
    OBVIOUS
  <2> QED
    BY <1>2, <2>1
<1> QED
  BY <1>3, <1>4 DEF Max

\* ItemsAt takes each of the positions once and nothing else: their ranks are the
\* numbers from 1 to how many there are.
LEMMA ItemsAtFacts ==
    ASSUME NEW s, NEW I \in SUBSET Nat, IsFiniteSet(I)
    PROVE  /\ Cardinality(I) \in Nat
           /\ ItemsAt(s, I) \in Seq({s[i] : i \in I}) /\ Len(ItemsAt(s, I)) = Cardinality(I)
           /\ \A i \in I : \E n \in 1 .. Cardinality(I) : ItemsAt(s, I)[n] = s[i]
<1> DEFINE C == Cardinality(I)
           Upto(m) == {k \in I : k <= m}
           rank == [i \in I |-> Cardinality(Upto(i))]
<1>1. C \in Nat
  BY FS_CardinalityType
<1>2. ASSUME NEW i \in I
      PROVE  IsFiniteSet(Upto(i)) /\ Cardinality(Upto(i)) \in 1 .. C
  <2>1. Upto(i) \in SUBSET I /\ i \in Upto(i)
    OBVIOUS
  <2>2. IsFiniteSet(Upto(i)) /\ Cardinality(Upto(i)) <= C
    BY <2>1, FS_Subset
  <2>3. Cardinality(Upto(i)) \in Nat /\ Cardinality(Upto(i)) # 0
    BY <2>1, <2>2, FS_CardinalityType, FS_EmptySet
  <2> QED
    BY <1>1, <2>2, <2>3
<1>3. ASSUME NEW i \in I, NEW j \in I, i < j
      PROVE  Cardinality(Upto(i)) # Cardinality(Upto(j))
  <2>1. \A k \in I : k <= i => k <= j
    BY <1>3
  <2>3. Upto(i) \in SUBSET Upto(j)
    BY <2>1, Zenon
  <2>4. j \in Upto(j) /\ j \notin Upto(i)
    BY <1>3
  <2>2. IsFiniteSet(Upto(j))
    BY <1>2
  <2> HIDE DEF Upto
  <2> QED
    BY <2>2, <2>3, <2>4, FS_Subset
<1>4. ASSUME NEW i \in I, NEW j \in I, Cardinality(Upto(i)) = Cardinality(Upto(j)) PROVE i = j
  <2>1. ~(i < j) /\ ~(j < i)
    BY <1>3, <1>4
  <2> QED
    BY <2>1
<1>5. rank \in Injection(I, 1 .. C)
  <2>1. rank \in [I -> 1 .. C]
    BY <1>2
  <2>2. \A i, j \in I : rank[i] = rank[j] => i = j
    BY <1>4
  <2> QED
    BY <2>1, <2>2 DEF Injection, IsInjective
<1>6. IsFiniteSet(1 .. C) /\ Cardinality(1 .. C) = C
  BY <1>1, FS_Interval
<1>7. rank \in Surjection(I, 1 .. C)
  BY <1>5, <1>6, FS_Injection
<1>8. ASSUME NEW n \in 1 .. C PROVE \E i \in I : Cardinality(Upto(i)) = n
  BY <1>7 DEF Surjection
<1> DEFINE At(n) == CHOOSE i \in I : Cardinality(Upto(i)) = n
<1>9. ASSUME NEW n \in 1 .. C PROVE At(n) \in I /\ Cardinality(Upto(At(n))) = n
  BY <1>8
<1>10. ASSUME NEW i \in I
       PROVE  Cardinality(Upto(i)) \in 1 .. C /\ At(Cardinality(Upto(i))) = i
  <2>1. Cardinality(Upto(i)) \in 1 .. C
    BY <1>2
  <2> QED
    BY <2>1, <1>9, <1>4
<1>11. ItemsAt(s, I) = [n \in 1 .. C |-> s[At(n)]]
  BY DEF ItemsAt
<1> HIDE DEF At, Upto, C
<1>12. ItemsAt(s, I) \in Seq({s[i] : i \in I}) /\ Len(ItemsAt(s, I)) = C
  BY <1>1, <1>9, <1>11
<1>13. ASSUME NEW i \in I PROVE \E n \in 1 .. C : ItemsAt(s, I)[n] = s[i]
  BY <1>10, <1>11
<1> QED
  BY <1>1, <1>12, <1>13 DEF C

\* Host names with the same key are the same but for dots and dashes.
LEMMA SameKey ==
    ASSUME NEW g, NEW h, IsSequence(g), IsSequence(h), HostnameToKey(g) = HostnameToKey(h)
    PROVE  Len(g) = Len(h) /\ \A n \in DOMAIN h : g[n] = h[n] \/ {g[n], h[n]} = {".", "-"}
<1>1. DOMAIN HostnameToKey(g) = DOMAIN g /\ DOMAIN HostnameToKey(h) = DOMAIN h
  BY SMTT(30) DEF HostnameToKey
<1>2. DOMAIN g = DOMAIN h /\ Len(g) = Len(h)
  <2>1. DOMAIN g = DOMAIN h
    BY <1>1
  <2>2. /\ Len(g) \in Nat /\ DOMAIN g = 1 .. Len(g)
        /\ Len(h) \in Nat /\ DOMAIN h = 1 .. Len(h)
    BY DEF IsSequence
  <2>3. \A m, n \in Nat : 1 .. m = 1 .. n => m = n
    <3> SUFFICES ASSUME NEW m \in Nat, NEW n \in Nat, m < n PROVE 1 .. m # 1 .. n
      OBVIOUS
    <3>1. n \in 1 .. n /\ n \notin 1 .. m
      OBVIOUS
    <3> QED
      BY <3>1
  <2> QED
    BY <2>1, <2>2, <2>3
<1>3. ASSUME NEW n \in DOMAIN h PROVE g[n] = h[n] \/ {g[n], h[n]} = {".", "-"}
  <2>1. HostnameToKey(g)[n] = HostnameToKey(h)[n]
    OBVIOUS
  <2>2. (IF g[n] = "." THEN "-" ELSE g[n]) = (IF h[n] = "." THEN "-" ELSE h[n])
    BY <1>2, <2>1 DEF HostnameToKey
  <2> QED
    BY <2>2
<1> QED
  BY <1>2, <1>3

\* buildEntries: every host name of an exposed route has its entry, unless a later
\* one is the same but for dots and dashes and replaces it.
THEOREM HostsHaveTheirEntries == Spec => []EveryHostHasItsEntry
<1>1. ASSUME DoneInv, entries # <<>>, NEW i \in DOMAIN route.hostnames
      PROVE  \/ \E k \in DOMAIN entries : entries[k].FullDomain = route.hostnames[i]
             \/ \E j \in DOMAIN route.hostnames :
                  /\ j > i /\ Len(route.hostnames[j]) = Len(route.hostnames[i])
                  /\ \A n \in DOMAIN route.hostnames[i] :
                       \/ route.hostnames[j][n] = route.hostnames[i][n]
                       \/ {route.hostnames[j][n], route.hostnames[i][n]} = {".", "-"}
  <2>1. PICK hosts, k : hosts = route.hostnames /\ k = HostnameToKey(hosts[i])
    OBVIOUS
  <2>2. IsSequence(hosts) /\ \A j \in DOMAIN hosts : IsSequence(hosts[j])
    BY <1>1, <2>1, InputAssumption DEF DoneInv, route
  <2>3. Len(hosts) \in Nat /\ DOMAIN hosts = 1 .. Len(hosts)
    BY <2>2 DEF IsSequence
  <2>4. PICK c : entries = buildEntries(route, annotations, input.secret, c)
    BY <1>1 DEF DoneInv, Exposed, route, annotations
  <2> DEFINE same == {j \in 1 .. Len(hosts) : HostnameToKey(hosts[j]) = k}
  <2>5. i \in same
    BY <2>1, <2>3
  <2>6. Max(same) \in same /\ i <= Max(same)
    BY <2>3, <2>5, GreatestIndex
  <2>7. k \in DOMAIN entries
    BY <2>1, <2>4 DEF buildEntries, Hosts
  <2>8. entries[k] = BuildResource(route.name, hosts[Max(same)], annotations, input.secret, c)
    <3>1. DOMAIN entries = {HostnameToKey(h) : h \in Hosts(route)}
      BY <2>4 DEF buildEntries
    <3>2. \A x \in DOMAIN entries :
             entries[x] = BuildResource(route.name,
                 LET I == {j \in 1 .. Len(hosts) : HostnameToKey(hosts[j]) = x}
                 IN hosts[IF I # {} THEN Max(I) ELSE 0],
                 annotations, input.secret, c)
      BY <2>1, <2>4, <3>1, Zenon DEF buildEntries, SelectLastInSeq
    <3> HIDE DEF same
    <3>3. entries[k] = BuildResource(route.name, hosts[IF same # {} THEN Max(same) ELSE 0],
                                     annotations, input.secret, c)
      BY <2>7, <3>2, Zenon DEF same
    <3> QED
      BY <2>5, <3>3
  <2>9. entries[k].FullDomain = hosts[Max(same)]
    BY <2>8, EntryFields
  <2>10. CASE Max(same) = i
    BY <2>1, <2>7, <2>9, <2>10
  <2>11. CASE Max(same) # i
    <3>1. PICK j : j = Max(same)
      OBVIOUS
    <3>2. i \in 1 .. Len(hosts) /\ j \in 1 .. Len(hosts) /\ HostnameToKey(hosts[j]) = k
      BY <2>5, <2>6, <3>1
    <3>3. j \in DOMAIN hosts /\ j > i /\ HostnameToKey(hosts[j]) = HostnameToKey(hosts[i])
      BY <2>1, <2>3, <2>6, <2>11, <3>1, <3>2
    <3>4. /\ Len(hosts[j]) = Len(hosts[i])
          /\ \A n \in DOMAIN hosts[i] :
               hosts[j][n] = hosts[i][n] \/ {hosts[j][n], hosts[i][n]} = {".", "-"}
      BY <2>1, <2>2, <3>3, SameKey
    <3> QED
      BY <2>1, <3>3, <3>4
  <2> QED
    BY <2>10, <2>11
<1>2. DoneInv => EveryHostHasItsEntry
  BY <1>1 DEF EveryHostHasItsEntry
<1> QED
  BY <1>2, Processed, PTL

\* The countries are what the operator gave, or none.
LEMMA LoadedCountries ==
    ASSUME NEW env, NEW flags, Load(env, flags) # NoConfig
    PROVE  Load(env, flags)["DenyCountries"] =
             OrDefault(OrDefault(flags["DenyCountries"], env["DenyCountries"]), <<>>)
<1>1. "DenyCountries" \in Settings /\ Defaults["DenyCountries"] = <<>>
  BY DEF Settings, Defaults
<1>2. \A text : Parse("DenyCountries", text) = text
  BY DEF Parse, BoolSettings, IntSettings
<1>3. PICK v, f, e : /\ v = Load(env, flags)["DenyCountries"]
                     /\ f = flags["DenyCountries"] /\ e = env["DenyCountries"]
  OBVIOUS
<1>4. v = IF f # Absent THEN Parse("DenyCountries", f)
          ELSE IF e # Absent THEN Parse("DenyCountries", e) ELSE Defaults["DenyCountries"]
  BY <1>1, <1>3, Loaded
<1>5. Parse("DenyCountries", f) = f /\ Parse("DenyCountries", e) = e
  BY <1>2, Zenon
<1>6. v = IF f # Absent THEN f ELSE IF e # Absent THEN e ELSE <<>>
  BY <1>1, <1>4, <1>5, Zenon
<1>7. v = OrDefault(OrDefault(f, e), <<>>)
  BY <1>6, Zenon DEF OrDefault
<1> QED
  BY <1>3, <1>7, Zenon

\* The positions of a sequence that pass a test are finitely many.
LEMMA FinitePositions ==
    ASSUME NEW s, IsSequence(s), NEW I \in SUBSET DOMAIN s
    PROVE  I \in SUBSET Nat /\ IsFiniteSet(I)
<1>1. Len(s) \in Nat /\ DOMAIN s = 1 .. Len(s)
  BY DEF IsSequence
<1>2. IsFiniteSet(1 .. Len(s))
  BY <1>1, FS_Interval
<1> QED
  BY <1>1, <1>2, FS_Subset

\* One sequence after another.
LEMMA Concatenated ==
    ASSUME NEW first, IsSequence(first), NEW last, IsSequence(last), NEW all, all = first \o last
    PROVE  /\ Len(first) \in Nat /\ Len(last) \in Nat /\ Len(all) = Len(first) + Len(last)
           /\ \A i \in 1 .. Len(first) : all[i] = first[i]
           /\ \A i \in Len(first) + 1 .. Len(all) :
                i - Len(first) \in 1 .. Len(last) /\ all[i] = last[i - Len(first)]
           /\ \A n \in 1 .. Len(last) :
                Len(first) + n \in Len(first) + 1 .. Len(all) /\ all[Len(first) + n] = last[n]
BY DEF IsSequence

\* The rules that are kept of an annotation are from there, and all documented
\* ones are kept.
LEMMA OwnRules ==
    ASSUME NEW rules, IsSequence(rules)
    PROVE  /\ IsSequence(ValidRules(rules))
           /\ \A i \in 1 .. Len(ValidRules(rules)) : \E j \in DOMAIN rules : ValidRules(rules)[i] = rules[j]
           /\ \A j \in DOMAIN rules : Documented(rules[j]) =>
                \E i \in 1 .. Len(ValidRules(rules)) : ValidRules(rules)[i] = rules[j]
<1>1. PICK I, kept : I = {i \in DOMAIN rules : isValidRule(rules[i])} /\ kept = ItemsAt(rules, I)
  OBVIOUS
<1>2. I \in SUBSET DOMAIN rules /\ kept = ValidRules(rules)
  BY <1>1 DEF ValidRules
<1>3. kept \in Seq({rules[i] : i \in I})
  <2>1. I \in SUBSET Nat /\ IsFiniteSet(I)
    BY <1>2, FinitePositions, Zenon
  <2> QED
    BY <1>1, <2>1, ItemsAtFacts, Zenon
<1>4. IsSequence(kept) /\ \A i \in 1 .. Len(kept) : \E j \in I : kept[i] = rules[j]
  BY <1>3 DEF IsSequence, Range
<1>5. \A j \in I : \E i \in 1 .. Len(kept) : kept[i] = rules[j]
  <2>1. I \in SUBSET Nat /\ IsFiniteSet(I)
    BY <1>2, FinitePositions, Zenon
  <2>2. Len(kept) = Cardinality(I) /\ \A j \in I : \E i \in 1 .. Cardinality(I) : kept[i] = rules[j]
    BY <1>1, <2>1, ItemsAtFacts
  <2> QED
    BY <2>2
<1>6. \A r : Documented(r) => isValidRule(r)
  BY DEF Documented, isValidRule, Priorities
<1>7. \A j \in DOMAIN rules : Documented(rules[j]) => j \in I
  BY <1>1, <1>6
<1> QED
  BY <1>2, <1>4, <1>5, <1>7

NotBlank(parts) == {i \in DOMAIN parts : parts[i] \notin {"", " "}}

\* splitCSV keeps every part that is not blank, and no other.
LEMMA KeptParts ==
    ASSUME NEW parts, IsSequence(parts)
    PROVE  LET I == NotBlank(parts)
               out == splitCSV(parts)
           IN /\ Cardinality(I) \in Nat /\ IsSequence(out) /\ Len(out) = Cardinality(I)
              /\ \A n \in 1 .. Cardinality(I) : \E i \in I : out[n] = parts[i]
              /\ \A i \in I : \E n \in 1 .. Cardinality(I) : out[n] = parts[i]
<1>1. PICK I, out, C : I = NotBlank(parts) /\ out = ItemsAt(parts, I) /\ C = Cardinality(I)
  OBVIOUS
<1>2. out = splitCSV(parts)
  BY <1>1 DEF splitCSV, NotBlank
<1>3. I \in SUBSET Nat /\ IsFiniteSet(I)
  <2>1. I \in SUBSET DOMAIN parts
    BY <1>1 DEF NotBlank
  <2> QED
    BY <2>1, FinitePositions
<1>4. C \in Nat /\ out \in Seq({parts[i] : i \in I}) /\ Len(out) = C
  BY <1>1, <1>3, ItemsAtFacts
<1>5. \A i \in I : \E n \in 1 .. C : out[n] = parts[i]
  BY <1>1, <1>3, ItemsAtFacts
<1>6. \A n \in 1 .. C : \E i \in I : out[n] = parts[i]
  <2>1. DOMAIN out = 1 .. C
    BY <1>4
  <2>2. \A n \in DOMAIN out : out[n] \in {parts[i] : i \in I}
    BY <1>4
  <2> QED
    BY <2>1, <2>2
<1>7. IsSequence(out)
  BY <1>4 DEF IsSequence, Range
<1> QED
  BY <1>1, <1>2, <1>4, <1>5, <1>6, <1>7

\* There is one deny rule for each country.
LEMMA DenyRules ==
    ASSUME NEW c, NEW countries, countries = splitCSV(c.DenyCountries), IsSequence(countries),
           NEW rules, rules = buildDenyRules(c)
    PROVE  /\ IsSequence(rules) /\ Len(rules) = Len(countries)
           /\ \A n \in 1 .. Len(countries) : /\ rules[n].Value = countries[n]
                                             /\ rules[n].Action = "deny" /\ rules[n].Match = "country"
<1>1. PICK L : L = Len(countries)
  OBVIOUS
<1>2. L \in Nat /\ DOMAIN countries = 1 .. L
  BY <1>1 DEF IsSequence
<1>3. rules = [n \in 1 .. L |->
                  [Action |-> "deny", Match |-> "country", Value |-> countries[n], Priority |-> 0]]
  BY <1>2 DEF buildDenyRules
<1>4. DOMAIN rules = 1 .. L /\ \A n \in 1 .. L : rules[n] \in Range(rules)
  BY <1>3 DEF Range
<1>5. rules = [n \in 1 .. L |-> rules[n]]
  BY <1>3
<1>6. rules \in Seq(Range(rules)) /\ Len(rules) = L
  BY <1>2, <1>4, <1>5
<1>7. \A n \in 1 .. L : /\ rules[n].Value = countries[n]
                         /\ rules[n].Action = "deny" /\ rules[n].Match = "country"
  BY <1>3
<1> QED
  BY <1>1, <1>6, <1>7, Zenon DEF IsSequence

\* The rules end in a deny rule for each country that is denied, and are from the
\* annotation before.
EndInDenials(rules, a, given, denied) ==
    \E own \in Nat :
        /\ Cardinality(denied) \in Nat /\ Len(rules) = own + Cardinality(denied)
        /\ {given[i] : i \in denied} = {rules[i].Value : i \in own + 1 .. Len(rules)}
        /\ \A i \in own + 1 .. Len(rules) : rules[i].Action = "deny" /\ rules[i].Match = "country"
        /\ \A i \in 1 .. own : \E j \in DOMAIN a.rules : rules[i] = a.rules[j]
        /\ a.rules \notin {Absent, Malformed} => \A j \in DOMAIN a.rules :
             Documented(a.rules[j]) => \E i \in 1 .. own : rules[i] = a.rules[j]

\* BuildRules puts them together so.
LEMMA RulesOfEntry ==
    ASSUME NEW a, NEW c, a.rules \notin {Absent, Malformed} => IsSequence(a.rules),
           NEW given, given = c.DenyCountries, IsSequence(given),
           NEW denied, denied = NotBlank(given),
           NEW rules, rules = BuildRules(a, c)
    PROVE  EndInDenials(rules, a, given, denied)
<1>1. PICK first : first = IF a.rules \in {Absent, Malformed} THEN <<>> ELSE ValidRules(a.rules)
  OBVIOUS
<1>2. /\ IsSequence(first)
      /\ \A i \in 1 .. Len(first) : \E j \in DOMAIN a.rules : first[i] = a.rules[j]
      /\ a.rules \notin {Absent, Malformed} => \A j \in DOMAIN a.rules :
           Documented(a.rules[j]) => \E i \in 1 .. Len(first) : first[i] = a.rules[j]
  <2>1. CASE a.rules \in {Absent, Malformed}
    <3>1. first = <<>>
      BY <1>1, <2>1
    <3>2. IsSequence(first) /\ Len(first) = 0
      BY <3>1 DEF IsSequence, Range
    <3> QED
      BY <2>1, <3>2
  <2>2. CASE a.rules \notin {Absent, Malformed}
    <3>1. IsSequence(a.rules) /\ first = ValidRules(a.rules)
      BY <1>1, <2>2
    <3>2. PICK rs : rs = a.rules
      OBVIOUS
    <3>3. /\ IsSequence(first)
          /\ \A i \in 1 .. Len(first) : \E j \in DOMAIN rs : first[i] = rs[j]
          /\ \A j \in DOMAIN rs : Documented(rs[j]) => \E i \in 1 .. Len(first) : first[i] = rs[j]
      BY <3>1, <3>2, OwnRules
    <3> QED
      BY <3>2, <3>3, Zenon
  <2> QED
    BY <2>1, <2>2
<1>3. PICK countries, C : countries = splitCSV(given) /\ C = Cardinality(denied)
  OBVIOUS
<1>4. /\ C \in Nat /\ IsSequence(countries) /\ Len(countries) = C
      /\ \A n \in 1 .. C : \E i \in denied : countries[n] = given[i]
      /\ \A i \in denied : \E n \in 1 .. C : countries[n] = given[i]
  <2>1. LET I == NotBlank(given)
            out == splitCSV(given)
        IN /\ Cardinality(I) \in Nat /\ IsSequence(out) /\ Len(out) = Cardinality(I)
           /\ \A n \in 1 .. Cardinality(I) : \E i \in I : out[n] = given[i]
           /\ \A i \in I : \E n \in 1 .. Cardinality(I) : out[n] = given[i]
    BY KeptParts, Zenon
  <2> QED
    BY <1>3, <2>1
<1>5. PICK last : last = buildDenyRules(c)
  OBVIOUS
<1>6. /\ IsSequence(last) /\ Len(last) = C
      /\ \A n \in 1 .. C : /\ last[n].Value = countries[n]
                           /\ last[n].Action = "deny" /\ last[n].Match = "country"
  <2>1. countries = splitCSV(c.DenyCountries)
    BY <1>3
  <2>2. /\ IsSequence(last) /\ Len(last) = Len(countries)
        /\ \A n \in 1 .. Len(countries) : /\ last[n].Value = countries[n]
                                          /\ last[n].Action = "deny" /\ last[n].Match = "country"
    <3>1. IsSequence(countries)
      BY <1>4
    <3> QED
      BY <1>5, <2>1, <3>1, DenyRules, SMTT(60)
  <2> QED
    BY <1>4, <2>2
<1>7. rules = first \o last
  BY <1>1, <1>5 DEF BuildRules
<1>8. PICK own, total : own = Len(first) /\ total = Len(rules)
  OBVIOUS
<1>9. /\ own \in Nat /\ total = own + C
      /\ \A i \in 1 .. own : rules[i] = first[i]
      /\ \A i \in own + 1 .. total : i - own \in 1 .. C /\ rules[i] = last[i - own]
      /\ \A n \in 1 .. C : own + n \in own + 1 .. total /\ rules[own + n] = last[n]
  <2>1. /\ Len(first) \in Nat /\ Len(last) \in Nat /\ Len(rules) = Len(first) + Len(last)
        /\ \A i \in 1 .. Len(first) : rules[i] = first[i]
        /\ \A i \in Len(first) + 1 .. Len(rules) :
             i - Len(first) \in 1 .. Len(last) /\ rules[i] = last[i - Len(first)]
        /\ \A n \in 1 .. Len(last) :
             Len(first) + n \in Len(first) + 1 .. Len(rules) /\ rules[Len(first) + n] = last[n]
    <3>1. IsSequence(first) /\ IsSequence(last)
      BY <1>2, <1>6
    <3> QED
      BY <1>7, <3>1, Concatenated
  <2> QED
    BY <1>6, <1>8, <2>1, Zenon
<1>10. ASSUME NEW i \in own + 1 .. total
       PROVE  /\ rules[i].Action = "deny" /\ rules[i].Match = "country"
              /\ \E d \in denied : rules[i].Value = given[d]
  <2>1. PICK n : n = i - own
    OBVIOUS
  <2>2. n \in 1 .. C /\ rules[i] = last[n]
    BY <1>9, <2>1
  <2>3. PICK d \in denied : countries[n] = given[d]
    BY <1>4, <2>2
  <2> QED
    BY <1>6, <2>2, <2>3
<1>11. ASSUME NEW d \in denied PROVE \E i \in own + 1 .. total : rules[i].Value = given[d]
  <2>1. PICK n \in 1 .. C : countries[n] = given[d]
    BY <1>4
  <2>2. PICK i : i = own + n
    OBVIOUS
  <2>3. i \in own + 1 .. total /\ rules[i] = last[n]
    BY <1>9, <2>2
  <2> QED
    BY <1>6, <2>1, <2>3
<1>12. {given[i] : i \in denied} = {rules[i].Value : i \in own + 1 .. total}
  BY <1>10, <1>11
<1>13. ASSUME NEW i \in 1 .. own PROVE \E j \in DOMAIN a.rules : rules[i] = a.rules[j]
  BY <1>2, <1>8, <1>9
<1>14. a.rules \notin {Absent, Malformed} => \A j \in DOMAIN a.rules :
         Documented(a.rules[j]) => \E i \in 1 .. own : rules[i] = a.rules[j]
  BY <1>2, <1>8, <1>9
<1>15. \A i \in own + 1 .. total : rules[i].Action = "deny" /\ rules[i].Match = "country"
  BY <1>10
<1>16. /\ Cardinality(denied) \in Nat /\ Len(rules) = own + Cardinality(denied)
       /\ {given[i] : i \in denied} = {rules[i].Value : i \in own + 1 .. Len(rules)}
       /\ \A i \in own + 1 .. Len(rules) : rules[i].Action = "deny" /\ rules[i].Match = "country"
       /\ \A i \in 1 .. own : \E j \in DOMAIN a.rules : rules[i] = a.rules[j]
  BY <1>3, <1>4, <1>8, <1>9, <1>12, <1>13, <1>15
<1> QED
  BY <1>9, <1>14, <1>16, Zenon DEF EndInDenials

\* BuildRules: whatever the rules annotation holds, every entry ends in one deny
\* rule per configured country, and rules of the annotation come before, all
\* documented ones among them.
THEOREM EveryCountryIsDenied == Spec => []DenialsSurvive
<1>1. ASSUME DoneInv, NEW k \in DOMAIN entries
      PROVE  DenialsSurvive!(k)
  <2> DEFINE rules == entries[k].Rules
             given == OrDefault(Given("DenyCountries"), <<>>)
             denied == {i \in DOMAIN given : given[i] \notin {"", " "}}
  <2>1. PICK c : c = Load(input.env, input.flags)
    OBVIOUS
  <2>2. /\ \E h : entries[k] = BuildResource(route.name, h, annotations, input.secret, c)
        /\ c # NoConfig
    BY <1>1, <2>1, EntriesAreBuilt DEF WatchesHTTPRoutes
  <2>3. rules = BuildRules(annotations, c)
    BY <2>2, EntryFields
  <2>4. given = c.DenyCountries
    <3>1. c["DenyCountries"] = OrDefault(OrDefault(input.flags["DenyCountries"], input.env["DenyCountries"]), <<>>)
      BY <2>1, <2>2, LoadedCountries
    <3> QED
      BY <3>1 DEF Given
  <2>5. IsSequence(given)
    <3>1. /\ input.env["DenyCountries"] # Absent => IsSequence(input.env["DenyCountries"])
          /\ input.flags["DenyCountries"] # Absent => IsSequence(input.flags["DenyCountries"])
      BY <1>1, InputAssumption DEF DoneInv
    <3>2. IsSequence(<<>>)
      BY DEF IsSequence, Range
    <3> QED
      BY <3>1, <3>2, Zenon DEF OrDefault, Given
  <2>6. annotations.rules \notin {Absent, Malformed} => IsSequence(annotations.rules)
    BY <1>1, InputAssumption DEF DoneInv, annotations
  <2>7. denied = NotBlank(given)
    BY DEF NotBlank
  <2> HIDE DEF rules, given, denied
  <2>8. PICK own \in Nat :
          /\ Cardinality(denied) \in Nat /\ Len(rules) = own + Cardinality(denied)
          /\ {given[i] : i \in denied} = {rules[i].Value : i \in own + 1 .. Len(rules)}
          /\ \A i \in own + 1 .. Len(rules) : rules[i].Action = "deny" /\ rules[i].Match = "country"
          /\ \A i \in 1 .. own : \E j \in DOMAIN annotations.rules : rules[i] = annotations.rules[j]
          /\ annotations.rules \notin {Absent, Malformed} => \A j \in DOMAIN annotations.rules :
               Documented(annotations.rules[j]) => \E i \in 1 .. own : rules[i] = annotations.rules[j]
    <3>1. PICK a : a = annotations
      OBVIOUS
    <3>2. a.rules \notin {Absent, Malformed} => IsSequence(a.rules)
      BY <2>6, <3>1
    <3>3. rules = BuildRules(a, c)
      BY <2>3, <3>1
    <3>4. EndInDenials(rules, a, given, denied)
      BY <2>4, <2>5, <2>7, <3>2, <3>3, RulesOfEntry
    <3> QED
      BY <3>1, <3>4, Zenon DEF EndInDenials
  <2>9. own = Len(rules) - Cardinality(denied) /\ own >= 0
    BY <2>8
  <2>10. LET n == Len(rules) - Cardinality(denied)
        IN /\ n >= 0
           /\ {given[i] : i \in denied} = {rules[i].Value : i \in n + 1 .. Len(rules)}
           /\ \A i \in n + 1 .. Len(rules) : rules[i].Action = "deny" /\ rules[i].Match = "country"
           /\ \A i \in 1 .. n : \E j \in DOMAIN annotations.rules : rules[i] = annotations.rules[j]
           /\ annotations.rules \notin {Absent, Malformed} => \A j \in DOMAIN annotations.rules :
                Documented(annotations.rules[j]) => \E i \in 1 .. n : rules[i] = annotations.rules[j]
    BY <2>8, <2>9, Zenon
  <2> QED
    BY <2>10, Zenon DEF rules, given, denied
<1>2. DoneInv => DenialsSurvive
  BY <1>1 DEF DenialsSurvive
<1> QED
  BY <1>2, Processed, PTL
===============================================================================
