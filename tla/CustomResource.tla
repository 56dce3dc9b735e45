---------------------------- MODULE CustomResource ----------------------------
(***************************************************************************)
(* api/v1alpha1 and the conversions of the two reconcilers: from a         *)
(* PublicResource or PrivateResource as it is written to its blueprint     *)
(* entry. The API server admits it by the schema and fills in the schema's *)
(* defaults, the reconciler validates and converts it. One behaviour       *)
(* handles one CR. When and how often a reconciler does so is the matter   *)
(* of Reconciler.                                                          *)
(*                                                                         *)
(* A spec is the record of the fields it gives; decoding fills in zero     *)
(* values for the others. Left out are fields that are only copied and     *)
(* that no condition reads: the texts of the maintenance page, the rewrite *)
(* path and most of the health check.                                      *)
(***************************************************************************)
EXTENDS Blueprint

CONSTANTS
    Inputs,  \* families of CRs: sets of records (kind, spec, secret)
    CIDRs,   \* the texts that net.ParseCIDR accepts
    SiteID,  \* the reconciler's SiteID
    NoEntry  \* nothing is published

VARIABLES input, entry, done

vars == <<input, entry, done>>

(***************************************************************************)
(* The schema, from the kubebuilder markers. The API server checks the     *)
(* fields that are given; required ones must be.                           *)
(***************************************************************************)
Requires(r, fields) == fields \subseteq DOMAIN r
Allows(r, field, values) == field \in DOMAIN r => r[field] \in values
Items(r, field) == IF field \in DOMAIN r THEN {r[field][i] : i \in DOMAIN r[field]} ELSE {}

Ports == 1 .. MaxPort
Priorities == 1 .. MaxPriority

AdmittedHeader(h) == Requires(h, {"name", "value"}) /\ h.name # "" /\ h.value # ""

AdmittedRule(r) ==
    /\ Requires(r, {"action", "match", "value"})
    /\ r.action \in {"allow", "deny", "pass"}
    /\ r.match \in {"ip", "cidr", "path", "country"}
    /\ r.value # ""
    /\ Allows(r, "priority", Priorities)

AdmittedHealthCheck(hc) ==
    /\ Requires(hc, {"hostname", "port"})
    /\ hc.port \in Ports
    /\ "interval" \in DOMAIN hc => hc.interval >= 1
    /\ "unhealthyInterval" \in DOMAIN hc => hc.unhealthyInterval >= 1
    /\ \A h \in Items(hc, "headers") : AdmittedHeader(h)

AdmittedTarget(t) ==
    /\ Requires(t, {"hostname", "port"})
    /\ t.port \in Ports
    /\ Allows(t, "method", {"http", "https", "h2c"})
    /\ Allows(t, "enabled", BOOLEAN)
    /\ Allows(t, "internalPort", Ports)
    /\ Allows(t, "pathMatch", {"prefix", "exact", "regex"})
    /\ Allows(t, "rewriteMatch", {"exact", "prefix", "regex", "stripPrefix"})
    /\ Allows(t, "priority", Priorities)
    /\ "healthcheck" \in DOMAIN t => AdmittedHealthCheck(t.healthcheck)

AdmittedPublic(spec) ==
    /\ Requires(spec, {"name", "protocol", "targets"})
    /\ spec.name # <<>>
    /\ spec.protocol \in {"http", "tcp", "udp"}
    /\ Allows(spec, "proxyPort", Ports)
    /\ \A h \in Items(spec, "headers") : AdmittedHeader(h)
    /\ \A r \in Items(spec, "rules") : AdmittedRule(r)
    /\ spec.targets # <<>>
    /\ \A t \in Items(spec, "targets") : AdmittedTarget(t)

AdmittedPrivate(spec) ==
    /\ Requires(spec, {"name", "mode", "destination"})
    /\ spec.name # <<>>
    /\ spec.mode \in {"host", "cidr"}
    /\ spec.destination # ""

(***************************************************************************)
(* What the reconciler decodes: the schema's defaults and zero values.     *)
(***************************************************************************)
Decoded(given, zero) ==
    [f \in DOMAIN given \cup DOMAIN zero |-> IF f \in DOMAIN given THEN given[f] ELSE zero[f]]

DecodedRule(r) == Decoded(r, [priority |-> 0])

DecodedHealthCheck(hc) ==
    Decoded(hc, [enabled |-> TRUE, interval |-> 0, unhealthyInterval |-> 0, headers |-> <<>>,
                 followRedirects |-> Absent])

DecodedTarget(t) ==
    LET given == Decoded(t, [method |-> "", enabled |-> TRUE, internalPort |-> 0, path |-> "", pathMatch |-> "",
                             rewriteMatch |-> "", priority |-> 0, healthcheck |-> Absent])
    IN [given EXCEPT !.healthcheck = IF @ = Absent THEN Absent ELSE DecodedHealthCheck(@)]

DecodedAuth(auth) ==
    Decoded(auth, [ssoEnabled |-> FALSE, ssoRoles |-> <<>>, ssoUsers |-> <<>>, whitelistUsers |-> <<>>,
                   autoLoginIdp |-> 0, authSecretRef |-> ""])

DecodedPublic(spec) ==
    LET given == Decoded(spec, [fullDomain |-> <<>>, proxyPort |-> 0, enabled |-> Absent, ssl |-> TRUE,
                                hostHeader |-> "", tlsServerName |-> <<>>, headers |-> <<>>, auth |-> Absent,
                                maintenance |-> Absent, rules |-> <<>>])
    IN [given EXCEPT !.auth = IF @ = Absent THEN Absent ELSE DecodedAuth(@),
                     !.rules = [i \in DOMAIN @ |-> DecodedRule(@[i])],
                     !.targets = [i \in DOMAIN @ |-> DecodedTarget(@[i])]]

DecodedPrivate(spec) ==
    Decoded(spec, [tcpPorts |-> "*", udpPorts |-> "*", disableIcmp |-> FALSE, alias |-> "",
                   roles |-> <<>>, users |-> <<>>, machines |-> <<>>])

(***************************************************************************)
(* publicresource.                                                         *)
(***************************************************************************)
validateHTTPOnly(spec) == spec.protocol = "http" => spec.fullDomain # <<>>

validate(spec) ==
    /\ spec.protocol = "http" => spec.fullDomain # <<>>
    /\ spec.protocol \in {"tcp", "udp"} => spec.proxyPort # 0

\* The Secret is looked up, and nil if it cannot be read, only when the spec
\* names one.
resolveAuthSecret(spec, secret) ==
    IF spec.auth = Absent \/ spec.auth.authSecretRef = "" THEN NoSecret ELSE secret

convertHeaders(headers) == [i \in DOMAIN headers |-> [Name |-> headers[i].name, Value |-> headers[i].value]]

convertRules(rules) ==
    [i \in DOMAIN rules |-> [Action |-> rules[i].action, Match |-> rules[i].match,
                             Value |-> rules[i].value, Priority |-> rules[i].priority]]

convertMaintenance(m) == IF m = Absent THEN Absent ELSE [Enabled |-> m.enabled]

convertHealthCheck(hc) ==
    IF hc = Absent THEN Absent
    ELSE [Hostname |-> hc.hostname, Port |-> hc.port, Enabled |-> hc.enabled,
          Interval |-> hc.interval, UnhealthyInterval |-> hc.unhealthyInterval,
          Headers |-> convertHeaders(hc.headers), FollowRedirects |-> hc.followRedirects]

convertTargets(targets, siteID) ==
    [i \in DOMAIN targets |->
        LET t == targets[i]
        IN [Site |-> siteID, Hostname |-> t.hostname, Port |-> t.port, Method |-> t.method,
            Enabled |-> t.enabled, InternalPort |-> t.internalPort, Path |-> t.path,
            PathMatch |-> t.pathMatch, RewriteMatch |-> t.rewriteMatch, Priority |-> t.priority,
            HealthCheck |-> convertHealthCheck(t.healthcheck)]]

authBlock(auth, secret) ==
    [Pincode |-> Pincode(secret), Password |-> Password(secret), BasicAuth |-> BasicAuth(secret),
     SSOEnabled |-> auth.ssoEnabled, SSORoles |-> auth.ssoRoles, SSOUsers |-> auth.ssoUsers,
     WhitelistUsers |-> auth.whitelistUsers, AutoLoginIDP |-> auth.autoLoginIdp]

\* Without an auth spec there is no Secret either. An all-zero block is dropped.
buildAuth(auth, secret) ==
    IF auth = Absent THEN NoAuth
    ELSE LET built == authBlock(auth, secret)
         IN IF /\ ~built.SSOEnabled /\ built.SSORoles = <<>> /\ built.SSOUsers = <<>>
               /\ built.WhitelistUsers = <<>> /\ built.AutoLoginIDP = 0
               /\ built.Pincode = 0 /\ built.Password = "" /\ built.BasicAuth = <<>>
            THEN NoAuth ELSE built

TLSServerNameAsGiven(spec) == spec.tlsServerName

TLSServerName(spec) == IF spec.tlsServerName = <<>> THEN spec.fullDomain ELSE spec.tlsServerName

buildResource(spec, secret, siteID) ==
    [Name |-> spec.name, Protocol |-> spec.protocol, Enabled |-> spec.enabled, SSL |-> spec.ssl,
     FullDomain |-> spec.fullDomain, HostHeader |-> spec.hostHeader, TLSServerName |-> TLSServerName(spec),
     ProxyPort |-> spec.proxyPort, Headers |-> convertHeaders(spec.headers),
     Rules |-> convertRules(spec.rules), Maintenance |-> convertMaintenance(spec.maintenance),
     Auth |-> buildAuth(spec.auth, secret), Targets |-> convertTargets(spec.targets, siteID)]

(***************************************************************************)
(* privateresource.                                                        *)
(***************************************************************************)
validatePrivate(spec) ==
    /\ spec.mode = "cidr" => spec.destination \in CIDRs
    /\ \A i \in DOMAIN spec.roles : spec.roles[i] # "Admin"

buildPrivateResource(spec, siteID) ==
    [Name |-> spec.name, Mode |-> spec.mode, Destination |-> spec.destination, Site |-> siteID,
     TCPPorts |-> spec.tcpPorts, UDPPorts |-> spec.udpPorts, DisableICMP |-> spec.disableIcmp,
     Alias |-> spec.alias, Roles |-> spec.roles, Users |-> spec.users, Machines |-> spec.machines]

\* A block is not nil, and a list without items is empty.
ASSUME InputAssumption ==
    \A i \in DOMAIN Inputs : \A in \in Inputs[i] : in.kind = "public" =>
        /\ "auth" \in DOMAIN in.spec =>
             \A s \in {in.secret, NoSecret} : NoAuth # authBlock(DecodedAuth(in.spec.auth), s)
        /\ "targets" \in DOMAIN in.spec => in.spec.targets = <<>> \/ DOMAIN in.spec.targets # {}

(***************************************************************************)
(* The behaviour: kubectl apply, then Reconcile.                           *)
(***************************************************************************)
Init ==
    /\ \E i \in DOMAIN Inputs : input \in Inputs[i]
    /\ entry = NoEntry
    /\ done = FALSE

ReconcilePublic ==
    /\ ~done
    /\ input.kind = "public" /\ AdmittedPublic(input.spec)
    /\ LET spec == DecodedPublic(input.spec)
       IN entry' = IF validate(spec)
                   THEN buildResource(spec, resolveAuthSecret(spec, input.secret), SiteID)
                   ELSE NoEntry
    /\ done' = TRUE
    /\ UNCHANGED input

ReconcilePrivate ==
    /\ ~done
    /\ input.kind = "private" /\ AdmittedPrivate(input.spec)
    /\ LET spec == DecodedPrivate(input.spec)
       IN entry' = IF validatePrivate(spec) THEN buildPrivateResource(spec, SiteID) ELSE NoEntry
    /\ done' = TRUE
    /\ UNCHANGED input

Next == ReconcilePublic \/ ReconcilePrivate

Spec == Init /\ [][Next]_vars

(***************************************************************************)
(* Properties.                                                             *)
(***************************************************************************)
public == entry # NoEntry /\ input.kind = "public"
private == entry # NoEntry /\ input.kind = "private"
secret == input.secret

ValidPort(p) == p \in 1 .. MaxPort
ValidPriority(p) == p \in 0 .. MaxPriority

\* What the markers of api/v1alpha1 and validate are to ensure together, after the
\* decoding has turned missing fields into defaults and zeros: an http entry has a
\* domain and an SNI name, a tcp or udp entry a port, every entry a target, every
\* target a port, a priority in range and a switch, every rule is one that the
\* annotations would accept too, and a private network is a network. Some of what
\* the comments of the types ask for is ensured by neither, and not claimed here: a
\* method on the targets of an http resource (publicresource_types.go:176), no auth
\* and no rules on a tcp or udp resource (:267, :275), no "Admin" among ssoRoles and
\* an alias for a host that is a name.
OnlyWellFormedIsPublished ==
    /\ public =>
        /\ entry.Protocol = "http" => entry.FullDomain # <<>> /\ entry.TLSServerName # <<>>
        /\ entry.Protocol # "http" => ValidPort(entry.ProxyPort)
        /\ entry.Targets # <<>>
        /\ \A i \in DOMAIN entry.Targets :
             /\ ValidPort(entry.Targets[i].Port)
             /\ ValidPriority(entry.Targets[i].Priority)
             /\ entry.Targets[i].Enabled \in BOOLEAN
        /\ \A i \in DOMAIN entry.Rules : isValidRule(entry.Rules[i])
    /\ private =>
        /\ entry.Mode = "cidr" => entry.Destination \in CIDRs
        /\ \A i \in DOMAIN entry.Roles : entry.Roles[i] # "Admin"

\* A credential of the Secret that the spec names is never lost on the way to the
\* entry, so that no CR is published less protected than its Secret says: a
\* numeric pincode (but zero, which both builders take for none), a password, and
\* a basic-auth pair with either half set.
CredentialsAreKept ==
    (public /\ resolveAuthSecret(DecodedPublic(input.spec), secret) # NoSecret) =>
        /\ (secret.pincode # Absent /\ Atoi(secret.pincode) \notin {NotANumber, 0}) =>
             entry.Auth # NoAuth /\ entry.Auth.Pincode = Atoi(secret.pincode)
        /\ secret.password \notin {Absent, ""} =>
             entry.Auth # NoAuth /\ entry.Auth.Password = secret.password
        /\ (secret.user \notin {Absent, ""} \/ secret.pass \notin {Absent, ""}) =>
             entry.Auth # NoAuth /\ entry.Auth.BasicAuth # <<>>

\* A number in decimal notation.
Text(n) ==
    LET length == CHOOSE l \in 1 .. 9 : n < 10^l /\ (l > 1 => n >= 10^(l - 1))
    IN [i \in 1 .. length |-> (n \div 10^(length - i)) % 10]

\* Nil is not a value of a switch, and Atoi reads a number as it is written.
ASSUME SwitchAssumption == Absent \notin BOOLEAN
ASSUME NumberAssumption == \A n \in {0} \cup Ports \cup Priorities : Text(n) # Absent /\ Atoi(Text(n)) = n

\* What a CR gives is of the type that the schema says, in particular no marker,
\* and the host of a target is one token.
TypedBlock(auth) ==
    /\ auth.SSOEnabled \in BOOLEAN
    /\ \A f \in {"SSORoles", "SSOUsers", "WhitelistUsers"} : IsSequence(auth[f]) /\ auth[f] # Absent
    /\ auth.AutoLoginIDP \in Int /\ auth.AutoLoginIDP # NotANumber
    /\ auth.AutoLoginIDP >= 0 => /\ Text(auth.AutoLoginIDP) # Absent
                                 /\ Atoi(Text(auth.AutoLoginIDP)) = auth.AutoLoginIDP

Typed(e) ==
    /\ e.SSL \in BOOLEAN /\ e.Enabled \in BOOLEAN \cup {Absent}
    /\ {e.Name, e.HostHeader, e.TLSServerName, e.Headers, e.Rules} \cap {Absent, Malformed} = {}
    /\ IsSequence(e.Rules) /\ IsSequence(e.Targets)
    /\ \A i \in DOMAIN e.Targets :
         LET t == e.Targets[i]
         IN IsSequence(t.Hostname) /\ Len(t.Hostname) = 1 /\ t.Path # Absent /\ t.HealthCheck # Malformed
    /\ e.Auth # NoAuth => TypedBlock(e.Auth)

ASSUME ValueAssumption ==
    \A i \in DOMAIN Inputs : \A in \in Inputs[i] : (in.kind = "public" /\ AdmittedPublic(in.spec)) =>
        LET spec == DecodedPublic(in.spec)
        IN Typed(buildResource(spec, resolveAuthSecret(spec, in.secret), SiteID))

Switch(v) == IF v = Absent THEN Absent ELSE IF v THEN "true" ELSE "false"

\* The annotations that ask for what an http entry holds, on a target that the
\* settings give.
AnnotationsOf(e) ==
    LET t == e.Targets[1]
        auth == e.Auth
        sso == auth # NoAuth /\ auth.SSOEnabled
    IN [NoAnnotations EXCEPT
           !.name = e.Name, !.enabled = Switch(e.Enabled), !.ssl = Switch(e.SSL),
           !.hostHeader = e.HostHeader, !.tlsServerName = e.TLSServerName, !.headers = e.Headers,
           !.rules = e.Rules, !.maintenanceEnabled = IF e.Maintenance = Absent THEN Absent ELSE "true",
           !.sso = Switch(sso),
           !.ssoRoles = IF sso THEN auth.SSORoles ELSE Absent,
           !.ssoUsers = IF sso THEN auth.SSOUsers ELSE Absent,
           !.idp = IF sso THEN Text(auth.AutoLoginIDP) ELSE Absent,
           !.whitelistUsers = IF auth = NoAuth THEN Absent ELSE auth.WhitelistUsers,
           !.targetPath = t.Path, !.targetPathMatch = t.PathMatch, !.targetRewriteMatch = t.RewriteMatch,
           !.targetPriority = Text(t.Priority), !.targetInternalPort = Text(t.InternalPort),
           !.targetHealthcheck = t.HealthCheck, !.targetEnabled = Switch(t.Enabled)]

\* The settings that give an HTTPRoute this target; the others have their defaults.
SettingsOf(e) ==
    LET t == e.Targets[1]
    IN [Defaults EXCEPT !.SiteID = t.Site, !.TargetHostname = t.Hostname[1], !.TargetPort = t.Port,
                        !.TargetMethod = t.Method]

NoBlanks(list) == \A i \in DOMAIN list : list[i] \notin {"", " "}

\* What annotations cannot express: an SSO restriction that is switched off or an
\* IdP below zero, a maintenance page that is switched off, a second target, and
\* the blanks that the parsers of the annotations trim.
ExpressibleBlock(auth) ==
    /\ NoBlanks(auth.SSORoles) /\ NoBlanks(auth.SSOUsers) /\ NoBlanks(auth.WhitelistUsers)
    /\ IF auth.SSOEnabled THEN auth.AutoLoginIDP >= 0
       ELSE auth.SSORoles = <<>> /\ auth.SSOUsers = <<>> /\ auth.AutoLoginIDP = 0

Expressible(e) ==
    /\ e.Protocol = "http" /\ e.ProxyPort = 0 /\ e.TLSServerName # <<" ">>
    /\ Len(e.Targets) = 1
    /\ e.Maintenance \in {Absent, [Enabled |-> TRUE]}
    /\ e.Auth # NoAuth => ExpressibleBlock(e.Auth)

\* blueprint.BuildResource and publicresource.buildResource are two
\* implementations of an http entry: what a CR publishes, an HTTPRoute whose
\* annotations ask for it gets too, to the last field. No admitted value is
\* dropped or changed by the parsers of the annotations. This is so where the
\* cluster-wide settings have their defaults: --deny-countries and
\* --auth-whitelist-users add to the entries of routes and Services, and never to
\* that of a CR.
BothPathsAgree ==
    (public /\ Expressible(entry)) =>
        entry = BuildResource(<<"route">>, entry.FullDomain, AnnotationsOf(entry),
                              resolveAuthSecret(DecodedPublic(input.spec), secret), SettingsOf(entry))
===============================================================================
