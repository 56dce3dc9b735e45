---------------------------- MODULE ServiceProofs ----------------------------
(***************************************************************************)
(* What a Service's entries can and cannot be, for every environment,      *)
(* command line, Service, annotations and Secret.                          *)
(***************************************************************************)
EXTENDS Service, FiniteSetTheorems, TLAPS

\* Entries appear when the input is processed, and are what Exposed makes of it.
DoneInv ==
    /\ \E i \in DOMAIN Inputs : input \in Inputs[i]
    /\ entries = IF done THEN Exposed(input) ELSE <<>>

\* Every state is before or after Process.
LEMMA Processed == Spec => []DoneInv
<1>1. Init => DoneInv
  BY DEF Init, DoneInv
<1>2. DoneInv /\ [Next]_vars => DoneInv'
  BY DEF DoneInv, Next, Process, vars
<1> QED
  BY <1>1, <1>2, PTL DEF Spec

\* A Service that has entries is watched and not opted out.
LEMMA EntriesAreBuilt ==
    ASSUME DoneInv, NEW c, c = Load(input.env, input.flags), entries # <<>>
    PROVE  /\ WatchesServices(c) /\ ShouldProcess(annotations, TRUE, c.AutoService)
           /\ entries = buildEntries(svc, annotations, input.secret, c)
BY DEF DoneInv, Exposed, svc, annotations

(***************************************************************************)
(* BuildServiceResource and BuildResource agree on an HTTP entry.          *)
(***************************************************************************)
\* What the target annotations add to a target.
Extras(base, path, pathMatch, rewriteMatch, priority, internalPort, healthCheck, enabled) ==
    [base EXCEPT !.Path = path, !.PathMatch = pathMatch, !.RewriteMatch = rewriteMatch,
                 !.Priority = priority, !.InternalPort = internalPort, !.HealthCheck = healthCheck,
                 !.Enabled = enabled]

\* They add the same to every target.
LEMMA SameExtras ==
    ASSUME NEW a
    PROVE  \E path, pathMatch, rewriteMatch, priority, internalPort, healthCheck, enabled : \A base :
             BuildTargetExtras(base, a) =
               Extras(base, path, pathMatch, rewriteMatch, priority, internalPort, healthCheck, enabled)
<1> DEFINE path == OrDefault(a.targetPath, "")
           pathMatch == OneOf(a.targetPathMatch, {"prefix", "exact", "regex"})
           rewriteMatch == OneOf(a.targetRewriteMatch, {"exact", "prefix", "regex", "stripPrefix"})
           priority == InRange(a.targetPriority, 1 .. MaxPriority)
           internalPort == InRange(a.targetInternalPort, 1 .. MaxPort)
           healthCheck == UnmarshalHealthCheck(a.targetHealthcheck)
           enabled == IF a.targetEnabled \in {Absent, " "} THEN Absent ELSE isTruthy(a.targetEnabled)
<1>1. ASSUME NEW base
      PROVE  BuildTargetExtras(base, a) =
               Extras(base, path, pathMatch, rewriteMatch, priority, internalPort, healthCheck, enabled)
  BY DEF BuildTargetExtras, Extras
<1> HIDE DEF path, pathMatch, rewriteMatch, priority, internalPort, healthCheck, enabled
<1> WITNESS path, pathMatch, rewriteMatch, priority, internalPort, healthCheck, enabled
<1> QED
  BY <1>1

\* A target without what names the backend.
Unnamed(t) == [t EXCEPT !.Hostname = <<>>, !.Method = "", !.Port = 0]

\* A target that names the backend, and one with all fields set.
Backend(site, hostname, method, port) ==
    [ZeroTarget EXCEPT !.Site = site, !.Hostname = hostname, !.Method = method, !.Port = port]

FullTarget(site, hostname, enabled, method, port, path, pathMatch, rewriteMatch, priority, internalPort,
           healthCheck) ==
    [Site |-> site, Hostname |-> hostname, Enabled |-> enabled, Method |-> method, Port |-> port,
     Path |-> path, PathMatch |-> pathMatch, RewriteMatch |-> rewriteMatch, Priority |-> priority,
     InternalPort |-> internalPort, HealthCheck |-> healthCheck]

\* The fields that the annotations set.
LEMMA ExtrasFields ==
    ASSUME NEW path, NEW pathMatch, NEW rewriteMatch, NEW priority, NEW internalPort, NEW healthCheck,
           NEW enabled, NEW x,
           x = Extras(ZeroTarget, path, pathMatch, rewriteMatch, priority, internalPort, healthCheck, enabled)
    PROVE  /\ x.Enabled = enabled /\ x.Path = path /\ x.PathMatch = pathMatch
           /\ x.RewriteMatch = rewriteMatch /\ x.Priority = priority
           /\ x.InternalPort = internalPort /\ x.HealthCheck = healthCheck
BY DEF Extras, ZeroTarget

TargetFields ==
    {"Site", "Hostname", "Port", "Method", "Enabled", "InternalPort", "Path", "PathMatch", "RewriteMatch",
     "Priority", "HealthCheck"}

IsTarget(t) == t = [f \in TargetFields |-> t[f]]

LEMMA ZeroTargetFields == IsTarget(ZeroTarget)
<1>1. PICK zero : zero = ""
  BY Zenon
<1>2. PICK z : z = [Site |-> zero, Hostname |-> <<>>, Enabled |-> Absent, Method |-> zero, Port |-> 0,
                    InternalPort |-> 0, Path |-> zero, PathMatch |-> zero, RewriteMatch |-> zero,
                    Priority |-> 0, HealthCheck |-> Absent]
  OBVIOUS
<1>3. IsTarget(z)
  BY <1>2 DEF TargetFields, IsTarget
<1>4. ZeroTarget = z
  BY <1>1, <1>2, Zenon DEF ZeroTarget
<1> QED
  BY <1>3, <1>4

\* A target without its backend is given by the fields that are left.
LEMMA UnnamedFields ==
    ASSUME NEW t, IsTarget(t)
    PROVE  Unnamed(t) = FullTarget(t.Site, <<>>, t.Enabled, "", 0, t.Path, t.PathMatch, t.RewriteMatch,
                                   t.Priority, t.InternalPort, t.HealthCheck)
<1>1. PICK none : none = ""
  BY Zenon
<1>2. PICK u : u = [t EXCEPT !.Hostname = <<>>, !.Method = none, !.Port = 0]
  OBVIOUS
<1>3. DOMAIN t = TargetFields
  BY DEF IsTarget
<1>4. u = [f \in TargetFields |-> u[f]]
  BY <1>2 DEF IsTarget
<1>5. /\ u.Site = t.Site /\ u.Hostname = <<>> /\ u.Enabled = t.Enabled /\ u.Method = none /\ u.Port = 0
      /\ u.Path = t.Path /\ u.PathMatch = t.PathMatch /\ u.RewriteMatch = t.RewriteMatch
      /\ u.Priority = t.Priority /\ u.InternalPort = t.InternalPort /\ u.HealthCheck = t.HealthCheck
  BY <1>2, <1>3 DEF TargetFields
<1>6. u = FullTarget(t.Site, <<>>, t.Enabled, none, 0, t.Path, t.PathMatch, t.RewriteMatch,
                     t.Priority, t.InternalPort, t.HealthCheck)
  BY <1>4, <1>5 DEF FullTarget, TargetFields
<1>7. Unnamed(t) = u
  BY <1>1, <1>2, Zenon DEF Unnamed
<1> QED
  BY <1>1, <1>6, <1>7, Zenon

\* A target that is filled field by field is one that names the backend and then
\* takes what the annotations set, but for the backend.
LEMMA FilledLikewise ==
    ASSUME NEW site, NEW h1, NEW m1, NEW p1, NEW h2, NEW m2, NEW p2, NEW path, NEW pathMatch,
           NEW rewriteMatch, NEW priority, NEW internalPort, NEW healthCheck, NEW enabled
    PROVE  Unnamed(FullTarget(site, h1, enabled, m1, p1, path, pathMatch, rewriteMatch, priority,
                              internalPort, healthCheck)) =
           Unnamed(Extras(Backend(site, h2, m2, p2), path, pathMatch, rewriteMatch, priority, internalPort,
                          healthCheck, enabled))
<1>1. PICK t : t = FullTarget(site, h1, enabled, m1, p1, path, pathMatch, rewriteMatch, priority,
                              internalPort, healthCheck)
  OBVIOUS
<1>2. /\ IsTarget(t) /\ t.Site = site /\ t.Enabled = enabled /\ t.Path = path /\ t.PathMatch = pathMatch
      /\ t.RewriteMatch = rewriteMatch /\ t.Priority = priority /\ t.InternalPort = internalPort
      /\ t.HealthCheck = healthCheck
  BY <1>1 DEF FullTarget, IsTarget, TargetFields
<1>3. PICK z : z = ZeroTarget
  OBVIOUS
<1>4. PICK y : y = [z EXCEPT !.Site = site, !.Hostname = h2, !.Method = m2, !.Port = p2]
  OBVIOUS
<1>5. PICK x : x = Extras(y, path, pathMatch, rewriteMatch, priority, internalPort, healthCheck, enabled)
  OBVIOUS
<1>6. IsTarget(y) /\ y.Site = site
  <2>1. z = [f \in TargetFields |-> z[f]] /\ DOMAIN z = TargetFields
    BY <1>3, ZeroTargetFields DEF IsTarget
  <2> QED
    BY <1>4, <2>1 DEF IsTarget, TargetFields
<1>7. /\ IsTarget(x) /\ x.Site = site /\ x.Enabled = enabled /\ x.Path = path /\ x.PathMatch = pathMatch
      /\ x.RewriteMatch = rewriteMatch /\ x.Priority = priority /\ x.InternalPort = internalPort
      /\ x.HealthCheck = healthCheck
  <2>1. y = [f \in TargetFields |-> y[f]] /\ DOMAIN y = TargetFields
    BY <1>6 DEF IsTarget
  <2>2. IsTarget(x)
    BY <1>5, <2>1 DEF Extras, IsTarget
  <2> QED
    BY <1>5, <1>6, <2>1, <2>2 DEF Extras, TargetFields
<1>8. Unnamed(t) = Unnamed(x)
  BY <1>2, <1>7, UnnamedFields, Zenon
<1>9. y = Backend(site, h2, m2, p2)
  BY <1>3, <1>4, Zenon DEF Backend
<1> QED
  BY <1>1, <1>5, <1>8, <1>9, Zenon

\* A ServicePort with the extras of a target.
Carries(sp, x) ==
    /\ sp.TargetEnabled = x.Enabled /\ sp.TargetPath = x.Path /\ sp.TargetPathMatch = x.PathMatch
    /\ sp.TargetRewriteMatch = x.RewriteMatch /\ sp.TargetPriority = x.Priority
    /\ sp.TargetInternalPort = x.InternalPort /\ sp.TargetHealthCheck = x.HealthCheck

\* The two targets differ in what names the backend only.
LEMMA TargetsAgree ==
    ASSUME NEW a, NEW sp, NEW c, NEW h, NEW m, NEW p, Carries(sp, BuildTargetExtras(ZeroTarget, a))
    PROVE  Unnamed(HTTPTarget(sp, c)) = Unnamed(BuildTargetExtras(Backend(c.SiteID, h, m, p), a))
<1>1. PICK path, pathMatch, rewriteMatch, priority, internalPort, healthCheck, enabled :
        \A base : BuildTargetExtras(base, a) =
          Extras(base, path, pathMatch, rewriteMatch, priority, internalPort, healthCheck, enabled)
  BY SameExtras, Zenon
<1>2. /\ sp.TargetEnabled = enabled /\ sp.TargetPath = path /\ sp.TargetPathMatch = pathMatch
      /\ sp.TargetRewriteMatch = rewriteMatch /\ sp.TargetPriority = priority
      /\ sp.TargetInternalPort = internalPort /\ sp.TargetHealthCheck = healthCheck
  <2>1. Carries(sp, Extras(ZeroTarget, path, pathMatch, rewriteMatch, priority, internalPort, healthCheck,
                           enabled))
    BY <1>1, Zenon
  <2>2. PICK x : x = Extras(ZeroTarget, path, pathMatch, rewriteMatch, priority, internalPort, healthCheck,
                            enabled)
    OBVIOUS
  <2>3. /\ x.Enabled = enabled /\ x.Path = path /\ x.PathMatch = pathMatch
        /\ x.RewriteMatch = rewriteMatch /\ x.Priority = priority
        /\ x.InternalPort = internalPort /\ x.HealthCheck = healthCheck
    BY <2>2, ExtrasFields
  <2>4. Carries(sp, x)
    BY <2>1, <2>2, Zenon
  <2> QED
    BY <2>3, <2>4 DEF Carries
<1>3. HTTPTarget(sp, c) =
        FullTarget(c.SiteID, sp.TargetHostname, enabled, sp.Method, sp.TargetPort, path, pathMatch,
                   rewriteMatch, priority, internalPort, healthCheck)
  BY <1>2, Zenon DEF HTTPTarget, FullTarget
<1>4. BuildTargetExtras(Backend(c.SiteID, h, m, p), a) =
        Extras(Backend(c.SiteID, h, m, p), path, pathMatch, rewriteMatch, priority, internalPort,
               healthCheck, enabled)
  BY <1>1, Zenon
<1>5. Unnamed(FullTarget(c.SiteID, sp.TargetHostname, enabled, sp.Method, sp.TargetPort, path, pathMatch,
                         rewriteMatch, priority, internalPort, healthCheck)) =
      Unnamed(Extras(Backend(c.SiteID, h, m, p), path, pathMatch, rewriteMatch, priority, internalPort,
                     healthCheck, enabled))
  BY FilledLikewise
<1> QED
  BY <1>3, <1>4, <1>5

(***************************************************************************)
(* The resource.                                                           *)
(***************************************************************************)
\* An HTTP entry from the values of its fields.
Filled(name, enabled, ssl, domain, hostHeader, tls, headers, auth, maintenance, rules, target) ==
    [ZeroResource EXCEPT
        !.Name = name, !.Protocol = "http", !.Enabled = enabled, !.SSL = ssl, !.FullDomain = domain,
        !.HostHeader = hostHeader, !.TLSServerName = tls, !.Headers = headers, !.Auth = auth,
        !.Maintenance = maintenance, !.Rules = rules, !.Targets = <<target>>]

\* What ServedLikeARoute compares.
Common(e) == [e EXCEPT !.Name = <<>>, !.Enabled = Absent,
                       !.Targets = <<[@[1] EXCEPT !.Hostname = <<>>, !.Method = "", !.Port = 0]>>]

LEMMA CommonOfFilled ==
    ASSUME NEW name, NEW enabled, NEW ssl, NEW domain, NEW hostHeader, NEW tls, NEW headers,
           NEW auth, NEW maintenance, NEW rules, NEW target
    PROVE  Common(Filled(name, enabled, ssl, domain, hostHeader, tls, headers, auth, maintenance, rules, target)) =
             Filled(<<>>, Absent, ssl, domain, hostHeader, tls, headers, auth, maintenance, rules, Unnamed(target))
<1>1. PICK e : e = Filled(name, enabled, ssl, domain, hostHeader, tls, headers, auth, maintenance, rules, target)
  OBVIOUS
<1>2. e.Targets = <<target>> /\ e.Targets[1] = target
  BY <1>1 DEF Filled, ZeroResource
<1>3. Common(e) = [e EXCEPT !.Name = <<>>, !.Enabled = Absent, !.Targets = <<Unnamed(e.Targets[1])>>]
  BY DEF Common, Unnamed
<1>4. Common(e) = [e EXCEPT !.Name = <<>>, !.Enabled = Absent, !.Targets = <<Unnamed(target)>>]
  BY <1>2, <1>3
<1>5. [e EXCEPT !.Name = <<>>, !.Enabled = Absent, !.Targets = <<Unnamed(target)>>] =
        Filled(<<>>, Absent, ssl, domain, hostHeader, tls, headers, auth, maintenance, rules, Unnamed(target))
  BY <1>1, ZenonT(60) DEF Filled, ZeroResource
<1> QED
  BY <1>1, <1>4, <1>5

TLSName(a) == IF Trimmed(a.tlsServerName) = <<>> THEN FullDomain(a) ELSE a.tlsServerName

\* The entry that annotations ask for, but for its name, its switch and its target.
HTTPEntry(a, s, c, name, enabled, target) ==
    Filled(name, enabled, SSL(a, c), FullDomain(a), OrDefault(a.hostHeader, ""), TLSName(a),
           BuildHeaders(a), BuildAuth(a, s, c), BuildMaintenance(a), BuildRules(a, c), target)

LEMMA CommonOfHTTPEntry ==
    ASSUME NEW a, NEW s, NEW c, NEW name, NEW enabled, NEW target
    PROVE  Common(HTTPEntry(a, s, c, name, enabled, target)) =
             HTTPEntry(a, s, c, <<>>, Absent, Unnamed(target))
<1>1. PICK ssl, domain, hostHeader, tls, headers, auth, maintenance, rules :
        /\ ssl = SSL(a, c) /\ domain = FullDomain(a) /\ hostHeader = OrDefault(a.hostHeader, "")
        /\ tls = TLSName(a) /\ headers = BuildHeaders(a) /\ auth = BuildAuth(a, s, c)
        /\ maintenance = BuildMaintenance(a) /\ rules = BuildRules(a, c)
  OBVIOUS
<1>2. \A n, e, t : HTTPEntry(a, s, c, n, e, t) =
        Filled(n, e, ssl, domain, hostHeader, tls, headers, auth, maintenance, rules, t)
  BY <1>1, Zenon DEF HTTPEntry
<1> QED
  BY <1>2, CommonOfFilled

GatewayTarget(a, c) ==
    BuildTargetExtras(Backend(c.SiteID, <<c.TargetHostname>>, c.TargetMethod, c.TargetPort), a)

\* The entry that an HTTPRoute of the domain gets.
LEMMA RouteIsFilled ==
    ASSUME NEW a, NEW s, NEW c
    PROVE  \E name, enabled : BuildResource(<<>>, FullDomain(a), a, s, c) =
                              HTTPEntry(a, s, c, name, enabled, GatewayTarget(a, c))
<1> DEFINE name == IF a.name \in {Absent, <<>>} THEN <<>> ELSE a.name
           enabled == IF a.enabled = Absent THEN Absent ELSE isTruthy(a.enabled)
<1>1. BuildResource(<<>>, FullDomain(a), a, s, c) = HTTPEntry(a, s, c, name, enabled, GatewayTarget(a, c))
  BY DEF BuildResource, HTTPEntry, Filled, Backend, GatewayTarget, TLSName
<1> HIDE DEF name, enabled
<1> QED
  BY <1>1, Zenon

\* A ServicePort in HTTP mode.
HTTPPort(sp, a, secret, c) ==
    /\ sp.FullDomain = FullDomain(a) /\ sp.TLSServerName = Trimmed(a.tlsServerName)
    /\ sp.SSL = SSL(a, c) /\ sp.HostHeader = OrDefault(a.hostHeader, "")
    /\ sp.Headers = BuildHeaders(a) /\ sp.Maintenance = BuildMaintenance(a)
    /\ sp.Rules = BuildRules(a, c) /\ sp.Auth = BuildAuth(a, secret, c)
    /\ Carries(sp, BuildTargetExtras(ZeroTarget, a))

\* What resolvePort returns if there is a domain.
WithDomain(s, p, a, secret, c, name, method, x) ==
    [PlainPort(s, p) EXCEPT !.Name = name, !.FullDomain = FullDomain(a),
                            !.TLSServerName = Trimmed(a.tlsServerName), !.Method = method,
                            !.SSL = SSL(a, c), !.HostHeader = OrDefault(a.hostHeader, ""),
                            !.Headers = BuildHeaders(a), !.Maintenance = BuildMaintenance(a),
                            !.Rules = BuildRules(a, c), !.Auth = BuildAuth(a, secret, c),
                            !.TargetEnabled = x.Enabled, !.TargetPath = x.Path,
                            !.TargetPathMatch = x.PathMatch, !.TargetRewriteMatch = x.RewriteMatch,
                            !.TargetPriority = x.Priority, !.TargetInternalPort = x.InternalPort,
                            !.TargetHealthCheck = x.HealthCheck]

LEMMA ResolvedWithDomain ==
    ASSUME NEW s, NEW p, NEW a, NEW secret, NEW c, FullDomain(a) # <<>>
    PROVE  \E name, method : resolvePort(s, p, a, secret, c) =
             WithDomain(s, p, a, secret, c, name, method, BuildTargetExtras(ZeroTarget, a))
<1> DEFINE name == IF a.name \in {Absent, <<>>} THEN PlainPort(s, p).Name ELSE a.name
           lower == ToLower(TrimSpace(a.method))
           method == IF lower \in {"https", "h2c"} THEN lower ELSE "http"
<1>1. resolvePort(s, p, a, secret, c) =
        WithDomain(s, p, a, secret, c, name, method, BuildTargetExtras(ZeroTarget, a))
  BY DEF resolvePort, WithDomain
<1> HIDE DEF name, method
<1> QED
  BY <1>1, Zenon

\* That is a ServicePort in HTTP mode.
LEMMA ResolvedPort ==
    ASSUME NEW s, NEW p, NEW a, NEW secret, NEW c, FullDomain(a) # <<>>
    PROVE  HTTPPort(resolvePort(s, p, a, secret, c), a, secret, c)
<1>1. PICK name, method, x, sp :
        /\ x = BuildTargetExtras(ZeroTarget, a)
        /\ sp = resolvePort(s, p, a, secret, c)
        /\ sp = WithDomain(s, p, a, secret, c, name, method, x)
  BY ResolvedWithDomain, Zenon
<1>2. HTTPPort(sp, a, secret, c) <=>
        /\ sp.FullDomain = FullDomain(a) /\ sp.TLSServerName = Trimmed(a.tlsServerName)
        /\ sp.SSL = SSL(a, c) /\ sp.HostHeader = OrDefault(a.hostHeader, "")
        /\ sp.Headers = BuildHeaders(a) /\ sp.Maintenance = BuildMaintenance(a)
        /\ sp.Rules = BuildRules(a, c) /\ sp.Auth = BuildAuth(a, secret, c)
        /\ Carries(sp, x)
  BY <1>1, Zenon DEF HTTPPort
<1>3. Carries(sp, x)
  BY <1>1 DEF WithDomain, PlainPort, Carries
<1> QED
  BY <1>1, <1>2, <1>3 DEF WithDomain, PlainPort

\* A Service's entry has no switch.
WithoutSwitch(name, ssl, domain, hostHeader, tls, headers, auth, maintenance, rules, target) ==
    [ZeroResource EXCEPT
        !.Name = name, !.Protocol = "http", !.SSL = ssl, !.FullDomain = domain,
        !.HostHeader = hostHeader, !.TLSServerName = tls, !.Headers = headers, !.Auth = auth,
        !.Maintenance = maintenance, !.Rules = rules, !.Targets = <<target>>]

LEMMA NoSwitch ==
    ASSUME NEW name, NEW ssl, NEW domain, NEW hostHeader, NEW tls, NEW headers,
           NEW auth, NEW maintenance, NEW rules, NEW target
    PROVE  WithoutSwitch(name, ssl, domain, hostHeader, tls, headers, auth, maintenance, rules, target) =
             Filled(name, Absent, ssl, domain, hostHeader, tls, headers, auth, maintenance, rules, target)
<1>1. PICK w : w = WithoutSwitch(name, ssl, domain, hostHeader, tls, headers, auth, maintenance, rules, target)
  OBVIOUS
<1>2. w.Enabled = Absent /\ w = [f \in DOMAIN w |-> w[f]]
  <2>1. ZeroResource.Enabled = Absent /\ "Enabled" \in DOMAIN ZeroResource
    BY DEF ZeroResource
  <2> QED
    BY <1>1, <2>1 DEF WithoutSwitch
<1>3. Filled(name, Absent, ssl, domain, hostHeader, tls, headers, auth, maintenance, rules, target) =
        [w EXCEPT !.Enabled = Absent]
  BY <1>1 DEF WithoutSwitch, Filled
<1>4. [w EXCEPT !.Enabled = Absent] = w
  BY <1>2
<1> QED
  BY <1>1, <1>3, <1>4, Zenon

\* The entry that a Service gets.
LEMMA ServiceIsFilled ==
    ASSUME NEW sp, NEW c, sp.FullDomain # <<>>
    PROVE  BuildServiceResource(sp, c) =
             Filled(sp.Name, Absent, sp.SSL, sp.FullDomain, sp.HostHeader, ServiceTLSName(sp), sp.Headers,
                    sp.Auth, sp.Maintenance, sp.Rules,
                    HTTPTarget(sp, c))
<1>1. BuildServiceResource(sp, c) =
        WithoutSwitch(sp.Name, sp.SSL, sp.FullDomain, sp.HostHeader, ServiceTLSName(sp), sp.Headers,
                      sp.Auth, sp.Maintenance, sp.Rules,
                      HTTPTarget(sp, c))
  BY DEF BuildServiceResource, WithoutSwitch
<1> QED
  BY <1>1, NoSwitch

\* The two builders agree.
LEMMA EntriesAgree ==
    ASSUME NEW s, NEW p, NEW a, NEW secret, NEW c, NEW sp,
           sp = resolvePort(s, p, a, secret, c), FullDomain(a) # <<>>
    PROVE  Common(BuildServiceResource(sp, c)) = Common(BuildResource(<<>>, FullDomain(a), a, secret, c))
<1>1. /\ sp.FullDomain = FullDomain(a) /\ sp.TLSServerName = Trimmed(a.tlsServerName)
      /\ sp.SSL = SSL(a, c) /\ sp.HostHeader = OrDefault(a.hostHeader, "")
      /\ sp.Headers = BuildHeaders(a) /\ sp.Maintenance = BuildMaintenance(a)
      /\ sp.Rules = BuildRules(a, c) /\ sp.Auth = BuildAuth(a, secret, c)
      /\ Carries(sp, BuildTargetExtras(ZeroTarget, a))
  <2>1. HTTPPort(sp, a, secret, c)
    BY ResolvedPort
  <2> QED
    BY <2>1, Zenon DEF HTTPPort
<1>2. ServiceTLSName(sp) = TLSName(a)
  BY <1>1 DEF ServiceTLSName, TLSName, Trimmed
<1>3. PICK t1 : t1 = HTTPTarget(sp, c)
  OBVIOUS
<1>4. BuildServiceResource(sp, c) = HTTPEntry(a, secret, c, sp.Name, Absent, t1)
  <2>1. BuildServiceResource(sp, c) =
          Filled(sp.Name, Absent, sp.SSL, sp.FullDomain, sp.HostHeader, ServiceTLSName(sp), sp.Headers,
                 sp.Auth, sp.Maintenance, sp.Rules,
                 HTTPTarget(sp, c))
    BY <1>1, ServiceIsFilled
  <2> QED
    BY <1>1, <1>2, <1>3, <2>1 DEF HTTPEntry
<1>5. PICK name, enabled : BuildResource(<<>>, FullDomain(a), a, secret, c) =
                           HTTPEntry(a, secret, c, name, enabled, GatewayTarget(a, c))
  BY RouteIsFilled
<1>6. Unnamed(t1) = Unnamed(GatewayTarget(a, c))
  <2>1. Carries(sp, BuildTargetExtras(ZeroTarget, a))
    BY <1>1
  <2>2. Unnamed(HTTPTarget(sp, c)) = Unnamed(GatewayTarget(a, c))
    BY <2>1, TargetsAgree DEF GatewayTarget
  <2> QED
    BY <1>3, <2>2
<1>7. Common(BuildServiceResource(sp, c)) = HTTPEntry(a, secret, c, <<>>, Absent, Unnamed(t1))
  BY <1>4, CommonOfHTTPEntry
<1>8. Common(BuildResource(<<>>, FullDomain(a), a, secret, c)) =
        HTTPEntry(a, secret, c, <<>>, Absent, Unnamed(GatewayTarget(a, c)))
  BY <1>5, CommonOfHTTPEntry
<1> QED
  BY <1>6, <1>7, <1>8

\* A Service in HTTP mode is published as an HTTPRoute of its domain with the same
\* annotations would be, but for what names the backend and the switch.
THEOREM ServiceIsServedLikeARoute == Spec => []ServedLikeARoute
<1>1. ASSUME DoneInv, FullDomain(annotations) # <<>>, NEW k \in DOMAIN entries
      PROVE  /\ k = HostnameToKey(FullDomain(annotations))
             /\ Common(entries[k]) =
                  Common(BuildResource(<<>>, FullDomain(annotations), annotations, input.secret,
                                       Load(input.env, input.flags)))
  <2>1. PICK c, a, secret : c = Load(input.env, input.flags) /\ a = annotations /\ secret = input.secret
    OBVIOUS
  <2>2. FullDomain(a) # <<>>
    BY <1>1, <2>1
  <2>3. entries = buildSinglePortEntry(svc, a, secret, c)
    <3>1. entries # <<>>
      OBVIOUS
    <3>2. entries = buildEntries(svc, a, secret, c)
      BY <1>1, <2>1, <3>1, EntriesAreBuilt
    <3> QED
      BY <2>2, <3>2 DEF buildEntries
  <2>4. PICK sp : sp = resolvePort(svc, selectPort(svc, a), a, secret, c)
    OBVIOUS
  <2>5. sp.FullDomain = FullDomain(a)
    <3>1. HTTPPort(sp, a, secret, c)
      BY <2>2, <2>4, ResolvedPort
    <3> QED
      BY <3>1, Zenon DEF HTTPPort
  <2>6. k = HostnameToKey(FullDomain(a)) /\ entries[k] = BuildServiceResource(sp, c)
    <3>1. selectPort(svc, a) # NoPort
      BY <2>3 DEF buildSinglePortEntry
    <3>2. entries = [key \in {HostnameToKey(FullDomain(a))} |-> BuildServiceResource(sp, c)]
      BY <2>2, <2>3, <2>4, <2>5, <3>1 DEF buildSinglePortEntry
    <3> QED
      BY <3>2
  <2>7. Common(BuildServiceResource(sp, c)) = Common(BuildResource(<<>>, FullDomain(a), a, secret, c))
    BY <2>2, <2>4, EntriesAgree
  <2> QED
    BY <2>1, <2>6, <2>7
<1>2. DoneInv => ServedLikeARoute
  BY <1>1 DEF ServedLikeARoute, Common
<1> QED
  BY <1>2, Processed, PTL

(***************************************************************************)
(* Positions: the first and the last one that pass a test.                 *)
(***************************************************************************)
\* A set of numbers that is not empty has a least one.
LEMMA LeastNumber ==
    ASSUME NEW S \in SUBSET Nat, S # {}
    PROVE  \E x \in S : \A y \in S : x <= y
<1> DEFINE Less == {p \in Nat \X Nat : p[1] < p[2]}
<1>1. IsWellFoundedOn(Less, Nat)
  BY NatLessThanWellFounded DEF OpToRel
<1>2. PICK x \in S : \A y \in S : <<y, x>> \notin Less
  BY <1>1, WFMin
<1>3. ASSUME NEW y \in S PROVE x <= y
  <2>1. <<y, x>> \in Nat \X Nat /\ <<y, x>>[1] = y /\ <<y, x>>[2] = x
    OBVIOUS
  <2>2. ~(y < x)
    BY <1>2, <2>1
  <2> QED
    BY <2>2
<1> QED
  BY <1>3

\* A set of positions that is not empty has a last one, which Max gives.
LEMMA GreatestIndex ==
    ASSUME NEW n \in Nat, NEW I \in SUBSET (1 .. n), I # {}
    PROVE  Max(I) \in I /\ \A i \in I : i <= Max(I)
<1> DEFINE S == {m \in 0 .. n : n - m \in I}
<1>1. S \in SUBSET Nat /\ S # {}
  <2>1. PICK i : i \in I
    OBVIOUS
  <2>2. n - i \in S
    BY <2>1
  <2> QED
    BY <2>2
<1>2. PICK m \in S : \A y \in S : m <= y
  BY <1>1, LeastNumber
<1>3. n - m \in I
  BY <1>2
<1>4. ASSUME NEW i \in I PROVE i <= n - m
  <2>1. n - i \in S
    OBVIOUS
  <2> QED
    BY <1>2, <2>1
<1> QED
  BY <1>3, <1>4 DEF Max

(***************************************************************************)
(* Which Services and ports are exposed.                                   *)
(***************************************************************************)
Truths == {"1", "t", "T", "true", "TRUE", "True"}
Falsehoods == {"0", "f", "F", "false", "FALSE", "False"}

\* A text that parses is on or off.
LEMMA ParsedSwitch ==
    ASSUME NEW text, ParseBool(text) # Malformed
    PROVE  (text \in Truths /\ ParseBool(text) = TRUE) \/ (text \notin Truths /\ ParseBool(text) = FALSE)
<1>1. text \notin Truths \cup Falsehoods => ParseBool(text) = Malformed
  BY DEF ParseBool, Truths, Falsehoods
<1>2. text \in Truths => ParseBool(text) = TRUE
  BY DEF ParseBool, Truths
<1>3. text \in Falsehoods => text \notin Truths
  BY DEF Truths, Falsehoods
<1>4. text \in Falsehoods => ParseBool(text) = FALSE
  BY <1>3 DEF ParseBool, Truths, Falsehoods
<1> QED
  BY <1>1, <1>2, <1>3, <1>4, Zenon

\* The switches are off by default.
LEMMA SwitchesAreOff ==
    ASSUME NEW s \in {"EnableService", "AutoService", "AllPorts"}
    PROVE  s \in Settings /\ s \in BoolSettings /\ Defaults[s] = FALSE
<1>1. s \in Settings /\ s \in BoolSettings
  BY DEF Settings, BoolSettings, Defaults
<1>2. /\ Defaults["EnableService"] = FALSE /\ Defaults["AutoService"] = FALSE
      /\ Defaults["AllPorts"] = FALSE
  BY Zenon DEF Defaults
<1> QED
  BY <1>1, <1>2, Zenon

\* A switch of the settings is on exactly if the operator switched it on.
LEMMA LoadedSwitch ==
    ASSUME NEW s \in {"EnableService", "AutoService", "AllPorts"}, NEW c,
           c = Load(input.env, input.flags), c # NoConfig
    PROVE  c[s] <=> On(s)
<1>1. s \in Settings /\ s \in BoolSettings /\ Defaults[s] = FALSE
  BY SwitchesAreOff
<1>2. PICK v, f, e : v = c[s] /\ f = input.flags[s] /\ e = input.env[s]
  OBVIOUS
<1>3. v = IF f # Absent THEN ParseBool(f) ELSE IF e # Absent THEN ParseBool(e) ELSE FALSE
  BY <1>1, <1>2 DEF Load, Override, newConfig, Parse
<1>4. (f # Absent => ParseBool(f) # Malformed) /\ (e # Absent => ParseBool(e) # Malformed)
  BY <1>1, <1>2 DEF Load, AllParse, Parse
<1>5. (OrDefault(f, e) \in Truths /\ v = TRUE) \/ (OrDefault(f, e) \notin Truths /\ v = FALSE)
  <2>1. CASE f # Absent
    <3>1. OrDefault(f, e) = f /\ v = ParseBool(f) /\ ParseBool(f) # Malformed
      BY <1>3, <1>4, <2>1 DEF OrDefault
    <3> QED
      BY <3>1, ParsedSwitch, Zenon
  <2>2. CASE f = Absent /\ e # Absent
    <3>1. OrDefault(f, e) = e /\ v = ParseBool(e) /\ ParseBool(e) # Malformed
      BY <1>3, <1>4, <2>2 DEF OrDefault
    <3> QED
      BY <3>1, ParsedSwitch, Zenon
  <2>3. CASE f = Absent /\ e = Absent
    <3>1. OrDefault(f, e) = Absent /\ v = FALSE
      BY <1>3, <2>3 DEF OrDefault
    <3>2. Absent \notin Truths
      BY AbsentIsNoText DEF Truths
    <3> QED
      BY <3>1, <3>2, Zenon
  <2> QED
    BY <2>1, <2>2, <2>3, Zenon
<1>6. On(s) <=> OrDefault(f, e) \in Truths
  BY <1>2, Zenon DEF On, Truths
<1> QED
  BY <1>2, <1>5, <1>6, Zenon

\* The loop over the ports stops at one that is wanted.
LEMMA FirstPortIsWanted ==
    ASSUME NEW ports, IsSequence(ports), NEW wanted, FirstPort(ports, wanted) # NoPort
    PROVE  \E i \in DOMAIN ports : /\ FirstPort(ports, wanted) = ports[i]
                                   /\ wanted \in {ToString(ports[i].port), ports[i].name}
<1> DEFINE I == {i \in 1 .. Len(ports) : wanted \in {ToString(ports[i].port), ports[i].name}}
<1>1. Len(ports) \in Nat /\ DOMAIN ports = 1 .. Len(ports)
  BY DEF IsSequence
<1>2. FirstPort(ports, wanted) = LET first == IF I # {} THEN Min(I) ELSE 0
                                 IN IF first = 0 THEN NoPort ELSE ports[first]
  BY DEF FirstPort, SelectInSeq
<1>3. I \in SUBSET Nat
  BY <1>1
<1> HIDE DEF I
<1>4. I # {}
  BY <1>2
<1>5. Min(I) \in I
  BY <1>3, <1>4, LeastNumber DEF Min
<1>6. Min(I) \in 1 .. Len(ports) /\ wanted \in {ToString(ports[Min(I)].port), ports[Min(I)].name}
  BY <1>5 DEF I
<1>7. FirstPort(ports, wanted) = ports[Min(I)]
  BY <1>1, <1>2, <1>4, <1>6
<1> QED
  BY <1>1, <1>6, <1>7

\* A selected port is one of the Service's, and the one that is named if one is.
LEMMA SelectedPort ==
    ASSUME NEW s, IsSequence(s.ports), NEW a, selectPort(s, a) # NoPort
    PROVE  \E i \in DOMAIN s.ports :
             /\ selectPort(s, a) = s.ports[i]
             /\ a.port # Absent => TrimSpace(a.port) \in {s.ports[i].name, ToString(s.ports[i].port)}
<1>1. CASE a.port # Absent
  <2>1. selectPort(s, a) = FirstPort(s.ports, TrimSpace(a.port))
    BY <1>1 DEF selectPort
  <2> QED
    BY <2>1, FirstPortIsWanted
<1>2. CASE a.port = Absent /\ Len(s.ports) = 1
  <2>1. selectPort(s, a) = s.ports[1]
    BY <1>2 DEF selectPort
  <2>2. 1 \in DOMAIN s.ports
    BY <1>2 DEF IsSequence
  <2> QED
    BY <1>2, <2>1, <2>2
<1>3. CASE a.port = Absent /\ Len(s.ports) # 1
  <2>1. selectPort(s, a) = FirstPort(s.ports, "http")
    BY <1>3 DEF selectPort
  <2> QED
    BY <1>3, <2>1, FirstPortIsWanted
<1> QED
  BY <1>1, <1>2, <1>3

\* What resolvePort takes from the port.
LEMMA ResolvedNumbers ==
    ASSUME NEW s, NEW p, NEW a, NEW secret, NEW c, NEW sp, sp = resolvePort(s, p, a, secret, c)
    PROVE  /\ sp.TargetPort = p.port
           /\ FullDomain(a) = <<>> => sp.FullDomain = <<>> /\ sp.ProxyPort = p.port
<1>1. CASE FullDomain(a) = <<>>
  <2>1. PICK name, protocol : sp = [PlainPort(s, p) EXCEPT !.Name = name, !.Protocol = protocol, !.ProxyPort = p.port]
    BY <1>1 DEF resolvePort
  <2> QED
    BY <2>1 DEF PlainPort, ZeroTarget
<1>2. CASE FullDomain(a) # <<>>
  <2>1. PICK name, method, x : sp = WithDomain(s, p, a, secret, c, name, method, x)
    BY <1>2, ResolvedWithDomain, Zenon
  <2> QED
    BY <1>2, <2>1 DEF WithDomain, PlainPort
<1> QED
  BY <1>1, <1>2

\* What the entry takes from the ServicePort.
LEMMA EntryNumbers ==
    ASSUME NEW sp, NEW c
    PROVE  /\ BuildServiceResource(sp, c).Targets[1].Port = sp.TargetPort
           /\ sp.FullDomain = <<>> => /\ BuildServiceResource(sp, c).ProxyPort = sp.ProxyPort
                                      /\ BuildServiceResource(sp, c).Protocol = sp.Protocol
<1>1. CASE sp.FullDomain = <<>>
  <2>1. PICK target : target = [ZeroTarget EXCEPT !.Site = c.SiteID, !.Hostname = sp.TargetHostname,
                                                  !.Port = sp.TargetPort]
    OBVIOUS
  <2>2. target.Port = sp.TargetPort
    BY <2>1 DEF ZeroTarget
  <2>3. BuildServiceResource(sp, c) =
          [ZeroResource EXCEPT !.Name = sp.Name, !.Protocol = sp.Protocol, !.ProxyPort = sp.ProxyPort,
                               !.Targets = <<target>>]
    BY <1>1, <2>1 DEF BuildServiceResource
  <2> QED
    BY <2>2, <2>3 DEF ZeroResource
<1>2. CASE sp.FullDomain # <<>>
  <2>1. BuildServiceResource(sp, c).Targets = <<HTTPTarget(sp, c)>>
    BY <1>2 DEF BuildServiceResource, ZeroResource
  <2>2. HTTPTarget(sp, c).Port = sp.TargetPort
    BY DEF HTTPTarget
  <2> QED
    BY <1>2, <2>1, <2>2
<1> QED
  BY <1>1, <1>2

\* buildEntries takes the branch for all ports exactly if they are asked for.
LEMMA AllPortsBranch ==
    ASSUME NEW c, c = Load(input.env, input.flags), c # NoConfig
    PROVE  AllPorts <=> FullDomain(annotations) = <<>> /\ resolveAllPorts(annotations, c)
<1>1. PICK v, ports : v = c["AllPorts"] /\ ports = annotations.allPorts
  OBVIOUS
<1>2. v <=> On("AllPorts")
  BY <1>1, LoadedSwitch
<1>3. resolveAllPorts(annotations, c) = IF ports # Absent THEN isTruthy(ports) ELSE v
  BY <1>1 DEF resolveAllPorts
<1>4. Absent \notin {"true", "1"}
  BY AbsentIsNoText
<1>5. isTruthy(ports) <=> ports \in {"true", "1"}
  BY DEF isTruthy
<1>6. (ports \in {"true", "1"} \/ (ports = Absent /\ On("AllPorts"))) <=> resolveAllPorts(annotations, c)
  <2>1. CASE ports # Absent
    <3>1. resolveAllPorts(annotations, c) = isTruthy(ports)
      BY <1>3, <2>1, Zenon
    <3> QED
      BY <1>5, <2>1, <3>1, Zenon
  <2>2. CASE ports = Absent
    <3>1. resolveAllPorts(annotations, c) = v
      BY <1>3, <2>2, Zenon
    <3>2. ports \notin {"true", "1"}
      BY <1>4, <2>2, Zenon
    <3> QED
      BY <1>2, <2>2, <3>1, <3>2, Zenon
  <2> QED
    BY <2>1, <2>2, Zenon
<1> QED
  BY <1>1, <1>6, Zenon DEF AllPorts

\* The one entry is for the port p, and that is the named one if one is.
SingleFor(es, s, p, a, secret, c, sp, key) ==
    /\ sp = resolvePort(s, p, a, secret, c)
    /\ es = [k \in {key} |-> BuildServiceResource(sp, c)]
    /\ key = IF sp.FullDomain # <<>> THEN HostnameToKey(sp.FullDomain)
             ELSE ServiceToKey(s.namespace, s.name, ToString(sp.ProxyPort), sp.Protocol)
    /\ a.port # Absent => TrimSpace(a.port) \in {p.name, ToString(p.port)}

\* buildSinglePortEntry gives an entry for one of the Service's ports.
LEMMA SingleEntry ==
    ASSUME NEW s, IsSequence(s.ports), NEW a, NEW secret, NEW c, NEW es,
           es = buildSinglePortEntry(s, a, secret, c), es # <<>>
    PROVE  \E i \in DOMAIN s.ports : \E sp, key : SingleFor(es, s, s.ports[i], a, secret, c, sp, key)
<1>1. selectPort(s, a) # NoPort
  BY DEF buildSinglePortEntry
<1>2. PICK i \in DOMAIN s.ports :
        /\ selectPort(s, a) = s.ports[i]
        /\ a.port # Absent => TrimSpace(a.port) \in {s.ports[i].name, ToString(s.ports[i].port)}
  BY <1>1, SelectedPort
<1>3. PICK sp : sp = resolvePort(s, s.ports[i], a, secret, c)
  OBVIOUS
<1>4. PICK key : key = IF sp.FullDomain # <<>> THEN HostnameToKey(sp.FullDomain)
                       ELSE ServiceToKey(s.namespace, s.name, ToString(sp.ProxyPort), sp.Protocol)
  OBVIOUS
<1>5. es = [k \in {key} |-> BuildServiceResource(sp, c)]
  BY <1>1, <1>2, <1>3, <1>4 DEF buildSinglePortEntry
<1>6. SingleFor(es, s, s.ports[i], a, secret, c, sp, key)
  BY <1>2, <1>3, <1>4, <1>5, Zenon DEF SingleFor
<1> QED
  BY <1>6, Zenon

\* A Service is only exposed as it and the operator ask for: never when it is opted
\* out, on more than one port only in all-ports mode, and when it names a port, on
\* that port or not at all.
THEOREM ExposedAsAsked == Spec => []ExposesOnlyWhatIsAsked
<1>1. ASSUME DoneInv, entries # <<>> PROVE ExposesOnlyWhatIsAsked
  <2>1. PICK c : c = Load(input.env, input.flags)
    OBVIOUS
  <2>2. /\ WatchesServices(c) /\ ShouldProcess(annotations, TRUE, c.AutoService)
        /\ entries = buildEntries(svc, annotations, input.secret, c)
    BY <1>1, <2>1, EntriesAreBuilt
  <2>3. c # NoConfig /\ (c["EnableService"] \/ c["AutoService"])
    BY <2>2 DEF WatchesServices
  <2>4. annotations.enabled \notin {"false", "0"}
    BY <2>2 DEF ShouldProcess, isOptOut
  <2>5. c["AutoService"] \/ annotations.enabled \in {"true", "1"}
    BY <2>2 DEF ShouldProcess, HasRequiredAnnotations
  <2>6. On("AutoService") \/ (On("EnableService") /\ annotations.enabled \in {"true", "1"})
    <3>1. c["AutoService"] <=> On("AutoService")
      BY <2>1, <2>3, LoadedSwitch
    <3>2. c["EnableService"] <=> On("EnableService")
      BY <2>1, <2>3, LoadedSwitch
    <3> QED
      BY <2>3, <2>5, <3>1, <3>2, Zenon
  <2>7. ASSUME ~AllPorts
        PROVE  /\ Cardinality(DOMAIN entries) = 1
               /\ annotations.port # Absent =>
                    \A k \in DOMAIN entries : \E i \in DOMAIN svc.ports :
                        /\ svc.ports[i].port = entries[k].Targets[1].Port
                        /\ TrimSpace(annotations.port) \in {svc.ports[i].name, ToString(svc.ports[i].port)}
    <3>1. entries = buildSinglePortEntry(svc, annotations, input.secret, c)
      BY <2>1, <2>2, <2>3, <2>7, AllPortsBranch DEF buildEntries
    <3>2. IsSequence(svc.ports)
      BY <1>1, InputAssumption DEF DoneInv, svc
    <3>3. PICK i \in DOMAIN svc.ports : \E sp, key :
            SingleFor(entries, svc, svc.ports[i], annotations, input.secret, c, sp, key)
      BY <1>1, <3>1, <3>2, SingleEntry
    <3>4. PICK sp, key :
            /\ sp = resolvePort(svc, svc.ports[i], annotations, input.secret, c)
            /\ entries = [k \in {key} |-> BuildServiceResource(sp, c)]
            /\ annotations.port # Absent =>
                 TrimSpace(annotations.port) \in {svc.ports[i].name, ToString(svc.ports[i].port)}
      BY <3>3, Zenon DEF SingleFor
    <3>5. sp.TargetPort = svc.ports[i].port
      BY <3>4, ResolvedNumbers
    <3>6. BuildServiceResource(sp, c).Targets[1].Port = svc.ports[i].port
      BY <3>5, EntryNumbers
    <3>7. DOMAIN entries = {key} /\ entries[key] = BuildServiceResource(sp, c)
      BY <3>4
    <3>8. Cardinality(DOMAIN entries) = 1
      BY <3>7, FS_Singleton
    <3> QED
      BY <3>4, <3>6, <3>7, <3>8
  <2>8. ~(1 > 1)
    OBVIOUS
  <2> QED
    BY <2>4, <2>6, <2>7, <2>8, Zenon DEF ExposesOnlyWhatIsAsked
<1>2. DoneInv => ExposesOnlyWhatIsAsked
  <2>1. entries = <<>> => ExposesOnlyWhatIsAsked
    BY DEF ExposesOnlyWhatIsAsked
  <2> QED
    BY <1>1, <2>1
<1> QED
  BY <1>2, Processed, PTL

(***************************************************************************)
(* Keys.                                                                   *)
(***************************************************************************)
\* A sequence of anything is one of its items.
LEMMA SequenceOf ==
    ASSUME NEW S, NEW s \in Seq(S)
    PROVE  IsSequence(s)
BY DEF IsSequence, Range

\* The whole is C and then v.
EndsIn(all, C, v) ==
    /\ Len(C) \in Nat /\ Len(all) = Len(C) + Len(v)
    /\ \A i \in 1 .. Len(C) : all[i] = C[i]
    /\ \A n \in 1 .. Len(v) : all[Len(C) + n] = v[n]

\* One sequence after another.
LEMMA Concatenated ==
    ASSUME NEW C, IsSequence(C), NEW v, IsSequence(v)
    PROVE  IsSequence(C \o v) /\ EndsIn(C \o v, C, v)
<1>1. PICK S : S = Range(C) \cup Range(v)
  OBVIOUS
<1>2. C \in Seq(S) /\ v \in Seq(S)
  BY <1>1 DEF IsSequence
<1>3. C \o v \in Seq(S)
  BY <1>2
<1>4. IsSequence(C \o v)
  BY <1>3, SequenceOf
<1>5. EndsIn(C \o v, C, v)
  BY <1>2 DEF EndsIn
<1> QED
  BY <1>4, <1>5

\* Four tokens at the end can be told from what is before them.
LEMMA LastFour ==
    ASSUME NEW A, IsSequence(A), NEW B, IsSequence(B), NEW t, Len(t) = 4, NEW u, Len(u) = 4,
           NEW all, EndsIn(all, A, t), EndsIn(all, B, u)
    PROVE  A = B /\ t[2] = u[2] /\ t[4] = u[4]
<1>1. /\ Len(A) \in Nat /\ Len(all) = Len(A) + 4
      /\ \A i \in 1 .. Len(A) : all[i] = A[i]
      /\ \A n \in 1 .. 4 : all[Len(A) + n] = t[n]
  BY DEF EndsIn
<1>2. /\ Len(B) \in Nat /\ Len(all) = Len(B) + 4
      /\ \A i \in 1 .. Len(B) : all[i] = B[i]
      /\ \A n \in 1 .. 4 : all[Len(B) + n] = u[n]
  BY DEF EndsIn
<1>3. Len(A) = Len(B)
  BY <1>1, <1>2
<1>4. \A i \in 1 .. Len(A) : A[i] = B[i]
  BY <1>1, <1>2, <1>3
<1>5. A = B
  <2>1. A \in Seq(Range(A)) /\ B \in Seq(Range(B))
    BY DEF IsSequence
  <2>2. /\ DOMAIN A = 1 .. Len(A) /\ A = [i \in DOMAIN A |-> A[i]]
        /\ DOMAIN B = 1 .. Len(B) /\ B = [i \in DOMAIN B |-> B[i]]
    BY <2>1
  <2> QED
    BY <1>3, <1>4, <2>2
<1>6. t[2] = u[2]
  BY <1>1, <1>2, <1>3
<1>7. t[4] = u[4]
  BY <1>1, <1>2, <1>3
<1> QED
  BY <1>5, <1>6, <1>7

Stem(namespace, name) == namespace \o <<"-">> \o name

\* Equal keys have the same port, the same protocol and the same tokens before.
LEMMA SameServiceKey ==
    ASSUME NEW ns1, IsSequence(ns1), NEW n1, IsSequence(n1), NEW p1, NEW q1,
           NEW ns2, IsSequence(ns2), NEW n2, IsSequence(n2), NEW p2, NEW q2,
           ServiceToKey(ns1, n1, p1, q1) = ServiceToKey(ns2, n2, p2, q2)
    PROVE  Stem(ns1, n1) = Stem(ns2, n2) /\ p1 = p2 /\ q1 = q2
<1>1. IsSequence(<<"-">>)
  BY DEF IsSequence, Range
<1>2. ASSUME NEW ns, IsSequence(ns), NEW n, IsSequence(n) PROVE IsSequence(ns \o <<"-">> \o n)
  <2>1. IsSequence(ns \o <<"-">>)
    BY <1>1, <1>2, Concatenated
  <2> QED
    BY <1>2, <2>1, Concatenated
<1>3. ASSUME NEW p, NEW q
      PROVE  /\ IsSequence(<<"-", p, "-", q>>) /\ Len(<<"-", p, "-", q>>) = 4
             /\ <<"-", p, "-", q>>[2] = p /\ <<"-", p, "-", q>>[4] = q
  BY DEF IsSequence, Range
<1>4. PICK A, B, t, u : /\ A = ns1 \o <<"-">> \o n1 /\ B = ns2 \o <<"-">> \o n2
                        /\ t = <<"-", p1, "-", q1>> /\ u = <<"-", p2, "-", q2>>
  OBVIOUS
<1>5. A \o t = B \o u
  BY <1>4 DEF ServiceToKey
<1>6. IsSequence(A) /\ IsSequence(B)
  BY <1>2, <1>4, Zenon
<1>7. IsSequence(t) /\ IsSequence(u) /\ Len(t) = 4 /\ Len(u) = 4
  BY <1>3, <1>4, Zenon
<1>8. EndsIn(A \o t, A, t) /\ EndsIn(B \o u, B, u)
  BY <1>6, <1>7, Concatenated, Zenon
<1>9. EndsIn(A \o t, B, u)
  BY <1>5, <1>8, Zenon
<1>10. A = B /\ t[2] = u[2] /\ t[4] = u[4]
  BY <1>6, <1>7, <1>8, <1>9, LastFour
<1> QED
  BY <1>3, <1>4, <1>10 DEF Stem

\* The key of an entry names the Service, its port and the protocol.
KeyedBy(e, k, s, p) ==
    e.ProxyPort = p.port /\ k = ServiceToKey(s.namespace, s.name, ToString(p.port), e.Protocol)

PortKey(s, p) == ServiceToKey(s.namespace, s.name, ToString(p.port), serviceProtocol(p.protocol))

PortEntry(s, p, c) ==
    BuildServiceResource([PlainPort(s, p) EXCEPT !.Protocol = serviceProtocol(p.protocol),
                                                 !.ProxyPort = p.port], c)

\* buildAllPortEntries: every entry is for a port with its key.
LEMMA AllPortEntry ==
    ASSUME NEW s, IsSequence(s.ports), NEW c, NEW k \in DOMAIN buildAllPortEntries(s, c)
    PROVE  \E i \in DOMAIN s.ports : /\ PortKey(s, s.ports[i]) = k
                                     /\ buildAllPortEntries(s, c)[k] = PortEntry(s, s.ports[i], c)
<1>1. PICK es, ports : es = buildAllPortEntries(s, c) /\ ports = s.ports
  OBVIOUS
<1> DEFINE I == {i \in 1 .. Len(ports) : PortKey(s, ports[i]) = k}
<1>2. Len(ports) \in Nat /\ DOMAIN ports = 1 .. Len(ports)
  BY <1>1 DEF IsSequence
<1>3. DOMAIN es = {PortKey(s, ports[i]) : i \in DOMAIN ports}
  BY <1>1 DEF buildAllPortEntries, PortKey
<1>4. I # {}
  BY <1>1, <1>2, <1>3
<1>5. Max(I) \in I
  BY <1>2, <1>4, GreatestIndex
<1>6. es[k] = PortEntry(s, ports[IF I # {} THEN Max(I) ELSE 0], c)
  BY <1>1, Zenon DEF buildAllPortEntries, PortKey, PortEntry, SelectLastInSeq
<1>7. PICK i \in 1 .. Len(ports) : PortKey(s, ports[i]) = k /\ i = Max(I)
  BY <1>5
<1>8. es[k] = PortEntry(s, ports[i], c)
  BY <1>4, <1>6, <1>7, Zenon
<1> QED
  BY <1>1, <1>2, <1>7, <1>8

\* Its numbers are the port's.
LEMMA PortEntryIsKeyed ==
    ASSUME NEW s, NEW p, NEW c
    PROVE  KeyedBy(PortEntry(s, p, c), PortKey(s, p), s, p)
<1>1. PICK sp : sp = [PlainPort(s, p) EXCEPT !.Protocol = serviceProtocol(p.protocol), !.ProxyPort = p.port]
  OBVIOUS
<1>2. /\ sp.FullDomain = <<>> /\ sp.Protocol = serviceProtocol(p.protocol) /\ sp.ProxyPort = p.port
  BY <1>1 DEF PlainPort, ZeroTarget
<1>3. PortEntry(s, p, c) = BuildServiceResource(sp, c)
  BY <1>1 DEF PortEntry
<1>4. PortEntry(s, p, c).ProxyPort = p.port /\ PortEntry(s, p, c).Protocol = serviceProtocol(p.protocol)
  BY <1>2, <1>3, EntryNumbers
<1> QED
  BY <1>4 DEF KeyedBy, PortKey

\* Every raw entry is for a port of the Service, and its key says so.
LEMMA EntryOfKey ==
    ASSUME NEW s, IsSequence(s.ports), NEW a, NEW secret, NEW c, FullDomain(a) = <<>>,
           NEW es, es = buildEntries(s, a, secret, c), NEW k \in DOMAIN es
    PROVE  \E i \in DOMAIN s.ports : KeyedBy(es[k], k, s, s.ports[i])
<1>1. CASE resolveAllPorts(a, c)
  <2>1. es = buildAllPortEntries(s, c)
    BY <1>1 DEF buildEntries
  <2>2. PICK i \in DOMAIN s.ports : PortKey(s, s.ports[i]) = k /\ es[k] = PortEntry(s, s.ports[i], c)
    BY <2>1, AllPortEntry
  <2>3. KeyedBy(es[k], k, s, s.ports[i])
    BY <2>2, PortEntryIsKeyed
  <2> QED
    BY <2>3
<1>2. CASE ~resolveAllPorts(a, c)
  <2>1. es = buildSinglePortEntry(s, a, secret, c) /\ es # <<>>
    BY <1>2 DEF buildEntries
  <2>2. PICK i \in DOMAIN s.ports : \E sp, key : SingleFor(es, s, s.ports[i], a, secret, c, sp, key)
    BY <2>1, SingleEntry
  <2>3. PICK sp, key :
          /\ sp = resolvePort(s, s.ports[i], a, secret, c)
          /\ es = [x \in {key} |-> BuildServiceResource(sp, c)]
          /\ key = IF sp.FullDomain # <<>> THEN HostnameToKey(sp.FullDomain)
                   ELSE ServiceToKey(s.namespace, s.name, ToString(sp.ProxyPort), sp.Protocol)
    BY <2>2, Zenon DEF SingleFor
  <2>4. PICK p : p = s.ports[i]
    OBVIOUS
  <2>5. sp.FullDomain = <<>> /\ sp.ProxyPort = p.port
    BY <2>3, <2>4, ResolvedNumbers
  <2>6. k = key /\ es[k] = BuildServiceResource(sp, c)
    BY <2>3
  <2>7. es[k].ProxyPort = p.port /\ es[k].Protocol = sp.Protocol
    BY <2>5, <2>6, EntryNumbers
  <2>8. k = ServiceToKey(s.namespace, s.name, ToString(p.port), sp.Protocol)
    BY <2>3, <2>5, <2>6
  <2>9. KeyedBy(es[k], k, s, p)
    BY <2>7, <2>8 DEF KeyedBy
  <2> QED
    BY <2>4, <2>9
<1> QED
  BY <1>1, <1>2

\* Two Services meet on a raw key only where the dash between namespace and name is
\* ambiguous, and then for the same port and protocol.
THEOREM CollisionsAreAtTheDash == Spec => []KeysCollideOnlyAtTheDash
<1>1. ASSUME DoneInv, entries # <<>>, FullDomain(annotations) = <<>>, NEW s \in Services,
             NEW others, others = Exposed([input EXCEPT !.svc = s]),
             NEW k \in DOMAIN entries \cap DOMAIN others
      PROVE  /\ s.namespace \o <<"-">> \o s.name = svc.namespace \o <<"-">> \o svc.name
             /\ others[k].ProxyPort = entries[k].ProxyPort
             /\ others[k].Protocol = entries[k].Protocol
  <2>1. PICK c, a, secret, r : /\ c = Load(input.env, input.flags) /\ a = annotations
                               /\ secret = input.secret /\ r = svc
    OBVIOUS
  <2>2. entries = buildEntries(r, a, secret, c)
    BY <1>1, <2>1, EntriesAreBuilt
  <2>3. others = buildEntries(s, a, secret, c)
    <3>1. PICK in : in = [input EXCEPT !.svc = s]
      OBVIOUS
    <3>2. DOMAIN input = {"env", "flags", "svc", "annotations", "secret"}
      BY <1>1, InputAssumption DEF DoneInv
    <3>3. /\ in.env = input.env /\ in.flags = input.flags /\ in.annotations = input.annotations
          /\ in.secret = input.secret /\ in.svc = s
      BY <3>1, <3>2
    <3>4. others # <<>> /\ others = Exposed(in)
      BY <1>1, <3>1
    <3> QED
      BY <2>1, <3>3, <3>4 DEF Exposed, annotations
  <2>4. r \in Services
    BY <1>1, <2>1, InputAssumption DEF DoneInv, svc
  <2>5. /\ IsSequence(r.namespace) /\ IsSequence(r.name) /\ IsSequence(r.ports)
        /\ IsSequence(s.namespace) /\ IsSequence(s.name) /\ IsSequence(s.ports)
    BY <2>4, InputAssumption
  <2>6. FullDomain(a) = <<>>
    BY <1>1, <2>1
  <2>7. PICK i \in DOMAIN r.ports : KeyedBy(entries[k], k, r, r.ports[i])
    BY <1>1, <2>2, <2>5, <2>6, EntryOfKey
  <2>8. PICK j \in DOMAIN s.ports : KeyedBy(others[k], k, s, s.ports[j])
    BY <1>1, <2>3, <2>5, <2>6, EntryOfKey
  <2>9. PICK n, m, q, z : /\ n = r.ports[i].port /\ m = s.ports[j].port
                          /\ q = entries[k].Protocol /\ z = others[k].Protocol
    OBVIOUS
  <2>10. /\ k = ServiceToKey(r.namespace, r.name, ToString(n), q) /\ entries[k].ProxyPort = n
         /\ k = ServiceToKey(s.namespace, s.name, ToString(m), z) /\ others[k].ProxyPort = m
    BY <2>7, <2>8, <2>9 DEF KeyedBy
  <2>11. ServiceToKey(s.namespace, s.name, ToString(m), z) = ServiceToKey(r.namespace, r.name, ToString(n), q)
    BY <2>10, Zenon
  <2>12. Stem(s.namespace, s.name) = Stem(r.namespace, r.name) /\ ToString(m) = ToString(n) /\ z = q
    BY <2>5, <2>11, SameServiceKey
  <2>13. m = n
    BY <2>4, <2>9, <2>12, InputAssumption
  <2> QED
    BY <2>1, <2>9, <2>10, <2>12, <2>13, Zenon DEF Stem
<1>2. DoneInv => KeysCollideOnlyAtTheDash
  BY <1>1, Zenon DEF KeysCollideOnlyAtTheDash
<1> QED
  BY <1>2, Processed, PTL

(***************************************************************************)
(* How many entries there are.                                             *)
(***************************************************************************)
\* Two functions that tell the same positions apart have as many values.
LEMMA SameImages ==
    ASSUME NEW D, IsFiniteSet(D), NEW F, NEW G, \A i, j \in D : F[i] = F[j] <=> G[i] = G[j]
    PROVE  Cardinality({F[i] : i \in D}) = Cardinality({G[i] : i \in D})
<1> DEFINE A == {F[i] : i \in D}
           B == {G[i] : i \in D}
           At(x) == CHOOSE i \in D : F[i] = x
           h == [x \in A |-> G[At(x)]]
<1>1. ASSUME NEW x \in A PROVE At(x) \in D /\ F[At(x)] = x
  <2>1. \E i \in D : F[i] = x
    OBVIOUS
  <2> QED
    BY <2>1
<1>2. IsFiniteSet(A)
  <2>1. [i \in D |-> F[i]] \in Surjection(D, A)
    BY DEF Surjection
  <2> QED
    BY <2>1, FS_Surjection
<1> HIDE DEF At
<1>3. h \in [A -> B]
  BY <1>1
<1>4. ASSUME NEW x \in A, NEW y \in A, h[x] = h[y] PROVE x = y
  <2>1. G[At(x)] = G[At(y)]
    BY <1>4
  <2> QED
    BY <1>1, <2>1
<1>5. ASSUME NEW y \in B PROVE \E x \in A : h[x] = y
  <2>1. PICK i \in D : y = G[i]
    OBVIOUS
  <2>2. F[i] \in A /\ h[F[i]] = G[At(F[i])]
    OBVIOUS
  <2>3. G[At(F[i])] = G[i]
    BY <1>1, <2>2
  <2> QED
    BY <2>1, <2>2, <2>3
<1>6. h \in Injection(A, B)
  <2>1. \A x, y \in A : h[x] = h[y] => x = y
    BY <1>4
  <2> HIDE DEF h, A, B
  <2> QED
    BY <1>3, <2>1 DEF Injection, IsInjective
<1>7. h \in Surjection(A, B)
  <2>1. \A y \in B : \E x \in A : h[x] = y
    BY <1>5
  <2> HIDE DEF h, A, B
  <2> QED
    BY <1>3, <2>1 DEF Surjection
<1> HIDE DEF h, A, B
<1>8. ExistsBijection(A, B)
  BY <1>6, <1>7 DEF Bijection, ExistsBijection
<1>9. Cardinality(B) = Cardinality(A)
  BY <1>2, <1>8, FS_Bijection
<1> QED
  BY <1>9 DEF A, B

\* Two ports of a Service fall on one key exactly if they have the same number and
\* are both UDP or both not.
LEMMA SamePortKey ==
    ASSUME NEW s \in Services, NEW i \in DOMAIN s.ports, NEW j \in DOMAIN s.ports
    PROVE  PortKey(s, s.ports[i]) = PortKey(s, s.ports[j]) <=>
             /\ s.ports[i].port = s.ports[j].port
             /\ s.ports[i].protocol = "UDP" <=> s.ports[j].protocol = "UDP"
<1>1. PICK p, q : p = s.ports[i] /\ q = s.ports[j]
  OBVIOUS
<1>2. serviceProtocol(p.protocol) = serviceProtocol(q.protocol) <=> (p.protocol = "UDP" <=> q.protocol = "UDP")
  BY DEF serviceProtocol
<1>3. ToString(p.port) = ToString(q.port) => p.port = q.port
  BY <1>1, InputAssumption
<1>4. IsSequence(s.namespace) /\ IsSequence(s.name)
  BY InputAssumption
<1>5. PortKey(s, p) = PortKey(s, q) =>
        ToString(p.port) = ToString(q.port) /\ serviceProtocol(p.protocol) = serviceProtocol(q.protocol)
  <2> SUFFICES ASSUME PortKey(s, p) = PortKey(s, q)
               PROVE  ToString(p.port) = ToString(q.port) /\ serviceProtocol(p.protocol) = serviceProtocol(q.protocol)
    OBVIOUS
  <2>1. ServiceToKey(s.namespace, s.name, ToString(p.port), serviceProtocol(p.protocol)) =
        ServiceToKey(s.namespace, s.name, ToString(q.port), serviceProtocol(q.protocol))
    BY DEF PortKey
  <2> QED
    BY <1>4, <2>1, SameServiceKey
<1>6. p.port = q.port /\ serviceProtocol(p.protocol) = serviceProtocol(q.protocol) =>
        PortKey(s, p) = PortKey(s, q)
  BY DEF PortKey
<1> QED
  BY <1>1, <1>2, <1>3, <1>5, <1>6

\* In all-ports mode every port has its entry: there are as many entries as there
\* are ports of different number or of which one is UDP and one is not.
THEOREM PortsHaveTheirEntries == Spec => []EveryPortHasItsEntry
<1>1. ASSUME DoneInv, entries # <<>>, AllPorts
      PROVE  Cardinality(DOMAIN entries) =
               Cardinality({<<svc.ports[i].port, svc.ports[i].protocol = "UDP">> : i \in DOMAIN svc.ports})
  <2>1. PICK c : c = Load(input.env, input.flags)
    OBVIOUS
  <2>2. entries = buildEntries(svc, annotations, input.secret, c) /\ c # NoConfig
    BY <1>1, <2>1, EntriesAreBuilt DEF WatchesServices
  <2>3. entries = buildAllPortEntries(svc, c)
    BY <1>1, <2>1, <2>2, AllPortsBranch DEF buildEntries
  <2>4. PICK s, D : s = svc /\ D = DOMAIN s.ports
    OBVIOUS
  <2>5. s \in Services /\ IsSequence(s.ports)
    BY <1>1, <2>4, InputAssumption DEF DoneInv, svc
  <2>6. IsFiniteSet(D)
    <3>1. Len(s.ports) \in Nat /\ D = 1 .. Len(s.ports)
      BY <2>4, <2>5 DEF IsSequence
    <3> QED
      BY <3>1, FS_Interval
  <2>7. PICK F, G : /\ F = [i \in D |-> PortKey(s, s.ports[i])]
                    /\ G = [i \in D |-> <<s.ports[i].port, s.ports[i].protocol = "UDP">>]
    OBVIOUS
  <2>8. ASSUME NEW i \in D, NEW j \in D PROVE F[i] = F[j] <=> G[i] = G[j]
    <3>1. F[i] = F[j] <=> PortKey(s, s.ports[i]) = PortKey(s, s.ports[j])
      BY <2>7
    <3>2. G[i] = G[j] <=> /\ s.ports[i].port = s.ports[j].port
                          /\ (s.ports[i].protocol = "UDP") = (s.ports[j].protocol = "UDP")
      BY <2>7
    <3>3. F[i] = F[j] <=> /\ s.ports[i].port = s.ports[j].port
                          /\ s.ports[i].protocol = "UDP" <=> s.ports[j].protocol = "UDP"
      BY <2>4, <2>5, <3>1, SamePortKey
    <3> QED
      BY <3>2, <3>3, Zenon
  <2>9. Cardinality({F[i] : i \in D}) = Cardinality({G[i] : i \in D})
    BY <2>6, <2>8, SameImages, SMTT(60)
  <2>10. DOMAIN entries = {F[i] : i \in D}
    BY <2>3, <2>4, <2>7 DEF buildAllPortEntries, PortKey
  <2>11. {G[i] : i \in D} =
           {<<svc.ports[i].port, svc.ports[i].protocol = "UDP">> : i \in DOMAIN svc.ports}
    BY <2>4, <2>7
  <2> QED
    BY <2>9, <2>10, <2>11, Zenon
<1>2. DoneInv => EveryPortHasItsEntry
  BY <1>1, Zenon DEF EveryPortHasItsEntry
<1> QED
  BY <1>2, Processed, PTL
===============================================================================
