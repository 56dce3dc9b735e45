------------------------- MODULE CustomResourceProofs -------------------------
(***************************************************************************)
(* What a PublicResource or a PrivateResource can be published as, for     *)
(* every spec and Secret.                                                  *)
(***************************************************************************)
EXTENDS CustomResource, FiniteSetTheorems, TLAPS

\* What is published was admitted, decoded, validated and converted.
PublicDone ==
    LET spec == DecodedPublic(input.spec)
    IN /\ input.kind = "public" /\ AdmittedPublic(input.spec) /\ validate(spec)
       /\ entry = buildResource(spec, resolveAuthSecret(spec, secret), SiteID)

PrivateDone ==
    LET spec == DecodedPrivate(input.spec)
    IN /\ input.kind = "private" /\ AdmittedPrivate(input.spec) /\ validatePrivate(spec)
       /\ entry = buildPrivateResource(spec, SiteID)

DoneInv ==
    /\ \E i \in DOMAIN Inputs : input \in Inputs[i]
    /\ entry = NoEntry \/ PublicDone \/ PrivateDone

\* Every state is before or after the one Reconcile.
LEMMA Reconciled == Spec => []DoneInv
<1>1. Init => DoneInv
  BY DEF Init, DoneInv
<1>2. DoneInv /\ [Next]_vars => DoneInv'
  <2> SUFFICES ASSUME DoneInv, [Next]_vars PROVE DoneInv'
    OBVIOUS
  <2>1. CASE ReconcilePublic
    BY <2>1 DEF DoneInv, ReconcilePublic, PublicDone, secret
  <2>2. CASE ReconcilePrivate
    BY <2>2 DEF DoneInv, ReconcilePrivate, PrivateDone
  <2>3. CASE UNCHANGED vars
    BY <2>3 DEF DoneInv, vars, PublicDone, PrivateDone, secret
  <2> QED
    BY <2>1, <2>2, <2>3 DEF Next
<1> QED
  BY <1>1, <1>2, PTL DEF Spec

\* The decoded spec, field by field, as far as the properties go.
LEMMA DecodedSpec ==
    ASSUME NEW spec, AdmittedPublic(spec)
    PROVE  LET d == DecodedPublic(spec)
           IN /\ d.protocol = spec.protocol
              /\ d.proxyPort = IF "proxyPort" \in DOMAIN spec THEN spec.proxyPort ELSE 0
              /\ d.auth = IF "auth" \in DOMAIN spec /\ spec.auth # Absent THEN DecodedAuth(spec.auth) ELSE Absent
              /\ d.rules = IF "rules" \in DOMAIN spec
                           THEN [i \in DOMAIN spec.rules |-> DecodedRule(spec.rules[i])] ELSE <<>>
              /\ d.targets = [i \in DOMAIN spec.targets |-> DecodedTarget(spec.targets[i])]
<1>1. {"name", "protocol", "targets"} \subseteq DOMAIN spec
  BY DEF AdmittedPublic, Requires
<1> DEFINE zero == [fullDomain |-> <<>>, proxyPort |-> 0, enabled |-> Absent, ssl |-> TRUE,
                    hostHeader |-> "", tlsServerName |-> <<>>, headers |-> <<>>, auth |-> Absent,
                    maintenance |-> Absent, rules |-> <<>>]
<1>2. PICK g : g = Decoded(spec, zero)
  OBVIOUS
<1>3. /\ {"protocol", "targets", "proxyPort", "auth", "rules"} \subseteq DOMAIN g
      /\ g.protocol = spec.protocol /\ g.targets = spec.targets
  BY <1>1, <1>2 DEF Decoded
<1>4. /\ g.proxyPort = IF "proxyPort" \in DOMAIN spec THEN spec.proxyPort ELSE 0
      /\ g.auth = IF "auth" \in DOMAIN spec THEN spec.auth ELSE Absent
      /\ g.rules = IF "rules" \in DOMAIN spec THEN spec.rules ELSE <<>>
  BY <1>2 DEF Decoded
<1>5. DecodedPublic(spec) = [g EXCEPT !.auth = IF @ = Absent THEN Absent ELSE DecodedAuth(@),
                                      !.rules = [i \in DOMAIN @ |-> DecodedRule(@[i])],
                                      !.targets = [i \in DOMAIN @ |-> DecodedTarget(@[i])]]
  BY <1>2 DEF DecodedPublic
<1>6. /\ DecodedPublic(spec).protocol = g.protocol
      /\ DecodedPublic(spec).proxyPort = g.proxyPort
      /\ DecodedPublic(spec).auth = IF g.auth = Absent THEN Absent ELSE DecodedAuth(g.auth)
      /\ DecodedPublic(spec).rules = [i \in DOMAIN g.rules |-> DecodedRule(g.rules[i])]
      /\ DecodedPublic(spec).targets = [i \in DOMAIN g.targets |-> DecodedTarget(g.targets[i])]
  BY <1>3, <1>5
<1> QED
  BY <1>3, <1>4, <1>6

\* A block with a credential is not dropped.
LEMMA BlockIsKept ==
    ASSUME NEW auth, NEW s, auth # Absent, NoAuth # authBlock(auth, s)
    PROVE  /\ Pincode(s) # 0 => buildAuth(auth, s) # NoAuth /\ buildAuth(auth, s).Pincode = Pincode(s)
           /\ Password(s) # "" => buildAuth(auth, s) # NoAuth /\ buildAuth(auth, s).Password = Password(s)
           /\ BasicAuth(s) # <<>> => buildAuth(auth, s) # NoAuth /\ buildAuth(auth, s).BasicAuth = BasicAuth(s)
<1>1. PICK built : built = authBlock(auth, s)
  OBVIOUS
<1>2. built.Pincode = Pincode(s) /\ built.Password = Password(s) /\ built.BasicAuth = BasicAuth(s)
  BY <1>1 DEF authBlock
<1>3. Pincode(s) # 0 \/ Password(s) # "" \/ BasicAuth(s) # <<>> => buildAuth(auth, s) = built
  BY <1>1, <1>2 DEF buildAuth
<1> QED
  BY <1>1, <1>2, <1>3

\* What the Secret holds is read.
LEMMA SecretIsRead ==
    ASSUME NEW s, s # NoSecret
    PROVE  /\ s.pincode # Absent /\ Atoi(s.pincode) # NotANumber => Pincode(s) = Atoi(s.pincode)
           /\ s.password # Absent => Password(s) = s.password
           /\ s.user \notin {Absent, ""} \/ s.pass \notin {Absent, ""} => BasicAuth(s) # <<>>
<1>1. s.pincode # Absent /\ Atoi(s.pincode) # NotANumber => Pincode(s) = Atoi(s.pincode)
  BY DEF Pincode
<1>2. s.password # Absent => Password(s) = s.password
  BY DEF Password
<1>3. s.user \notin {Absent, ""} \/ s.pass \notin {Absent, ""} => BasicAuth(s) # <<>>
  BY DEF BasicAuth
<1> QED
  BY <1>1, <1>2, <1>3

\* A credential of the Secret that the spec names is never lost.
THEOREM CredentialsReachTheEntry == Spec => []CredentialsAreKept
<1>1. ASSUME DoneInv, public, resolveAuthSecret(DecodedPublic(input.spec), secret) # NoSecret
      PROVE  /\ (secret.pincode # Absent /\ Atoi(secret.pincode) \notin {NotANumber, 0}) =>
                  entry.Auth # NoAuth /\ entry.Auth.Pincode = Atoi(secret.pincode)
             /\ secret.password \notin {Absent, ""} =>
                  entry.Auth # NoAuth /\ entry.Auth.Password = secret.password
             /\ (secret.user \notin {Absent, ""} \/ secret.pass \notin {Absent, ""}) =>
                  entry.Auth # NoAuth /\ entry.Auth.BasicAuth # <<>>
  <2>1. PublicDone
    BY <1>1 DEF DoneInv, public, PrivateDone
  <2>2. PICK d : d = DecodedPublic(input.spec)
    OBVIOUS
  <2>3. d.auth # Absent /\ secret # NoSecret /\ resolveAuthSecret(d, secret) = secret
    BY <1>1, <2>2 DEF resolveAuthSecret
  <2>4. entry.Auth = buildAuth(d.auth, secret)
    BY <2>1, <2>2, <2>3 DEF PublicDone, buildResource
  <2>5. NoAuth # authBlock(d.auth, secret)
    <3>1. "auth" \in DOMAIN input.spec /\ d.auth = DecodedAuth(input.spec.auth)
      BY <2>1, <2>2, <2>3, DecodedSpec DEF PublicDone
    <3> QED
      BY <1>1, <2>1, <3>1, InputAssumption DEF DoneInv, PublicDone, secret
  <2>6. PICK a : a = entry.Auth
    OBVIOUS
  <2>7. /\ Pincode(secret) # 0 => a # NoAuth /\ a.Pincode = Pincode(secret)
        /\ Password(secret) # "" => a # NoAuth /\ a.Password = Password(secret)
        /\ BasicAuth(secret) # <<>> => a # NoAuth /\ a.BasicAuth = BasicAuth(secret)
    <3>1. LET b == buildAuth(d.auth, secret)
          IN /\ Pincode(secret) # 0 => b # NoAuth /\ b.Pincode = Pincode(secret)
             /\ Password(secret) # "" => b # NoAuth /\ b.Password = Password(secret)
             /\ BasicAuth(secret) # <<>> => b # NoAuth /\ b.BasicAuth = BasicAuth(secret)
      BY <2>3, <2>5, BlockIsKept, Zenon
    <3>2. a = buildAuth(d.auth, secret)
      BY <2>4, <2>6
    <3> QED
      BY <3>1, <3>2, Zenon
  <2>8. (secret.pincode # Absent /\ Atoi(secret.pincode) \notin {NotANumber, 0}) =>
          a # NoAuth /\ a.Pincode = Atoi(secret.pincode)
    BY <2>3, <2>7, SecretIsRead
  <2>9. secret.password \notin {Absent, ""} => a # NoAuth /\ a.Password = secret.password
    BY <2>3, <2>7, SecretIsRead
  <2>10. (secret.user \notin {Absent, ""} \/ secret.pass \notin {Absent, ""}) =>
           a # NoAuth /\ a.BasicAuth # <<>>
    BY <2>3, <2>7, SecretIsRead
  <2> QED
    BY <2>6, <2>8, <2>9, <2>10
<1>2. DoneInv => CredentialsAreKept
  BY <1>1 DEF CredentialsAreKept
<1> QED
  BY <1>2, Reconciled, PTL

\* An admitted rule is one that the annotations would accept too.
LEMMA RulesAreValid ==
    ASSUME NEW r, AdmittedRule(r), NEW out,
           LET d == DecodedRule(r)
           IN out = [Action |-> d.action, Match |-> d.match, Value |-> d.value, Priority |-> d.priority]
    PROVE  isValidRule(out)
<1>1. PICK d : d = DecodedRule(r)
  OBVIOUS
<1>2. d.action = r.action /\ d.match = r.match /\ d.value = r.value
  BY <1>1 DEF DecodedRule, Decoded, AdmittedRule, Requires
<1>3. d.priority = 0 \/ d.priority \in 1 .. MaxPriority
  <2>1. d.priority = IF "priority" \in DOMAIN r THEN r.priority ELSE 0
    BY <1>1 DEF DecodedRule, Decoded
  <2>2. "priority" \in DOMAIN r => r.priority \in 1 .. MaxPriority
    BY Zenon DEF AdmittedRule, Allows, Priorities
  <2> QED
    BY <2>1, <2>2, Zenon
<1>4. out.Action = d.action /\ out.Match = d.match /\ out.Value = d.value /\ out.Priority = d.priority
  BY <1>1
<1>5. /\ out.Action \in {"allow", "deny", "pass"} /\ out.Value # ""
      /\ out.Match \in {"cidr", "ip", "path", "country"}
  BY <1>2, <1>4 DEF AdmittedRule
<1>6. out.Priority = 0 \/ out.Priority \in 1 .. MaxPriority
  BY <1>3, <1>4
<1> QED
  BY <1>5, <1>6, Zenon DEF isValidRule

\* The schema's bounds.
LEMMA SchemaBounds ==
    /\ \A p \in Ports : ValidPort(p)
    /\ \A p \in Priorities : ValidPriority(p)
    /\ ValidPriority(0)
<1>1. ASSUME NEW p \in Ports PROVE ValidPort(p)
  BY DEF Ports, ValidPort
<1>2. ASSUME NEW p \in Priorities PROVE ValidPriority(p)
  BY DEF Priorities, ValidPriority, MaxPriority
<1>3. ValidPriority(0)
  BY DEF ValidPriority, MaxPriority
<1> QED
  BY <1>1, <1>2, <1>3

\* An admitted target has a port, a priority in its range and a switch.
LEMMA TargetsAreValid ==
    ASSUME NEW t, AdmittedTarget(t)
    PROVE  LET d == DecodedTarget(t)
           IN ValidPort(d.port) /\ ValidPriority(d.priority) /\ d.enabled \in BOOLEAN
<1> DEFINE zero == [method |-> "", enabled |-> TRUE, internalPort |-> 0, path |-> "", pathMatch |-> "",
                    rewriteMatch |-> "", priority |-> 0, healthcheck |-> Absent]
<1>1. PICK g : g = Decoded(t, zero)
  OBVIOUS
<1>2. ValidPort(g.port)
  <2>1. g.port = t.port /\ t.port \in Ports
    BY <1>1 DEF Decoded, AdmittedTarget, Requires
  <2> QED
    BY <2>1, SchemaBounds, Zenon
<1>3. ValidPriority(g.priority)
  <2>1. "priority" \in DOMAIN t => g.priority = t.priority /\ t.priority \in Priorities
    BY <1>1, Zenon DEF Decoded, AdmittedTarget, Allows
  <2>2. "priority" \notin DOMAIN t => g.priority = 0
    BY <1>1 DEF Decoded
  <2> QED
    BY <2>1, <2>2, SchemaBounds, Zenon
<1>4. g.enabled \in BOOLEAN
  <2>1. "enabled" \in DOMAIN t => g.enabled = t.enabled /\ t.enabled \in BOOLEAN
    BY <1>1, Zenon DEF Decoded, AdmittedTarget, Allows
  <2>2. "enabled" \notin DOMAIN t => g.enabled = TRUE
    BY <1>1 DEF Decoded
  <2> QED
    BY <2>1, <2>2, Zenon
<1>5. DecodedTarget(t) = [g EXCEPT !.healthcheck = IF @ = Absent THEN Absent ELSE DecodedHealthCheck(@)]
  BY <1>1 DEF DecodedTarget
<1>6. {"port", "priority", "enabled"} \subseteq DOMAIN g
  BY <1>1 DEF Decoded, AdmittedTarget, Requires
<1>7. /\ DecodedTarget(t).port = g.port /\ DecodedTarget(t).priority = g.priority
      /\ DecodedTarget(t).enabled = g.enabled
  BY <1>5, <1>6
<1> QED
  BY <1>2, <1>3, <1>4, <1>7

\* What passes schema and validate has its domain or port, its targets, and only
\* ports, priorities, rules and networks that are valid.
THEOREM PublishedIsWellFormed == Spec => []OnlyWellFormedIsPublished
<1>1. ASSUME DoneInv, public
      PROVE  /\ entry.Protocol = "http" => entry.FullDomain # <<>> /\ entry.TLSServerName # <<>>
             /\ entry.Protocol # "http" => ValidPort(entry.ProxyPort)
             /\ entry.Targets # <<>>
             /\ \A i \in DOMAIN entry.Targets :
                  /\ ValidPort(entry.Targets[i].Port)
                  /\ ValidPriority(entry.Targets[i].Priority)
                  /\ entry.Targets[i].Enabled \in BOOLEAN
             /\ \A i \in DOMAIN entry.Rules : isValidRule(entry.Rules[i])
  <2>1. PublicDone
    BY <1>1 DEF DoneInv, public, PrivateDone
  <2>2. PICK spec, d : spec = input.spec /\ d = DecodedPublic(spec)
    OBVIOUS
  <2>3. AdmittedPublic(spec) /\ validate(d)
    BY <2>1, <2>2 DEF PublicDone
  <2>4. /\ entry.Protocol = d.protocol /\ entry.FullDomain = d.fullDomain
        /\ entry.TLSServerName = TLSServerName(d) /\ entry.ProxyPort = d.proxyPort
        /\ entry.Targets = convertTargets(d.targets, SiteID) /\ entry.Rules = convertRules(d.rules)
    BY <2>1, <2>2 DEF PublicDone, buildResource
  <2>5. entry.Protocol = "http" => entry.FullDomain # <<>> /\ entry.TLSServerName # <<>>
    BY <2>3, <2>4 DEF validate, TLSServerName
  <2>6. entry.Protocol # "http" => ValidPort(entry.ProxyPort)
    <3>1. d.protocol = spec.protocol /\ d.proxyPort = IF "proxyPort" \in DOMAIN spec THEN spec.proxyPort ELSE 0
      BY <2>2, <2>3, DecodedSpec
    <3>2. d.protocol # "http" => d.proxyPort # 0
      BY <2>3, <3>1 DEF AdmittedPublic, validate
    <3>3. "proxyPort" \in DOMAIN spec => spec.proxyPort \in Ports
      BY <2>3 DEF AdmittedPublic, Allows
    <3>4. d.protocol # "http" => d.proxyPort \in Ports
      BY <3>1, <3>2, <3>3
    <3> QED
      BY <2>4, <3>4, SchemaBounds, Zenon
  <2>7. /\ entry.Targets # <<>>
        /\ \A i \in DOMAIN entry.Targets :
             /\ ValidPort(entry.Targets[i].Port)
             /\ ValidPriority(entry.Targets[i].Priority)
             /\ entry.Targets[i].Enabled \in BOOLEAN
    <3>1. PICK ts : ts = spec.targets
      OBVIOUS
    <3>2. d.targets = [i \in DOMAIN ts |-> DecodedTarget(ts[i])]
      <4>1. DecodedPublic(spec).targets = [i \in DOMAIN spec.targets |-> DecodedTarget(spec.targets[i])]
        BY <2>3, DecodedSpec
      <4> QED
        BY <2>2, <3>1, <4>1, Zenon
    <3>3. DOMAIN ts # {}
      <4>1. spec.targets # <<>> /\ "targets" \in DOMAIN spec
        BY <2>3 DEF AdmittedPublic, Requires
      <4> QED
        BY <1>1, <2>1, <2>2, <3>1, <4>1, InputAssumption DEF DoneInv, PublicDone
    <3>4. \A i \in DOMAIN ts : AdmittedTarget(ts[i])
      BY <2>3, <3>1 DEF AdmittedPublic, Items, Requires
    <3>5. DOMAIN entry.Targets = DOMAIN ts
      BY <2>4, <3>2 DEF convertTargets
    <3>6. ASSUME NEW i \in DOMAIN ts
          PROVE  /\ entry.Targets[i].Port = DecodedTarget(ts[i]).port
                 /\ entry.Targets[i].Priority = DecodedTarget(ts[i]).priority
                 /\ entry.Targets[i].Enabled = DecodedTarget(ts[i]).enabled
      BY <2>4, <3>2 DEF convertTargets
    <3>7. ASSUME NEW i \in DOMAIN entry.Targets
          PROVE  /\ ValidPort(entry.Targets[i].Port)
                 /\ ValidPriority(entry.Targets[i].Priority)
                 /\ entry.Targets[i].Enabled \in BOOLEAN
      <4>1. i \in DOMAIN ts /\ AdmittedTarget(ts[i])
        BY <3>4, <3>5, <3>7
      <4>2. PICK g : g = DecodedTarget(ts[i])
        OBVIOUS
      <4>3. ValidPort(g.port) /\ ValidPriority(g.priority) /\ g.enabled \in BOOLEAN
        BY <4>1, <4>2, TargetsAreValid, Zenon
      <4>4. entry.Targets[i].Port = g.port /\ entry.Targets[i].Priority = g.priority
            /\ entry.Targets[i].Enabled = g.enabled
        BY <3>6, <4>1, <4>2, Zenon
      <4> QED
        BY <4>3, <4>4, Zenon
    <3> QED
      BY <3>3, <3>5, <3>7
  <2>8. \A i \in DOMAIN entry.Rules : isValidRule(entry.Rules[i])
    <3>1. d.rules = IF "rules" \in DOMAIN spec
                    THEN [i \in DOMAIN spec.rules |-> DecodedRule(spec.rules[i])] ELSE <<>>
      <4>1. DecodedPublic(spec).rules = IF "rules" \in DOMAIN spec
              THEN [i \in DOMAIN spec.rules |-> DecodedRule(spec.rules[i])] ELSE <<>>
        BY <2>3, DecodedSpec
      <4> QED
        BY <2>2, <4>1, Zenon
    <3>2. ASSUME NEW i \in DOMAIN entry.Rules
          PROVE  isValidRule(entry.Rules[i])
      <4>1. i \in DOMAIN d.rules /\ "rules" \in DOMAIN spec /\ i \in DOMAIN spec.rules
        BY <2>4, <3>1, <3>2 DEF convertRules
      <4>2. PICK r : r = spec.rules[i]
        OBVIOUS
      <4>3. AdmittedRule(r)
        BY <2>3, <4>1, <4>2 DEF AdmittedPublic, Items
      <4>4. d.rules[i] = DecodedRule(r)
        BY <3>1, <4>1, <4>2
      <4>5. entry.Rules[i] = [Action |-> d.rules[i].action, Match |-> d.rules[i].match,
                              Value |-> d.rules[i].value, Priority |-> d.rules[i].priority]
        BY <2>4, <4>1 DEF convertRules
      <4> QED
        BY <4>3, <4>4, <4>5, RulesAreValid
    <3> QED
      BY <3>2
  <2> QED
    BY <2>5, <2>6, <2>7, <2>8, Zenon
<1>2. ASSUME DoneInv, private
      PROVE  /\ entry.Mode = "cidr" => entry.Destination \in CIDRs
             /\ \A i \in DOMAIN entry.Roles : entry.Roles[i] # "Admin"
  <2>1. PrivateDone
    BY <1>2 DEF DoneInv, private, PublicDone
  <2> QED
    BY <2>1 DEF PrivateDone, validatePrivate, buildPrivateResource
<1>3. DoneInv => OnlyWellFormedIsPublished
  BY <1>1, <1>2, Zenon DEF OnlyWellFormedIsPublished
<1> QED
  BY <1>3, Reconciled, PTL

(***************************************************************************)
(* The two paths. What the parsers of the annotations make of a text that  *)
(* AnnotationsOf wrote is the value it was written from; the resource and  *)
(* the target are compared as the records of their fields.                 *)
(***************************************************************************)
HTTPResource(name, enabled, ssl, fullDomain, hostHeader, tls, headers, rules, maintenance, auth, target) ==
    [Name |-> name, Protocol |-> "http", Enabled |-> enabled, SSL |-> ssl, FullDomain |-> fullDomain,
     HostHeader |-> hostHeader, TLSServerName |-> tls, ProxyPort |-> 0, Headers |-> headers,
     Rules |-> rules, Maintenance |-> maintenance, Auth |-> auth, Targets |-> <<target>>]

OneTarget(site, hostname, port, method, enabled, internalPort, path, pathMatch, rewriteMatch, priority,
          healthCheck) ==
    [Site |-> site, Hostname |-> hostname, Port |-> port, Method |-> method, Enabled |-> enabled,
     InternalPort |-> internalPort, Path |-> path, PathMatch |-> pathMatch,
     RewriteMatch |-> rewriteMatch, Priority |-> priority, HealthCheck |-> healthCheck]

Gateway(c) == [ZeroTarget EXCEPT !.Site = c.SiteID, !.Hostname = <<c.TargetHostname>>,
                                 !.Method = c.TargetMethod, !.Port = c.TargetPort]

Switched(v) == IF v \in {Absent, " "} THEN Absent ELSE isTruthy(v)

Filled(z, name, enabled, ssl, fullDomain, hostHeader, tls, headers, rules, maintenance, auth, target) ==
    [z EXCEPT !.Name = name, !.Protocol = "http", !.Enabled = enabled, !.SSL = ssl,
              !.FullDomain = fullDomain, !.HostHeader = hostHeader, !.TLSServerName = tls,
              !.Headers = headers, !.Auth = auth, !.Maintenance = maintenance, !.Rules = rules,
              !.Targets = <<target>>]

ResourceFields ==
    {"Name", "Protocol", "Enabled", "SSL", "FullDomain", "HostHeader", "TLSServerName", "ProxyPort",
     "Headers", "Rules", "Maintenance", "Auth", "Targets"}

\* The zero resource has these fields and no port.
LEMMA ZeroFields == ZeroResource = [f \in ResourceFields |-> ZeroResource[f]] /\ ZeroResource.ProxyPort = 0
<1>1. PICK zero, off : zero = "" /\ off = FALSE
  BY Zenon
<1>2. PICK z : z = [Name |-> <<>>, Protocol |-> zero, Enabled |-> Absent, SSL |-> off, FullDomain |-> <<>>,
                    HostHeader |-> zero, TLSServerName |-> <<>>, ProxyPort |-> 0, Headers |-> <<>>,
                    Auth |-> NoAuth, Maintenance |-> Absent, Rules |-> <<>>, Targets |-> <<>>]
  OBVIOUS
<1>3. z = [f \in ResourceFields |-> z[f]] /\ z.ProxyPort = 0
  BY <1>2 DEF ResourceFields
<1>4. ZeroResource = z
  BY <1>1, <1>2, Zenon DEF ZeroResource
<1> QED
  BY <1>3, <1>4, Zenon

\* A resource whose fields are all set but the port.
LEMMA FilledResource ==
    ASSUME NEW name, NEW enabled, NEW ssl, NEW fullDomain, NEW hostHeader, NEW tls, NEW headers,
           NEW rules, NEW maintenance, NEW auth, NEW target
    PROVE  Filled(ZeroResource, name, enabled, ssl, fullDomain, hostHeader, tls, headers, rules,
                  maintenance, auth, target) =
             HTTPResource(name, enabled, ssl, fullDomain, hostHeader, tls, headers, rules, maintenance,
                          auth, target)
<1> DEFINE z == ZeroResource
<1>0. z = [f \in ResourceFields |-> z[f]] /\ z.ProxyPort = 0
  BY ZeroFields
<1>1. PICK x : x = Filled(z, name, enabled, ssl, fullDomain, hostHeader, tls, headers, rules, maintenance,
                          auth, target)
  OBVIOUS
<1>2. x = [f \in ResourceFields |-> x[f]]
  BY <1>0, <1>1 DEF Filled
<1>3. DOMAIN z = ResourceFields
  BY <1>0
<1>4. /\ x.Name = name /\ x.Protocol = "http" /\ x.Enabled = enabled /\ x.SSL = ssl
      /\ x.FullDomain = fullDomain /\ x.HostHeader = hostHeader /\ x.TLSServerName = tls
      /\ x.ProxyPort = 0 /\ x.Headers = headers /\ x.Auth = auth /\ x.Maintenance = maintenance
      /\ x.Rules = rules /\ x.Targets = <<target>>
  BY <1>0, <1>1, <1>3 DEF Filled, ResourceFields
<1>5. x = HTTPResource(name, enabled, ssl, fullDomain, hostHeader, tls, headers, rules, maintenance, auth,
                       target)
  BY <1>2, <1>4 DEF HTTPResource, ResourceFields
<1> QED
  BY <1>1, <1>5

NameRead(a, n) == IF a.name \in {Absent, <<>>} THEN n ELSE a.name
EnabledRead(a) == IF a.enabled = Absent THEN Absent ELSE isTruthy(a.enabled)
TLSNameRead(a, h) == IF Trimmed(a.tlsServerName) = <<>> THEN h ELSE a.tlsServerName

\* What BuildResource fills in.
LEMMA RouteFields ==
    ASSUME NEW n, NEW h, NEW a, NEW s, NEW c
    PROVE  BuildResource(n, h, a, s, c) =
             HTTPResource(NameRead(a, n), EnabledRead(a), SSL(a, c), h, OrDefault(a.hostHeader, ""),
                          TLSNameRead(a, h), BuildHeaders(a), BuildRules(a, c), BuildMaintenance(a),
                          BuildAuth(a, s, c), BuildTargetExtras(Gateway(c), a))
<1>1. BuildResource(n, h, a, s, c) =
        Filled(ZeroResource, NameRead(a, n), EnabledRead(a), SSL(a, c), h, OrDefault(a.hostHeader, ""),
               TLSNameRead(a, h), BuildHeaders(a), BuildRules(a, c), BuildMaintenance(a),
               BuildAuth(a, s, c), BuildTargetExtras(Gateway(c), a))
  BY Zenon DEF BuildResource, Filled, Gateway, NameRead, EnabledRead, TLSNameRead
<1> QED
  BY <1>1, FilledResource, Zenon

TargetFields ==
    {"Site", "Hostname", "Port", "Method", "Enabled", "InternalPort", "Path", "PathMatch", "RewriteMatch",
     "Priority", "HealthCheck"}

Extras(z, path, pathMatch, rewriteMatch, priority, internalPort, healthCheck, enabled) ==
    [z EXCEPT !.Path = path, !.PathMatch = pathMatch, !.RewriteMatch = rewriteMatch,
              !.Priority = priority, !.InternalPort = internalPort, !.HealthCheck = healthCheck,
              !.Enabled = enabled]

\* The target that BuildResource starts from is the gateway.
LEMMA GatewayFields ==
    ASSUME NEW c
    PROVE  LET g == Gateway(c)
           IN /\ g = [f \in TargetFields |-> g[f]]
              /\ g.Site = c.SiteID /\ g.Hostname = <<c.TargetHostname>> /\ g.Port = c.TargetPort
              /\ g.Method = c.TargetMethod
<1>1. PICK zero : zero = ""
  BY Zenon
<1>2. PICK z : z = [Site |-> zero, Hostname |-> <<>>, Enabled |-> Absent, Method |-> zero, Port |-> 0,
                    InternalPort |-> 0, Path |-> zero, PathMatch |-> zero, RewriteMatch |-> zero,
                    Priority |-> 0, HealthCheck |-> Absent]
  OBVIOUS
<1>3. z = [f \in TargetFields |-> z[f]]
  BY <1>2 DEF TargetFields
<1>4. ZeroTarget = z
  BY <1>1, <1>2, Zenon DEF ZeroTarget
<1>5. PICK g : g = [z EXCEPT !.Site = c.SiteID, !.Hostname = <<c.TargetHostname>>,
                             !.Method = c.TargetMethod, !.Port = c.TargetPort]
  OBVIOUS
<1>6. g = [f \in TargetFields |-> g[f]]
  BY <1>3, <1>5
<1>7. DOMAIN z = TargetFields
  BY <1>3
<1>8. /\ g.Site = c.SiteID /\ g.Hostname = <<c.TargetHostname>> /\ g.Port = c.TargetPort
      /\ g.Method = c.TargetMethod
  BY <1>5, <1>7 DEF TargetFields
<1>9. Gateway(c) = g
  BY <1>4, <1>5, Zenon DEF Gateway
<1> QED
  BY <1>6, <1>8, <1>9, Zenon

\* A target whose fields are all set.
LEMMA FilledTarget ==
    ASSUME NEW c, NEW enabled, NEW internalPort, NEW path, NEW pathMatch, NEW rewriteMatch, NEW priority,
           NEW healthCheck
    PROVE  Extras(Gateway(c), path, pathMatch, rewriteMatch, priority, internalPort, healthCheck, enabled) =
             OneTarget(c.SiteID, <<c.TargetHostname>>, c.TargetPort, c.TargetMethod, enabled, internalPort,
                       path, pathMatch, rewriteMatch, priority, healthCheck)
<1>0. PICK z : z = Gateway(c)
  OBVIOUS
<1>1. PICK x : x = Extras(z, path, pathMatch, rewriteMatch, priority, internalPort, healthCheck, enabled)
  OBVIOUS
<1>6. /\ z = [f \in TargetFields |-> z[f]]
      /\ z.Site = c.SiteID /\ z.Hostname = <<c.TargetHostname>> /\ z.Port = c.TargetPort
      /\ z.Method = c.TargetMethod
  BY <1>0, GatewayFields, Zenon
<1>2. x = [f \in TargetFields |-> x[f]]
  BY <1>1, <1>6 DEF Extras
<1>3. DOMAIN z = TargetFields
  BY <1>6
<1>4. /\ x.Site = z.Site /\ x.Hostname = z.Hostname /\ x.Port = z.Port /\ x.Method = z.Method
      /\ x.Enabled = enabled /\ x.InternalPort = internalPort /\ x.Path = path
      /\ x.PathMatch = pathMatch /\ x.RewriteMatch = rewriteMatch /\ x.Priority = priority
      /\ x.HealthCheck = healthCheck
  BY <1>1, <1>3 DEF Extras, TargetFields
<1>5. x = OneTarget(z.Site, z.Hostname, z.Port, z.Method, enabled, internalPort, path, pathMatch,
                    rewriteMatch, priority, healthCheck)
  BY <1>2, <1>4 DEF OneTarget, TargetFields
<1> QED
  BY <1>0, <1>1, <1>5, <1>6, Zenon

\* The target that BuildResource fills in.
LEMMA RouteTarget ==
    ASSUME NEW a, NEW c
    PROVE  BuildTargetExtras(Gateway(c), a) =
             OneTarget(c.SiteID, <<c.TargetHostname>>, c.TargetPort, c.TargetMethod, Switched(a.targetEnabled),
                       InRange(a.targetInternalPort, Ports), OrDefault(a.targetPath, ""),
                       OneOf(a.targetPathMatch, {"prefix", "exact", "regex"}),
                       OneOf(a.targetRewriteMatch, {"exact", "prefix", "regex", "stripPrefix"}),
                       InRange(a.targetPriority, Priorities), UnmarshalHealthCheck(a.targetHealthcheck))
<1>1. BuildTargetExtras(Gateway(c), a) =
        Extras(Gateway(c), OrDefault(a.targetPath, ""), OneOf(a.targetPathMatch, {"prefix", "exact", "regex"}),
               OneOf(a.targetRewriteMatch, {"exact", "prefix", "regex", "stripPrefix"}),
               InRange(a.targetPriority, Priorities), InRange(a.targetInternalPort, Ports),
               UnmarshalHealthCheck(a.targetHealthcheck), Switched(a.targetEnabled))
  BY DEF BuildTargetExtras, Extras, Switched, Ports, Priorities
<1> QED
  BY <1>1, FilledTarget, Zenon

\* The annotations, one by one.
LEMMA AnnotationFields ==
    ASSUME NEW e
    PROVE  LET a == AnnotationsOf(e)
               t == e.Targets[1]
           IN /\ a.name = e.Name /\ a.enabled = Switch(e.Enabled) /\ a.ssl = Switch(e.SSL)
              /\ a.hostHeader = e.HostHeader /\ a.tlsServerName = e.TLSServerName
              /\ a.headers = e.Headers /\ a.rules = e.Rules
              /\ a.maintenanceEnabled = IF e.Maintenance = Absent THEN Absent ELSE "true"
              /\ a.targetPath = t.Path /\ a.targetPathMatch = t.PathMatch
              /\ a.targetRewriteMatch = t.RewriteMatch /\ a.targetPriority = Text(t.Priority)
              /\ a.targetInternalPort = Text(t.InternalPort) /\ a.targetHealthcheck = t.HealthCheck
              /\ a.targetEnabled = Switch(t.Enabled)
BY DEF AnnotationsOf, NoAnnotations

\* The annotations of the auth block.
LEMMA AuthAnnotations ==
    ASSUME NEW e
    PROVE  LET a == AnnotationsOf(e)
               sso == e.Auth # NoAuth /\ e.Auth.SSOEnabled
           IN /\ a.sso = Switch(sso)
              /\ a.ssoRoles = IF sso THEN e.Auth.SSORoles ELSE Absent
              /\ a.ssoUsers = IF sso THEN e.Auth.SSOUsers ELSE Absent
              /\ a.idp = IF sso THEN Text(e.Auth.AutoLoginIDP) ELSE Absent
              /\ a.whitelistUsers = IF e.Auth = NoAuth THEN Absent ELSE e.Auth.WhitelistUsers
BY DEF AnnotationsOf, NoAnnotations

\* The settings: the target's, and no defaults for the rest.
LEMMA SettingFields ==
    ASSUME NEW e
    PROVE  LET c == SettingsOf(e)
               t == e.Targets[1]
           IN /\ c.SiteID = t.Site /\ c.TargetHostname = t.Hostname[1]
              /\ c.TargetPort = t.Port /\ c.TargetMethod = t.Method
              /\ c.DenyCountries = <<>> /\ c.AuthWhitelistUsers = <<>> /\ c.AuthSSOIDP = 0
BY DEF SettingsOf, Defaults

\* A switch reads as it was written.
LEMMA SwitchReads ==
    ASSUME NEW v \in BOOLEAN
    PROVE  Switch(v) \notin {Absent, " "} /\ isTruthy(Switch(v)) = v
<1>1. v # Absent
  BY SwitchAssumption, Zenon
<1>2. CASE v = TRUE
  <2>1. Switch(v) = "true"
    BY <1>1, <1>2, Zenon DEF Switch
  <2>2. isTruthy("true") = TRUE
    BY Zenon DEF isTruthy
  <2>3. "true" \notin {Absent, " "}
    BY AbsentIsNoText
  <2> QED
    BY <1>2, <2>1, <2>2, <2>3, Zenon
<1>3. CASE v = FALSE
  <2>1. Switch(v) = "false"
    BY <1>1, <1>3, Zenon DEF Switch
  <2>2. isTruthy("false") = FALSE
    <3>1. "false" \notin {"true", "1"}
      OBVIOUS
    <3> QED
      BY <3>1 DEF isTruthy
  <2>3. "false" \notin {Absent, " "}
    BY AbsentIsNoText
  <2> QED
    BY <1>3, <2>1, <2>2, <2>3, Zenon
<1> QED
  BY <1>2, <1>3, Zenon

\* So does a number within its bounds, zero being none.
LEMMA NumberReads ==
    ASSUME NEW range \in {Ports, Priorities}, NEW n, n = 0 \/ n \in range
    PROVE  InRange(Text(n), range) = n
<1>1. Text(n) # Absent /\ Atoi(Text(n)) = n
  BY NumberAssumption, Zenon
<1> QED
  BY <1>1, Zenon DEF InRange

\* A health check's keys are those of its fields.
LEMMA HealthCheckReads ==
    ASSUME NEW hc, NEW json, json = convertHealthCheck(hc), json # Malformed
    PROVE  UnmarshalHealthCheck(json) = json
<1>1. CASE json = Absent
  BY <1>1 DEF UnmarshalHealthCheck
<1>2. CASE json # Absent
  <2>1. json = [Hostname |-> hc.hostname, Port |-> hc.port, Enabled |-> hc.enabled,
                Interval |-> hc.interval, UnhealthyInterval |-> hc.unhealthyInterval,
                Headers |-> convertHeaders(hc.headers), FollowRedirects |-> hc.followRedirects]
    BY <1>2 DEF convertHealthCheck
  <2>2. DOMAIN json = DOMAIN ZeroHealthCheck /\ json = [f \in DOMAIN json |-> json[f]]
    BY <2>1 DEF ZeroHealthCheck
  <2>3. \A f \in DOMAIN json : f \in JSONKeys[f] /\ \A key \in JSONKeys[f] : key \in DOMAIN json => key = f
    BY <2>1 DEF JSONKeys
  <2>4. ASSUME NEW f \in DOMAIN json
        PROVE  JSONKeys[f] \cap DOMAIN json # {} /\ (CHOOSE key \in JSONKeys[f] : key \in DOMAIN json) = f
    BY <2>3, Zenon
  <2> QED
    BY <1>2, <2>2, <2>4 DEF UnmarshalHealthCheck
<1> QED
  BY <1>1, <1>2

\* Nothing is lost if no item is: the rank of a position among all is itself.
LEMMA AllItems ==
    ASSUME NEW s, IsSequence(s)
    PROVE  ItemsAt(s, DOMAIN s) = s
<1>1. PICK n : n = Len(s)
  OBVIOUS
<1>2. n \in Nat /\ DOMAIN s = 1 .. n /\ s = [i \in 1 .. n |-> s[i]]
  BY <1>1 DEF IsSequence
<1>3. Cardinality(1 .. n) = n
  BY <1>2, FS_Interval
<1>4. ASSUME NEW i \in 1 .. n PROVE Cardinality({j \in 1 .. n : j <= i}) = i
  <2>1. {j \in 1 .. n : j <= i} = 1 .. i
    BY <1>2
  <2>2. i \in Int /\ i >= 1
    BY <1>2
  <2>3. Cardinality(1 .. i) = i
    BY <2>2, FS_Interval
  <2> QED
    BY <2>1, <2>3
<1> DEFINE Rank(i) == Cardinality({j \in 1 .. n : j <= i})
<1>5. ASSUME NEW m \in 1 .. n PROVE (CHOOSE i \in 1 .. n : Rank(i) = m) = m
  <2>1. \A i \in 1 .. n : Rank(i) = m <=> i = m
    BY <1>4
  <2> HIDE DEF Rank
  <2> QED
    BY <2>1
<1> DEFINE At(m) == CHOOSE i \in 1 .. n : Rank(i) = m
<1>6. ItemsAt(s, 1 .. n) = [m \in 1 .. n |-> s[At(m)]]
  BY <1>3 DEF ItemsAt
<1>7. \A m \in 1 .. n : At(m) = m
  BY <1>5
<1> HIDE DEF At
<1>8. [m \in 1 .. n |-> s[At(m)]] = [m \in 1 .. n |-> s[m]]
  BY <1>7
<1> QED
  BY <1>2, <1>6, <1>8

NotBlank(parts) == {i \in DOMAIN parts : parts[i] \notin {"", " "}}
Valid(rules) == {i \in DOMAIN rules : isValidRule(rules[i])}

\* A list without blanks reads as it was written.
LEMMA ListReads ==
    ASSUME NEW list, IsSequence(list), NoBlanks(list)
    PROVE  splitCSV(list) = list
<1>1. NotBlank(list) = DOMAIN list
  BY Zenon DEF NotBlank, NoBlanks
<1>2. splitCSV(list) = ItemsAt(list, NotBlank(list))
  BY Zenon DEF splitCSV, NotBlank
<1> QED
  BY <1>1, <1>2, AllItems

\* Rules that are valid are all kept.
LEMMA RulesRead ==
    ASSUME NEW rules, IsSequence(rules), \A i \in DOMAIN rules : isValidRule(rules[i])
    PROVE  ValidRules(rules) = rules
<1>1. Valid(rules) = DOMAIN rules
  BY DEF Valid
<1>2. ValidRules(rules) = ItemsAt(rules, Valid(rules))
  BY DEF ValidRules, Valid
<1> QED
  BY <1>1, <1>2, AllItems

\* An empty list stays empty.
LEMMA NothingReads == splitCSV(<<>>) = <<>>
<1>1. IsSequence(<<>>) /\ DOMAIN <<>> = {}
  BY DEF IsSequence, Range
<1>2. NoBlanks(<<>>)
  BY <1>1, Zenon DEF NoBlanks
<1> QED
  BY <1>1, <1>2, ListReads

\* The rules of an entry.
LEMMA SameRules ==
    ASSUME NEW a, NEW c, IsSequence(a.rules), a.rules \notin {Absent, Malformed}, c.DenyCountries = <<>>,
           \A i \in DOMAIN a.rules : isValidRule(a.rules[i])
    PROVE  BuildRules(a, c) = a.rules
<1>1. buildDenyRules(c) = <<>>
  <2>1. splitCSV(c.DenyCountries) = <<>>
    BY NothingReads
  <2> QED
    BY <2>1 DEF buildDenyRules
<1>2. PICK rules : rules = a.rules
  OBVIOUS
<1>3. rules \o <<>> = rules
  BY <1>2 DEF IsSequence
<1>4. BuildRules(a, c) = rules \o <<>>
  BY <1>1, <1>2, RulesRead DEF BuildRules
<1> QED
  BY <1>2, <1>3, <1>4

\* The Secret holds no credential.
NoCredential(s) == Pincode(s) = 0 /\ Password(s) = "" /\ BasicAuth(s) = <<>>

AllZero(block, s) ==
    /\ ~block.SSOEnabled /\ block.SSORoles = <<>> /\ block.SSOUsers = <<>>
    /\ block.WhitelistUsers = <<>> /\ block.AutoLoginIDP = 0 /\ NoCredential(s)

\* What buildAuth drops, and what it keeps.
LEMMA NothingDropped ==
    ASSUME NEW auth, NEW s, auth = Absent => s = NoSecret, auth # Absent => authBlock(auth, s) # NoAuth
    PROVE  /\ buildAuth(auth, s) = NoAuth => NoCredential(s)
           /\ buildAuth(auth, s) # NoAuth => auth # Absent /\ buildAuth(auth, s) = authBlock(auth, s)
           /\ buildAuth(auth, s) # NoAuth => ~AllZero(buildAuth(auth, s), s)
<1>1. CASE auth = Absent
  <2>1. buildAuth(auth, s) = NoAuth /\ s = NoSecret
    BY <1>1, Zenon DEF buildAuth
  <2>2. NoCredential(NoSecret)
    BY Zenon DEF NoCredential, Pincode, Password, BasicAuth
  <2> QED
    BY <2>1, <2>2, Zenon
<1>2. CASE auth # Absent
  <2>1. PICK block : block = authBlock(auth, s)
    OBVIOUS
  <2>2. block.Pincode = Pincode(s) /\ block.Password = Password(s) /\ block.BasicAuth = BasicAuth(s)
    BY <2>1 DEF authBlock
  <2>3. buildAuth(auth, s) =
          IF /\ ~block.SSOEnabled /\ block.SSORoles = <<>> /\ block.SSOUsers = <<>>
             /\ block.WhitelistUsers = <<>> /\ block.AutoLoginIDP = 0
             /\ block.Pincode = 0 /\ block.Password = "" /\ block.BasicAuth = <<>>
          THEN NoAuth ELSE block
    BY <1>2, <2>1, Zenon DEF buildAuth
  <2>4. block # NoAuth
    BY <1>2, <2>1
  <2>5. buildAuth(auth, s) = NoAuth => NoCredential(s)
    BY <2>2, <2>3, <2>4, Zenon DEF NoCredential
  <2>6. buildAuth(auth, s) # NoAuth => ~AllZero(buildAuth(auth, s), s)
    BY <2>2, <2>3, <2>4, Zenon DEF AllZero, NoCredential
  <2>7. buildAuth(auth, s) # NoAuth => buildAuth(auth, s) = authBlock(auth, s)
    BY <2>1, <2>3, Zenon
  <2> QED
    BY <1>2, <2>5, <2>6, <2>7, Zenon
<1> QED
  BY <1>1, <1>2, Zenon

\* What BuildAuth reads.
LEMMA NoAuthReads ==
    ASSUME NEW e, NEW s, e.Auth = NoAuth, NoCredential(s)
    PROVE  BuildAuth(AnnotationsOf(e), s, SettingsOf(e)) = NoAuth
<1>1. PICK a, c : a = AnnotationsOf(e) /\ c = SettingsOf(e)
  OBVIOUS
<1>2. a.sso = Switch(FALSE) /\ a.whitelistUsers = Absent /\ c.AuthWhitelistUsers = <<>>
  <2>1. a.sso = Switch(e.Auth # NoAuth /\ e.Auth.SSOEnabled)
    BY <1>1, AuthAnnotations, Zenon
  <2>2. (e.Auth # NoAuth /\ e.Auth.SSOEnabled) = FALSE
    BY Zenon
  <2>3. a.sso = Switch(FALSE)
    BY <2>1, <2>2, Zenon
  <2>4. a.whitelistUsers = IF e.Auth = NoAuth THEN Absent ELSE e.Auth.WhitelistUsers
    BY <1>1, AuthAnnotations, Zenon
  <2>5. c.AuthWhitelistUsers = <<>>
    BY <1>1, SettingFields, Zenon
  <2> QED
    BY <2>3, <2>4, <2>5, Zenon
<1>3. ~ssoEnabled(a)
  <2>1. isTruthy(Switch(FALSE)) = FALSE
    BY SwitchReads, Zenon
  <2> QED
    BY <1>2, <2>1, Zenon DEF ssoEnabled
<1>4. WhitelistUsers(a, c) = <<>>
  BY <1>2, NothingReads, Zenon DEF WhitelistUsers, OrDefault
<1>5. BuildAuth(a, s, c) = NoAuth
  BY <1>3, <1>4, Zenon DEF BuildAuth, NoCredential
<1> QED
  BY <1>1, <1>5, Zenon

\* SSO is asked for just if the block has it.
LEMMA SSOReads ==
    ASSUME NEW e, e.Auth # NoAuth, TypedBlock(e.Auth)
    PROVE  ssoEnabled(AnnotationsOf(e)) = e.Auth.SSOEnabled
<1>1. PICK on \in BOOLEAN : on = e.Auth.SSOEnabled
  BY Zenon DEF TypedBlock
<1>2. (e.Auth # NoAuth /\ e.Auth.SSOEnabled) = on
  BY <1>1, Zenon
<1>3. AnnotationsOf(e).sso = Switch(e.Auth # NoAuth /\ e.Auth.SSOEnabled)
  BY AuthAnnotations, Zenon
<1>4. AnnotationsOf(e).sso = Switch(on)
  BY <1>2, <1>3, Zenon
<1> QED
  BY <1>1, <1>4, SwitchReads, Zenon DEF ssoEnabled

\* The IdP reads as it was written; zero is none.
LEMMA IDPReads ==
    ASSUME NEW e, e.Auth # NoAuth, TypedBlock(e.Auth), ExpressibleBlock(e.Auth)
    PROVE  IDP(AnnotationsOf(e), SettingsOf(e)) = e.Auth.AutoLoginIDP
<1>1. PICK a, c, idp : a = AnnotationsOf(e) /\ c = SettingsOf(e) /\ idp = e.Auth.AutoLoginIDP
  OBVIOUS
<1>2. a.idp = IF e.Auth # NoAuth /\ e.Auth.SSOEnabled THEN Text(idp) ELSE Absent
  BY <1>1, AuthAnnotations, Zenon
<1>3. c.AuthSSOIDP = 0
  BY <1>1, SettingFields, Zenon
<1>4. ssoEnabled(a) = e.Auth.SSOEnabled
  BY <1>1, SSOReads, Zenon
<1>5. CASE e.Auth.SSOEnabled = TRUE
  <2>1. idp \in Int /\ idp # NotANumber /\ idp >= 0 /\ Text(idp) # Absent /\ Atoi(Text(idp)) = idp
    <3>1. e.Auth.AutoLoginIDP >= 0
      BY <1>5, Zenon DEF ExpressibleBlock
    <3> QED
      BY <1>1, <3>1, Zenon DEF TypedBlock
  <2>2. a.idp = Text(idp)
    BY <1>2, <1>5, Zenon
  <2>3. IDP(a, c) = IF idp > 0 THEN idp ELSE 0
    BY <1>3, <1>4, <1>5, <2>1, <2>2, Zenon DEF IDP
  <2>4. IDP(a, c) = idp
    BY <2>1, <2>3
  <2> QED
    BY <1>1, <2>4, Zenon
<1>6. CASE e.Auth.SSOEnabled = FALSE
  <2>1. idp = 0
    BY <1>1, <1>6, Zenon DEF ExpressibleBlock
  <2>2. IDP(a, c) = 0
    BY <1>4, <1>6, Zenon DEF IDP
  <2> QED
    BY <1>1, <2>1, <2>2, Zenon
<1> QED
  BY <1>5, <1>6, Zenon DEF TypedBlock

WithSSO(a, list) == IF ssoEnabled(a) THEN list ELSE Absent

\* A list that is asked for only with SSO.
LEMMA SSOListReads ==
    ASSUME NEW a, NEW list, IsSequence(list), NoBlanks(list), list # Absent, ssoEnabled(a) \/ list = <<>>,
           NEW default
    PROVE  SSOPart(a, WithSSO(a, list), default) = list
<1>1. splitCSV(list) = list
  BY ListReads
<1> QED
  BY <1>1, Zenon DEF SSOPart, OrDefault, WithSSO

\* A block reads as it was written.
LEMMA BlockReads ==
    ASSUME NEW e, NEW auth, NEW s, e.Auth # NoAuth, e.Auth = authBlock(auth, s), TypedBlock(e.Auth),
           ExpressibleBlock(e.Auth), ~AllZero(e.Auth, s)
    PROVE  BuildAuth(AnnotationsOf(e), s, SettingsOf(e)) = e.Auth
<1>1. PICK a, c, b : a = AnnotationsOf(e) /\ c = SettingsOf(e) /\ b = e.Auth
  OBVIOUS
<1>2. PICK on \in BOOLEAN : on = b.SSOEnabled
  BY <1>1, Zenon DEF TypedBlock
<1>3. ssoEnabled(a) = on
  BY <1>1, <1>2, SSOReads, Zenon
<1>4. /\ IsSequence(b.SSORoles) /\ b.SSORoles # Absent /\ IsSequence(b.SSOUsers) /\ b.SSOUsers # Absent
      /\ IsSequence(b.WhitelistUsers) /\ b.WhitelistUsers # Absent
  BY <1>1, Zenon DEF TypedBlock
<1>5. /\ NoBlanks(b.SSORoles) /\ NoBlanks(b.SSOUsers) /\ NoBlanks(b.WhitelistUsers)
      /\ on = FALSE => b.SSORoles = <<>> /\ b.SSOUsers = <<>> /\ b.AutoLoginIDP = 0
  BY <1>1, <1>2, Zenon DEF ExpressibleBlock
<1>6. /\ a.ssoRoles = IF on THEN b.SSORoles ELSE Absent
      /\ a.ssoUsers = IF on THEN b.SSOUsers ELSE Absent
      /\ a.whitelistUsers = b.WhitelistUsers
  <2>1. /\ a.ssoRoles = IF e.Auth # NoAuth /\ e.Auth.SSOEnabled THEN e.Auth.SSORoles ELSE Absent
        /\ a.ssoUsers = IF e.Auth # NoAuth /\ e.Auth.SSOEnabled THEN e.Auth.SSOUsers ELSE Absent
        /\ a.whitelistUsers = IF e.Auth = NoAuth THEN Absent ELSE e.Auth.WhitelistUsers
    BY <1>1, AuthAnnotations, Zenon
  <2> QED
    BY <1>1, <1>2, <2>1, Zenon
<1>7. SSOPart(a, a.ssoRoles, c.AuthSSORoles) = b.SSORoles
  <2>1. ssoEnabled(a) \/ b.SSORoles = <<>>
    BY <1>3, <1>5, Zenon
  <2>2. a.ssoRoles = WithSSO(a, b.SSORoles)
    BY <1>3, <1>6, Zenon DEF WithSSO
  <2>3. SSOPart(a, WithSSO(a, b.SSORoles), c.AuthSSORoles) = b.SSORoles
    BY <1>4, <1>5, <2>1, SSOListReads
  <2> QED
    BY <2>2, <2>3, Zenon
<1>8. SSOPart(a, a.ssoUsers, c.AuthSSOUsers) = b.SSOUsers
  <2>1. ssoEnabled(a) \/ b.SSOUsers = <<>>
    BY <1>3, <1>5, Zenon
  <2>2. a.ssoUsers = WithSSO(a, b.SSOUsers)
    BY <1>3, <1>6, Zenon DEF WithSSO
  <2>3. SSOPart(a, WithSSO(a, b.SSOUsers), c.AuthSSOUsers) = b.SSOUsers
    BY <1>4, <1>5, <2>1, SSOListReads
  <2> QED
    BY <2>2, <2>3, Zenon
<1>9. WhitelistUsers(a, c) = b.WhitelistUsers
  BY <1>4, <1>5, <1>6, ListReads, Zenon DEF WhitelistUsers, OrDefault
<1>10. IDP(a, c) = b.AutoLoginIDP
  BY <1>1, IDPReads, Zenon
<1>11. ~(~on /\ b.WhitelistUsers = <<>> /\ NoCredential(s))
  BY <1>1, <1>2, <1>5, Zenon DEF AllZero
<1>12. b = [Pincode |-> Pincode(s), Password |-> Password(s), BasicAuth |-> BasicAuth(s),
            SSOEnabled |-> on, SSORoles |-> b.SSORoles, SSOUsers |-> b.SSOUsers,
            WhitelistUsers |-> b.WhitelistUsers, AutoLoginIDP |-> b.AutoLoginIDP]
  <2>1. b = authBlock(auth, s)
    BY <1>1
  <2> QED
    BY <1>2, <2>1 DEF authBlock
<1>13. BuildAuth(a, s, c) =
         [Pincode |-> Pincode(s), Password |-> Password(s), BasicAuth |-> BasicAuth(s),
          SSOEnabled |-> on, SSORoles |-> b.SSORoles, SSOUsers |-> b.SSOUsers,
          WhitelistUsers |-> b.WhitelistUsers, AutoLoginIDP |-> b.AutoLoginIDP]
  BY <1>3, <1>7, <1>8, <1>9, <1>10, <1>11, Zenon DEF BuildAuth, NoCredential
<1> QED
  BY <1>1, <1>12, <1>13, Zenon

PathMatches == {"prefix", "exact", "regex"}
RewriteMatches == {"exact", "prefix", "regex", "stripPrefix"}

\* A target that the annotations and the settings can ask for.
Readable(t) ==
    /\ t = OneTarget(t.Site, t.Hostname, t.Port, t.Method, t.Enabled, t.InternalPort, t.Path, t.PathMatch,
                     t.RewriteMatch, t.Priority, t.HealthCheck)
    /\ t.Hostname = <<t.Hostname[1]>> /\ t.Enabled \in BOOLEAN /\ t.Path # Absent
    /\ t.InternalPort = 0 \/ t.InternalPort \in Ports
    /\ t.Priority = 0 \/ t.Priority \in Priorities
    /\ OneOf(t.PathMatch, PathMatches) = t.PathMatch
    /\ OneOf(t.RewriteMatch, RewriteMatches) = t.RewriteMatch
    /\ UnmarshalHealthCheck(t.HealthCheck) = t.HealthCheck

\* The target of an entry.
LEMMA SameTarget ==
    ASSUME NEW e, Readable(e.Targets[1])
    PROVE  BuildTargetExtras(Gateway(SettingsOf(e)), AnnotationsOf(e)) = e.Targets[1]
<1>1. PICK a, c, t : a = AnnotationsOf(e) /\ c = SettingsOf(e) /\ t = e.Targets[1]
  OBVIOUS
<1>2. Readable(t)
  BY <1>1
<1>3. /\ a.targetPath = t.Path /\ a.targetPathMatch = t.PathMatch
      /\ a.targetRewriteMatch = t.RewriteMatch /\ a.targetPriority = Text(t.Priority)
      /\ a.targetInternalPort = Text(t.InternalPort) /\ a.targetHealthcheck = t.HealthCheck
      /\ a.targetEnabled = Switch(t.Enabled)
  BY <1>1, AnnotationFields, Zenon
<1>4. /\ c.SiteID = t.Site /\ c.TargetHostname = t.Hostname[1]
      /\ c.TargetPort = t.Port /\ c.TargetMethod = t.Method
  BY <1>1, SettingFields, Zenon
<1>5. Switched(a.targetEnabled) = t.Enabled
  <2>1. Switch(t.Enabled) \notin {Absent, " "} /\ isTruthy(Switch(t.Enabled)) = t.Enabled
    BY <1>2, SwitchReads, Zenon DEF Readable
  <2> QED
    BY <1>3, <2>1, Zenon DEF Switched
<1>6. InRange(a.targetInternalPort, Ports) = t.InternalPort
  BY <1>2, <1>3, NumberReads, Zenon DEF Readable
<1>7. InRange(a.targetPriority, Priorities) = t.Priority
  BY <1>2, <1>3, NumberReads, Zenon DEF Readable
<1>8. OrDefault(a.targetPath, "") = t.Path
  BY <1>2, <1>3, Zenon DEF Readable, OrDefault
<1>9. BuildTargetExtras(Gateway(c), a) =
        OneTarget(c.SiteID, <<c.TargetHostname>>, c.TargetPort, c.TargetMethod, Switched(a.targetEnabled),
                  InRange(a.targetInternalPort, Ports), OrDefault(a.targetPath, ""),
                  OneOf(a.targetPathMatch, PathMatches), OneOf(a.targetRewriteMatch, RewriteMatches),
                  InRange(a.targetPriority, Priorities), UnmarshalHealthCheck(a.targetHealthcheck))
  BY RouteTarget, Zenon DEF PathMatches, RewriteMatches
<1>10. BuildTargetExtras(Gateway(c), a) =
         OneTarget(t.Site, <<t.Hostname[1]>>, t.Port, t.Method, t.Enabled, t.InternalPort, t.Path,
                   OneOf(t.PathMatch, PathMatches), OneOf(t.RewriteMatch, RewriteMatches), t.Priority,
                   UnmarshalHealthCheck(t.HealthCheck))
  BY <1>3, <1>4, <1>5, <1>6, <1>7, <1>8, <1>9, Zenon
<1>11. BuildTargetExtras(Gateway(c), a) = t
  BY <1>2, <1>10, Zenon DEF Readable
<1> QED
  BY <1>1, <1>11, Zenon

\* An admitted target is.
LEMMA AdmittedIsReadable ==
    ASSUME NEW given, AdmittedTarget(given), NEW siteID, NEW t,
           LET d == DecodedTarget(given)
           IN t = [Site |-> siteID, Hostname |-> d.hostname, Port |-> d.port, Method |-> d.method,
                   Enabled |-> d.enabled, InternalPort |-> d.internalPort, Path |-> d.path,
                   PathMatch |-> d.pathMatch, RewriteMatch |-> d.rewriteMatch, Priority |-> d.priority,
                   HealthCheck |-> convertHealthCheck(d.healthcheck)],
           IsSequence(t.Hostname), Len(t.Hostname) = 1, t.Path # Absent, t.HealthCheck # Malformed
    PROVE  Readable(t)
<1>1. PICK d : d = DecodedTarget(given)
  OBVIOUS
<1>2. t = [Site |-> siteID, Hostname |-> d.hostname, Port |-> d.port, Method |-> d.method,
           Enabled |-> d.enabled, InternalPort |-> d.internalPort, Path |-> d.path,
           PathMatch |-> d.pathMatch, RewriteMatch |-> d.rewriteMatch, Priority |-> d.priority,
           HealthCheck |-> convertHealthCheck(d.healthcheck)]
  BY <1>1, Zenon
<1>3. /\ t.Enabled = d.enabled /\ t.InternalPort = d.internalPort /\ t.PathMatch = d.pathMatch
      /\ t.RewriteMatch = d.rewriteMatch /\ t.Priority = d.priority
      /\ t.HealthCheck = convertHealthCheck(d.healthcheck)
  BY <1>2
<1>4. t = OneTarget(t.Site, t.Hostname, t.Port, t.Method, t.Enabled, t.InternalPort, t.Path, t.PathMatch,
                    t.RewriteMatch, t.Priority, t.HealthCheck)
  BY <1>2 DEF OneTarget
<1>5. t.Hostname = <<t.Hostname[1]>>
  BY DEF IsSequence
<1>6. UnmarshalHealthCheck(t.HealthCheck) = t.HealthCheck
  BY <1>3, HealthCheckReads
<1>7. PICK zero, g :
          /\ zero = ""
          /\ g = Decoded(given, [method |-> zero, enabled |-> TRUE, internalPort |-> 0, path |-> zero,
                                 pathMatch |-> zero, rewriteMatch |-> zero, priority |-> 0,
                                 healthcheck |-> Absent])
  BY Zenon
<1>8. d = [g EXCEPT !.healthcheck = IF @ = Absent THEN Absent ELSE DecodedHealthCheck(@)]
  BY <1>1, <1>7, Zenon DEF DecodedTarget
<1>9. {"enabled", "internalPort", "pathMatch", "rewriteMatch", "priority"} \subseteq DOMAIN g
  BY <1>7 DEF Decoded
<1>10. /\ d.enabled = g.enabled /\ d.internalPort = g.internalPort /\ d.pathMatch = g.pathMatch
       /\ d.rewriteMatch = g.rewriteMatch /\ d.priority = g.priority
  BY <1>8, <1>9
<1>11. d.enabled \in BOOLEAN
  BY <1>1, TargetsAreValid, Zenon
<1>12. d.internalPort = 0 \/ d.internalPort \in Ports
  <2>1. "internalPort" \in DOMAIN given => g.internalPort = given.internalPort /\ given.internalPort \in Ports
    BY <1>7, Zenon DEF Decoded, AdmittedTarget, Allows
  <2>2. "internalPort" \notin DOMAIN given => g.internalPort = 0
    BY <1>7 DEF Decoded
  <2> QED
    BY <1>10, <2>1, <2>2, Zenon
<1>13. d.priority = 0 \/ d.priority \in Priorities
  <2>1. "priority" \in DOMAIN given => g.priority = given.priority /\ given.priority \in Priorities
    BY <1>7, Zenon DEF Decoded, AdmittedTarget, Allows
  <2>2. "priority" \notin DOMAIN given => g.priority = 0
    BY <1>7 DEF Decoded
  <2> QED
    BY <1>10, <2>1, <2>2, Zenon
<1>14. OneOf(d.pathMatch, PathMatches) = d.pathMatch
  <2>1. "pathMatch" \in DOMAIN given => g.pathMatch = given.pathMatch /\ given.pathMatch \in PathMatches
    BY <1>7, Zenon DEF Decoded, AdmittedTarget, Allows, PathMatches
  <2>2. "pathMatch" \notin DOMAIN given => g.pathMatch = zero
    BY <1>7 DEF Decoded
  <2> QED
    BY <1>7, <1>10, <2>1, <2>2, Zenon DEF OneOf
<1>15. OneOf(d.rewriteMatch, RewriteMatches) = d.rewriteMatch
  <2>1. "rewriteMatch" \in DOMAIN given =>
          g.rewriteMatch = given.rewriteMatch /\ given.rewriteMatch \in RewriteMatches
    BY <1>7, Zenon DEF Decoded, AdmittedTarget, Allows, RewriteMatches
  <2>2. "rewriteMatch" \notin DOMAIN given => g.rewriteMatch = zero
    BY <1>7 DEF Decoded
  <2> QED
    BY <1>7, <1>10, <2>1, <2>2, Zenon DEF OneOf
<1> QED
  BY <1>3, <1>4, <1>5, <1>6, <1>11, <1>12, <1>13, <1>14, <1>15, Zenon DEF Readable

\* The name is given.
LEMMA NameIsGiven ==
    ASSUME NEW spec, AdmittedPublic(spec)
    PROVE  DecodedPublic(spec).name # <<>>
<1>1. PICK zero, on : zero = "" /\ on = TRUE
  BY Zenon
<1>2. PICK g : g = Decoded(spec, [fullDomain |-> <<>>, proxyPort |-> 0, enabled |-> Absent, ssl |-> on,
                                  hostHeader |-> zero, tlsServerName |-> <<>>, headers |-> <<>>,
                                  auth |-> Absent, maintenance |-> Absent, rules |-> <<>>])
  OBVIOUS
<1>3. "name" \in DOMAIN spec /\ spec.name # <<>>
  BY DEF AdmittedPublic, Requires
<1>4. "name" \in DOMAIN g /\ g.name = spec.name
  BY <1>2, <1>3 DEF Decoded
<1>5. DecodedPublic(spec) = [g EXCEPT !.auth = IF @ = Absent THEN Absent ELSE DecodedAuth(@),
                                      !.rules = [i \in DOMAIN @ |-> DecodedRule(@[i])],
                                      !.targets = [i \in DOMAIN @ |-> DecodedTarget(@[i])]]
  BY <1>1, <1>2, Zenon DEF DecodedPublic
<1>6. DecodedPublic(spec).name = g.name
  BY <1>4, <1>5
<1> QED
  BY <1>3, <1>4, <1>6

\* What a CR publishes is what an HTTPRoute gets whose annotations ask for it, where
\* the cluster-wide settings have their defaults.
THEOREM PathsAgree == Spec => []BothPathsAgree
<1>1. ASSUME DoneInv, public, Expressible(entry), OnlyWellFormedIsPublished
      PROVE  entry = BuildResource(<<"route">>, entry.FullDomain, AnnotationsOf(entry),
                                   resolveAuthSecret(DecodedPublic(input.spec), secret), SettingsOf(entry))
  <2>1. PublicDone
    BY <1>1 DEF DoneInv, public, PrivateDone
  <2>2. PICK e, d, s : e = entry /\ d = DecodedPublic(input.spec) /\ s = resolveAuthSecret(d, secret)
    BY Zenon
  <2>3. e = buildResource(d, s, SiteID) /\ AdmittedPublic(input.spec) /\ validate(d)
    BY <2>1, <2>2, Zenon DEF PublicDone
  <2>4. Typed(e)
    BY <1>1, <2>1, <2>2, ValueAssumption DEF DoneInv, PublicDone, secret
  <2>5. Expressible(e)
    BY <1>1, <2>2, Zenon
  <2>6. /\ e.Protocol = "http" /\ e.ProxyPort = 0 /\ e.TLSServerName # <<" ">> /\ Len(e.Targets) = 1
        /\ e.Maintenance \in {Absent, [Enabled |-> TRUE]}
    BY <2>5, Zenon DEF Expressible
  <2>7. PICK t : t = e.Targets[1]
    OBVIOUS
  <2>8. e.Targets = <<t>> /\ DOMAIN e.Targets = {1}
    <3>1. IsSequence(e.Targets)
      BY <2>4, Zenon DEF Typed
    <3>2. PICK ts : ts = e.Targets
      OBVIOUS
    <3>3. ts \in Seq(Range(ts)) /\ Len(ts) = 1 /\ t = ts[1]
      BY <2>6, <2>7, <3>1, <3>2, Zenon DEF IsSequence
    <3>4. DOMAIN ts = 1 .. 1
      BY <3>3
    <3>5. ts = <<t>>
      BY <3>3
    <3> QED
      BY <3>2, <3>4, <3>5
  <2>9. e = HTTPResource(e.Name, e.Enabled, e.SSL, e.FullDomain, e.HostHeader, e.TLSServerName, e.Headers,
                         e.Rules, e.Maintenance, e.Auth, t)
    BY <2>3, <2>6, <2>8 DEF buildResource, HTTPResource
  <2>10. PICK a, c : a = AnnotationsOf(e) /\ c = SettingsOf(e)
    OBVIOUS
  <2>11. /\ a.name = e.Name /\ a.enabled = Switch(e.Enabled) /\ a.ssl = Switch(e.SSL)
         /\ a.hostHeader = e.HostHeader /\ a.tlsServerName = e.TLSServerName
         /\ a.headers = e.Headers /\ a.rules = e.Rules
         /\ a.maintenanceEnabled = IF e.Maintenance = Absent THEN Absent ELSE "true"
    BY <2>10, AnnotationFields, Zenon
  <2>12. {e.Name, e.HostHeader, e.TLSServerName, e.Headers, e.Rules} \cap {Absent, Malformed} = {}
    BY <2>4, Zenon DEF Typed
  <2>13. NameRead(a, <<"route">>) = e.Name
    <3>1. e.Name # <<>>
      <4>1. e.Name = d.name
        BY <2>3 DEF buildResource
      <4> QED
        BY <2>2, <2>3, <4>1, NameIsGiven, Zenon
    <3>2. a.name \notin {Absent, <<>>}
      BY <2>11, <2>12, <3>1, Zenon
    <3> QED
      BY <2>11, <3>2, Zenon DEF NameRead
  <2>14. EnabledRead(a) = e.Enabled
    <3>1. CASE e.Enabled = Absent
      BY <2>11, <3>1, Zenon DEF EnabledRead, Switch
    <3>2. CASE e.Enabled \in BOOLEAN
      <4>1. Switch(e.Enabled) \notin {Absent, " "} /\ isTruthy(Switch(e.Enabled)) = e.Enabled
        BY <3>2, SwitchReads, Zenon
      <4> QED
        BY <2>11, <4>1, Zenon DEF EnabledRead
    <3> QED
      BY <2>4, <3>1, <3>2, Zenon DEF Typed
  <2>15. SSL(a, c) = e.SSL
    <3>1. e.SSL \in BOOLEAN
      BY <2>4, Zenon DEF Typed
    <3>2. Switch(e.SSL) \notin {Absent, " "} /\ isTruthy(Switch(e.SSL)) = e.SSL
      BY <3>1, SwitchReads, Zenon
    <3> QED
      BY <2>11, <3>2, Zenon DEF SSL
  <2>16. OrDefault(a.hostHeader, "") = e.HostHeader
    BY <2>11, <2>12, Zenon DEF OrDefault
  <2>17. TLSNameRead(a, e.FullDomain) = e.TLSServerName
    <3>1. e.TLSServerName # <<>>
      BY <1>1, <2>2, <2>6, Zenon DEF OnlyWellFormedIsPublished
    <3>2. e.TLSServerName \notin {Absent, <<" ">>}
      BY <2>6, <2>12, Zenon
    <3> QED
      BY <2>11, <3>1, <3>2, Zenon DEF TLSNameRead, Trimmed
  <2>18. BuildHeaders(a) = e.Headers
    BY <2>11, <2>12, Zenon DEF BuildHeaders
  <2>19. BuildRules(a, c) = e.Rules
    <3>1. IsSequence(a.rules) /\ a.rules \notin {Absent, Malformed}
      BY <2>4, <2>11, <2>12, Zenon DEF Typed
    <3>2. \A i \in DOMAIN a.rules : isValidRule(a.rules[i])
      BY <1>1, <2>2, <2>11, Zenon DEF OnlyWellFormedIsPublished
    <3>3. c.DenyCountries = <<>>
      BY <2>10, SettingFields, Zenon
    <3>4. BuildRules(a, c) = a.rules
      BY <3>1, <3>2, <3>3, SameRules
    <3> QED
      BY <2>11, <3>4, Zenon
  <2>20. BuildMaintenance(a) = e.Maintenance
    <3>1. CASE e.Maintenance = Absent
      <4>1. ~isTruthy(Absent)
        BY AbsentIsNoText DEF isTruthy
      <4> QED
        BY <2>11, <3>1, <4>1, Zenon DEF BuildMaintenance
    <3>2. CASE e.Maintenance # Absent
      <4>1. isTruthy("true")
        BY DEF isTruthy
      <4> QED
        BY <2>6, <2>11, <3>2, <4>1, Zenon DEF BuildMaintenance
    <3> QED
      BY <3>1, <3>2
  <2>21. BuildAuth(a, s, c) = e.Auth
    <3>1. e.Auth = buildAuth(d.auth, s)
      BY <2>3 DEF buildResource
    <3>2. d.auth = Absent => s = NoSecret
      BY <2>2, Zenon DEF resolveAuthSecret
    <3>3. d.auth # Absent => authBlock(d.auth, s) # NoAuth
      <4>1. d.auth # Absent => "auth" \in DOMAIN input.spec /\ d.auth = DecodedAuth(input.spec.auth)
        BY <2>2, <2>3, DecodedSpec
      <4>2. s \in {input.secret, NoSecret}
        BY <2>2, Zenon DEF resolveAuthSecret, secret
      <4> QED
        BY <1>1, <2>1, <4>1, <4>2, InputAssumption DEF DoneInv, PublicDone
    <3>4. CASE e.Auth = NoAuth
      <4>1. NoCredential(s)
        BY <3>1, <3>2, <3>3, <3>4, NothingDropped, Zenon
      <4> QED
        BY <2>10, <3>4, <4>1, NoAuthReads, Zenon
    <3>5. CASE e.Auth # NoAuth
      <4>1. e.Auth = authBlock(d.auth, s) /\ ~AllZero(e.Auth, s)
        BY <3>1, <3>2, <3>3, <3>5, NothingDropped, Zenon
      <4>2. TypedBlock(e.Auth) /\ ExpressibleBlock(e.Auth)
        BY <2>4, <2>5, <3>5, Zenon DEF Typed, Expressible
      <4> QED
        BY <2>10, <3>5, <4>1, <4>2, BlockReads, Zenon
    <3> QED
      BY <3>4, <3>5
  <2>22. BuildTargetExtras(Gateway(c), a) = t
    <3>1. PICK ts, given : ts = input.spec.targets /\ given = ts[1]
      BY Zenon
    <3>2. e.Targets = convertTargets(d.targets, SiteID)
      BY <2>3 DEF buildResource
    <3>3. d.targets = [i \in DOMAIN ts |-> DecodedTarget(ts[i])]
      <4>1. DecodedPublic(input.spec).targets =
              [i \in DOMAIN input.spec.targets |-> DecodedTarget(input.spec.targets[i])]
        BY <2>3, DecodedSpec
      <4> QED
        BY <2>2, <3>1, <4>1, Zenon
    <3>4. 1 \in DOMAIN d.targets /\ 1 \in DOMAIN ts /\ d.targets[1] = DecodedTarget(given)
      BY <2>8, <3>1, <3>2, <3>3 DEF convertTargets
    <3>5. AdmittedTarget(given)
      BY <2>3, <3>1, <3>4 DEF AdmittedPublic, Items, Requires
    <3>6. PICK dt : dt = DecodedTarget(given)
      OBVIOUS
    <3>7. t = [Site |-> SiteID, Hostname |-> dt.hostname, Port |-> dt.port, Method |-> dt.method,
               Enabled |-> dt.enabled, InternalPort |-> dt.internalPort, Path |-> dt.path,
               PathMatch |-> dt.pathMatch, RewriteMatch |-> dt.rewriteMatch, Priority |-> dt.priority,
               HealthCheck |-> convertHealthCheck(dt.healthcheck)]
      BY <2>7, <3>2, <3>4, <3>6 DEF convertTargets
    <3>8. IsSequence(t.Hostname) /\ Len(t.Hostname) = 1 /\ t.Path # Absent /\ t.HealthCheck # Malformed
      <4>1. 1 \in DOMAIN e.Targets
        BY <2>8
      <4> QED
        BY <2>4, <2>7, <4>1, Zenon DEF Typed
    <3>9. Readable(t)
      BY <3>5, <3>6, <3>7, <3>8, AdmittedIsReadable, Zenon
    <3> QED
      BY <2>7, <2>10, <3>9, SameTarget, Zenon
  <2>23. BuildResource(<<"route">>, e.FullDomain, a, s, c) = e
    BY <2>9, <2>13, <2>14, <2>15, <2>16, <2>17, <2>18, <2>19, <2>20, <2>21, <2>22, RouteFields, Zenon
  <2> QED
    BY <2>2, <2>10, <2>23, Zenon
<1>2. DoneInv /\ OnlyWellFormedIsPublished => BothPathsAgree
  BY <1>1, Zenon DEF BothPathsAgree
<1> QED
  BY <1>2, Reconciled, PublishedIsWellFormed, PTL
===============================================================================
