------------------------------ MODULE Blueprint ------------------------------
(***************************************************************************)
(* internal/blueprint: from annotations, a Secret's data and the settings  *)
(* to entries of the blueprint.                                            *)
(*                                                                         *)
(* A record of annotations has a field per annotation, Absent if it is not *)
(* set; the data of a Secret likewise. A host name, an object's name and a *)
(* key are sequences of tokens (labels, "-" and "."), and a JSON value is  *)
(* what it decodes to, or Malformed; that of a health check is the record  *)
(* of its keys, as their names differ from the fields'.                    *)
(***************************************************************************)
EXTENDS Config

CONSTANTS
    NoSecret, \* secretData is nil
    NoAuth    \* a nil *Auth

\* What is not given has no text, in particular not one of these.
ASSUME AbsentIsNoText ==
    Absent \notin {"prefix", "exact", "regex", "stripPrefix", "1", "t", "T", "true", "TRUE", "True", "false"}

\* The annotations the builders read; the rewrite path, which is passed through
\* like the path, is left out.
NoAnnotations ==
    [f \in {"enabled", "name", "ssl", "hostHeader", "tlsServerName", "headers", "maintenanceEnabled",
            "rules", "targetPath", "targetPathMatch", "targetRewriteMatch", "targetPriority",
            "targetInternalPort", "targetHealthcheck", "targetEnabled",
            "sso", "ssoRoles", "ssoUsers", "idp", "whitelistUsers", "secret",
            "fullDomain", "allPorts", "port", "protocol", "method"} |-> Absent]

\* A Target and a Resource with nothing set: a zero value is not written.
ZeroTarget ==
    [Site |-> "", Hostname |-> <<>>, Enabled |-> Absent, Method |-> "", Port |-> 0, InternalPort |-> 0,
     Path |-> "", PathMatch |-> "", RewriteMatch |-> "", Priority |-> 0, HealthCheck |-> Absent]

ZeroResource ==
    [Name |-> <<>>, Protocol |-> "", Enabled |-> Absent, SSL |-> FALSE, FullDomain |-> <<>>,
     HostHeader |-> "", TLSServerName |-> <<>>, ProxyPort |-> 0, Headers |-> <<>>, Auth |-> NoAuth,
     Maintenance |-> Absent, Rules |-> <<>>, Targets |-> <<>>]

isTruthy(v) == v \in {"true", "1"}

IsSequence(s) == s \in Seq(Range(s))

\* The items of a sequence at some positions, in their order.
ItemsAt(s, positions) ==
    LET Rank(i) == Cardinality({j \in positions : j <= i})
    IN [n \in 1 .. Cardinality(positions) |-> s[CHOOSE i \in positions : Rank(i) = n]]

\* Parts that are blank are dropped.
splitCSV(parts) == ItemsAt(parts, {i \in DOMAIN parts : parts[i] \notin {"", " "}})

OrDefault(value, default) == IF value # Absent THEN value ELSE default

\* strings.TrimSpace of an annotation that may be missing, on sequences.
Trimmed(v) == IF v \in {Absent, <<" ">>} THEN <<>> ELSE v

(***************************************************************************)
(* Keys.                                                                   *)
(***************************************************************************)
HostnameToKeyOfFirstLabel(hostname) == SubSeq(hostname, 1, 1)

HostnameToKey(hostname) == [i \in DOMAIN hostname |-> IF hostname[i] = "." THEN "-" ELSE hostname[i]]

ServiceToKeyWithoutProtocol(namespace, name, port, protocol) ==
    namespace \o <<"-">> \o name \o <<"-", port>>

ServiceToKeySquashed(namespace, name, port, protocol) ==
    namespace \o <<"-">> \o SubSeq(name, 1, 1) \o <<"-", port, "-", protocol>>

ServiceToKey(namespace, name, port, protocol) ==
    namespace \o <<"-">> \o name \o <<"-", port, "-", protocol>>

(***************************************************************************)
(* Rules.                                                                  *)
(***************************************************************************)
buildDenyRules(c) ==
    LET countries == splitCSV(c.DenyCountries)
    IN [i \in DOMAIN countries |->
           [Action |-> "deny", Match |-> "country", Value |-> countries[i], Priority |-> 0]]

\* The highest priority and the highest port number.
MaxPriority == 1000
MaxPort == 65535

isValidRule(r) ==
    /\ r.Action \in {"allow", "deny", "pass"}
    /\ r.Match \in {"cidr", "ip", "path", "country"}
    /\ r.Value # ""
    /\ r.Priority = 0 \/ r.Priority \in 1 .. MaxPriority

ValidRules(rules) == ItemsAt(rules, {i \in DOMAIN rules : isValidRule(rules[i])})

\* As if a parse error ended the function.
BuildRulesGivingUp(a, c) ==
    IF a.rules = Malformed THEN <<>>
    ELSE (IF a.rules = Absent THEN <<>> ELSE ValidRules(a.rules)) \o buildDenyRules(c)

BuildRules(a, c) ==
    (IF a.rules \in {Absent, Malformed} THEN <<>> ELSE ValidRules(a.rules)) \o buildDenyRules(c)

(***************************************************************************)
(* Headers, the maintenance page (its texts are left out) and the target.  *)
(***************************************************************************)
BuildHeaders(a) == IF a.headers \in {Absent, Malformed} THEN <<>> ELSE a.headers

BuildMaintenance(a) == IF isTruthy(a.maintenanceEnabled) THEN [Enabled |-> TRUE] ELSE Absent

\* The fields of a HealthCheck with a name of their own, or read by a condition.
ZeroHealthCheck ==
    [Hostname |-> "", Port |-> 0, Enabled |-> Absent, Interval |-> 0, UnhealthyInterval |-> 0,
     Headers |-> <<>>, FollowRedirects |-> Absent]

\* The struct has yaml tags only, so encoding/json goes by the names of the
\* fields, in upper or lower case.
JSONKeys ==
    [Hostname |-> {"Hostname", "hostname"}, Port |-> {"Port", "port"}, Enabled |-> {"Enabled", "enabled"},
     Interval |-> {"Interval", "interval"},
     UnhealthyInterval |-> {"UnhealthyInterval", "unhealthyInterval"},
     Headers |-> {"Headers", "headers"}, FollowRedirects |-> {"FollowRedirects", "followRedirects"}]

\* Keys that name no field are ignored.
UnmarshalHealthCheck(json) ==
    IF json \in {Absent, Malformed} THEN Absent
    ELSE [f \in DOMAIN ZeroHealthCheck |->
             IF JSONKeys[f] \cap DOMAIN json = {} THEN ZeroHealthCheck[f]
             ELSE json[CHOOSE key \in JSONKeys[f] : key \in DOMAIN json]]

OneOf(value, allowed) == IF value \in allowed THEN value ELSE ""

InRange(text, range) == IF text # Absent /\ Atoi(text) \in range THEN Atoi(text) ELSE 0

BuildTargetExtrasUnbounded(base, a) ==
    [base EXCEPT !.Path = OrDefault(a.targetPath, ""),
                 !.PathMatch = OneOf(a.targetPathMatch, {"prefix", "exact", "regex"}),
                 !.RewriteMatch = OneOf(a.targetRewriteMatch, {"exact", "prefix", "regex", "stripPrefix"}),
                 !.Priority = IF a.targetPriority = Absent \/ Atoi(a.targetPriority) = NotANumber THEN 0
                              ELSE Atoi(a.targetPriority),
                 !.InternalPort = InRange(a.targetInternalPort, 1 .. MaxPort),
                 !.HealthCheck = UnmarshalHealthCheck(a.targetHealthcheck),
                 !.Enabled = IF a.targetEnabled \in {Absent, " "} THEN Absent ELSE isTruthy(a.targetEnabled)]

BuildTargetExtras(base, a) ==
    [base EXCEPT !.Path = OrDefault(a.targetPath, ""),
                 !.PathMatch = OneOf(a.targetPathMatch, {"prefix", "exact", "regex"}),
                 !.RewriteMatch = OneOf(a.targetRewriteMatch, {"exact", "prefix", "regex", "stripPrefix"}),
                 !.Priority = InRange(a.targetPriority, 1 .. MaxPriority),
                 !.InternalPort = InRange(a.targetInternalPort, 1 .. MaxPort),
                 !.HealthCheck = UnmarshalHealthCheck(a.targetHealthcheck),
                 !.Enabled = IF a.targetEnabled \in {Absent, " "} THEN Absent ELSE isTruthy(a.targetEnabled)]

(***************************************************************************)
(* The auth block, which decides who gets through the tunnel: credentials  *)
(* from the Secret, the rest from annotations over cluster-wide defaults.  *)
(***************************************************************************)
Pincode(secret) ==
    IF secret = NoSecret \/ secret.pincode = Absent \/ Atoi(secret.pincode) = NotANumber THEN 0
    ELSE Atoi(secret.pincode)

Password(secret) == IF secret = NoSecret \/ secret.password = Absent THEN "" ELSE secret.password

BasicAuthNeedsBoth(secret) ==
    IF secret = NoSecret THEN <<>>
    ELSE IF secret.user \in {Absent, ""} \/ secret.pass \in {Absent, ""} THEN <<>>
    ELSE <<OrDefault(secret.user, ""), OrDefault(secret.pass, "")>>

BasicAuth(secret) ==
    IF secret = NoSecret THEN <<>>
    ELSE IF secret.user \in {Absent, ""} /\ secret.pass \in {Absent, ""} THEN <<>>
    ELSE <<OrDefault(secret.user, ""), OrDefault(secret.pass, "")>>

ssoEnabled(a) == isTruthy(a.sso)

SSOPart(a, value, default) == IF ssoEnabled(a) THEN splitCSV(OrDefault(value, default)) ELSE <<>>

IDPByDefault(a, c) ==
    IF a.idp # Absent /\ Atoi(a.idp) # NotANumber /\ Atoi(a.idp) # 0 THEN Atoi(a.idp)
    ELSE c.AuthSSOIDP

IDP(a, c) ==
    IF ~ssoEnabled(a) THEN 0
    ELSE IF a.idp # Absent /\ Atoi(a.idp) # NotANumber /\ Atoi(a.idp) > 0 THEN Atoi(a.idp)
    ELSE c.AuthSSOIDP

WhitelistUsers(a, c) == splitCSV(OrDefault(a.whitelistUsers, c.AuthWhitelistUsers))

BuildAuth(a, secret, c) ==
    IF /\ ~ssoEnabled(a) /\ WhitelistUsers(a, c) = <<>>
       /\ Pincode(secret) = 0 /\ Password(secret) = "" /\ BasicAuth(secret) = <<>>
    THEN NoAuth
    ELSE [Pincode |-> Pincode(secret), Password |-> Password(secret), BasicAuth |-> BasicAuth(secret),
          SSOEnabled |-> ssoEnabled(a),
          SSORoles |-> SSOPart(a, a.ssoRoles, c.AuthSSORoles),
          SSOUsers |-> SSOPart(a, a.ssoUsers, c.AuthSSOUsers),
          WhitelistUsers |-> WhitelistUsers(a, c),
          AutoLoginIDP |-> IDP(a, c)]

(***************************************************************************)
(* An HTTPRoute's entry, whose target is the gateway, and a Service's.     *)
(***************************************************************************)
SSL(a, c) == IF a.ssl = Absent THEN c.SSL ELSE isTruthy(a.ssl)

BuildResource(routeName, hostname, a, secret, c) ==
    [ZeroResource EXCEPT
        !.Name = IF a.name \in {Absent, <<>>} THEN routeName ELSE a.name,
        !.Protocol = "http",
        !.Enabled = IF a.enabled = Absent THEN Absent ELSE isTruthy(a.enabled),
        !.SSL = SSL(a, c),
        !.FullDomain = hostname,
        !.HostHeader = OrDefault(a.hostHeader, ""),
        !.TLSServerName = IF Trimmed(a.tlsServerName) = <<>> THEN hostname ELSE a.tlsServerName,
        !.Headers = BuildHeaders(a),
        !.Auth = BuildAuth(a, secret, c),
        !.Maintenance = BuildMaintenance(a),
        !.Rules = BuildRules(a, c),
        !.Targets = <<BuildTargetExtras([ZeroTarget EXCEPT !.Site = c.SiteID,
                                                           !.Hostname = <<c.TargetHostname>>,
                                                           !.Method = c.TargetMethod,
                                                           !.Port = c.TargetPort], a)>>]

ServiceTLSName(sp) == IF sp.TLSServerName = <<>> THEN sp.FullDomain ELSE sp.TLSServerName

\* sp is a ServicePort: the target of an HTTP entry.
HTTPTargetWithoutHealthCheck(sp, c) ==
    [ZeroTarget EXCEPT
        !.Site = c.SiteID, !.Hostname = sp.TargetHostname, !.Enabled = sp.TargetEnabled,
        !.Method = sp.Method, !.Port = sp.TargetPort, !.Path = sp.TargetPath,
        !.PathMatch = sp.TargetPathMatch, !.RewriteMatch = sp.TargetRewriteMatch,
        !.Priority = sp.TargetPriority, !.InternalPort = sp.TargetInternalPort]

HTTPTarget(sp, c) ==
    [Site |-> c.SiteID, Hostname |-> sp.TargetHostname, Enabled |-> sp.TargetEnabled,
     Method |-> sp.Method, Port |-> sp.TargetPort, Path |-> sp.TargetPath,
     PathMatch |-> sp.TargetPathMatch, RewriteMatch |-> sp.TargetRewriteMatch,
     Priority |-> sp.TargetPriority, InternalPort |-> sp.TargetInternalPort,
     HealthCheck |-> sp.TargetHealthCheck]

BuildServiceResource(sp, c) ==
    IF sp.FullDomain # <<>>
    THEN [ZeroResource EXCEPT
             !.Name = sp.Name, !.Protocol = "http", !.SSL = sp.SSL, !.FullDomain = sp.FullDomain,
             !.HostHeader = sp.HostHeader, !.TLSServerName = ServiceTLSName(sp),
             !.Headers = sp.Headers, !.Auth = sp.Auth, !.Maintenance = sp.Maintenance,
             !.Rules = sp.Rules, !.Targets = <<HTTPTarget(sp, c)>>]
    ELSE [ZeroResource EXCEPT
             !.Name = sp.Name, !.Protocol = sp.Protocol, !.ProxyPort = sp.ProxyPort,
             !.Targets = <<[ZeroTarget EXCEPT !.Site = c.SiteID, !.Hostname = sp.TargetHostname,
                                              !.Port = sp.TargetPort]>>]
===============================================================================
