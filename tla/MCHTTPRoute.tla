----------------------------- MODULE MCHTTPRoute -----------------------------
(***************************************************************************)
(* HTTPRoute for TLC: host names that differ only in dots and dashes,      *)
(* parents with and without a namespace, and for every annotation absent,  *)
(* usable, boundary and unusable values. Selection, contents, auth and     *)
(* settings are each varied in full with the others fixed.                 *)
(***************************************************************************)
EXTENDS HTTPRoute

CONSTANT Letter \* a character that is not part of a number

Rule(action, match, value, priority) ==
    [Action |-> action, Match |-> match, Value |-> value, Priority |-> priority]

Unset == [s \in Settings |-> Absent]
Given1 == [GatewayName |-> "gw", SiteID |-> "site", TargetHostname |-> "gw.svc"] @@ Unset

Routes(hosts, parents) == [name : {<<"r">>}, hostnames : hosts, parentRefs : parents]

OneHost == {<<<<"a", ".", "b">>>>}
Parent(name, namespace) == [name |-> name, namespace |-> namespace]
OneParent == {<<Parent("gw", Absent)>>}
NetSecret == [pincode |-> <<0, 7>>, password |-> Absent, user |-> "me", pass |-> ""]

Input(env, flags, rt, an, secret) ==
    [env |-> env, flags |-> flags, route |-> rt, annotations |-> an @@ NoAnnotations, secret |-> secret]

Selection ==
    {Input(Given1, [GatewayNamespace |-> ns, DenyCountries |-> deny] @@ Unset, r, an, NoSecret) :
        ns \in {Absent, "", "net"}, deny \in {Absent, <<"RU", " ", "X", "RU">>},
        r \in Routes({<<>>, <<<<"a", ".", "b">>, <<"a", "-", "b">>>>, <<<<"a", ".", "b">>, <<"a", ".", "c">>>>},
                     {<<>>, <<Parent("gw", Absent)>>, <<Parent("other", "net"), Parent("gw", "app")>>,
                      <<Parent("other", "net"), Parent("gw", "net")>>}),
        an \in [enabled : {Absent, "1", "0", "yes"}, rules : {Absent, Malformed, <<Rule("pass", "ip", "Y", 0)>>}]}

Contents ==
    {Input(Given1, [DenyCountries |-> deny] @@ Unset, r, an, NetSecret) :
        deny \in {Absent, <<"RU", "">>}, r \in Routes(OneHost, OneParent),
        an \in [tlsServerName : {Absent, <<" ">>, <<"s">>}, ssl : {Absent, "0"},
                headers : {Absent, Malformed},
                maintenanceEnabled : {"true"},
                rules : {Absent, Malformed, <<>>, <<Rule("allow", "country", "X", 1000), Rule("deny", "ip", "", 0)>>,
                         <<Rule("allow", "path", "X", 1001), Rule("block", "ip", "X", 0),
                           Rule("pass", "cidr", "Y", 1), Rule("deny", "path", "Z", 0)>>},
                targetPathMatch : {Absent, "exact", "glob"},
                targetRewriteMatch : {Absent, "stripPrefix", "glob"},
                targetPriority : {Absent, <<Letter>>, <<Minus, 1>>, <<1, 0, 0, 0>>, <<1, 0, 0, 1>>},
                targetInternalPort : {Absent, <<6, 5, 5, 3, 6>>},
                targetHealthcheck : {Absent, Malformed},
                targetEnabled : {"off"}]}

AuthInputs ==
    {Input([AuthSSORoles |-> <<"admins">>, AuthSSOIDP |-> i] @@ Given1,
           [AuthSSOUsers |-> u, AuthWhitelistUsers |-> w] @@ Unset, r, an, secret) :
        i \in {Absent, <<3>>}, u \in {<<>>, <<"boss">>}, w \in {<<>>, <<"all">>},
        r \in Routes(OneHost, OneParent),
        an \in [sso : {Absent, "1", "yes"}, ssoRoles : {Absent, <<" ">>, <<"r">>},
                ssoUsers : {Absent, <<"u", "">>}, idp : {Absent, <<Letter>>, <<Minus, 1>>, <<0>>, <<7>>},
                whitelistUsers : {Absent, <<>>, <<"w">>}],
        secret \in {NoSecret, NetSecret}}

\* Settings in the environment, on the command line, in both or malformed.
SettingInputs ==
    {Input([GatewayName |-> g, SSL |-> s, AuthSSOIDP |-> i] @@ Given1,
           [GatewayName |-> h, SSL |-> t, TargetHostname |-> n, SiteID |-> x] @@ Unset,
           r, [sso |-> "1"], NoSecret) :
        g \in {Absent, "gw", "other"}, h \in {Absent, "", "gw"}, s \in {Absent, "f", "yes"},
        t \in {Absent, "1", "off"}, i \in {Absent, <<3>>, <<Letter>>}, n \in {Absent, ""}, x \in {Absent, ""},
        r \in Routes(OneHost, OneParent)}

\* Health checks in the README's spelling and in the CRD's.
HealthChecks ==
    {Input(Given1, Unset, r, [targetHealthcheck |-> hc @@ [hostname |-> "h", port |-> 8080]], NoSecret) :
        r \in Routes(OneHost, OneParent),
        hc \in {[interval |-> 5], [enabled |-> FALSE, followRedirects |-> FALSE],
                [unhealthyInterval |-> 9], [interval |-> 7] @@ ("follow-redirects" :> FALSE),
                "unhealthy-interval" :> 9}}

MCInputs == <<HealthChecks, Selection, Contents, AuthInputs, SettingInputs>>
===============================================================================
