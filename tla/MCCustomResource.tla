--------------------------- MODULE MCCustomResource ---------------------------
(***************************************************************************)
(* CustomResource for TLC: specs with fields missing, at a bound, beyond   *)
(* it or unknown. Protocol and ports, rules and texts, targets, auth with  *)
(* its Secret, and private networks are each varied in full.               *)
(***************************************************************************)
EXTENDS CustomResource

CONSTANT Letter \* a character that is not part of a number

\* The field is omitted or has one of the values.
Maybe(field, values) == {<<>>} \cup {field :> v : v \in values}

Public(specs, secrets) == [kind : {"public"}, spec : specs, secret : secrets]

Target1 == [hostname |-> <<"h">>, port |-> 80]
Base == [name |-> <<"n">>, protocol |-> "http", fullDomain |-> <<"a", ".", "b">>, targets |-> <<Target1>>]

Protocols ==
    Public({n @@ pr @@ d @@ port @@ tls @@ on @@ [targets |-> t] :
               n \in Maybe("name", {<<>>, <<"n">>}), pr \in Maybe("protocol", {"http", "tcp", "udp", "sctp"}),
               d \in Maybe("fullDomain", {<<>>, <<"a", ".", "b">>}), port \in Maybe("proxyPort", {0, 1, 65535, 65536}),
               tls \in Maybe("tlsServerName", {<<>>, <<" ">>, <<"s">>}), on \in Maybe("enabled", BOOLEAN),
               t \in {<<>>, <<Target1>>, <<Target1, Target1>>}}, {NoSecret})

RuleSpecs ==
    {v @@ p @@ [action |-> action, match |-> m] :
        action \in {"allow", "pass", "block"}, m \in {"country", "asn"},
        v \in Maybe("value", {"", "X"}), p \in Maybe("priority", {0, 1, 1000, 1001})}

Contents ==
    Public({ssl @@ hh @@ m @@ [headers |-> h, rules |-> r] @@ Base :
               ssl \in Maybe("ssl", BOOLEAN), hh \in Maybe("hostHeader", {"", "x"}),
               m \in Maybe("maintenance", [enabled : BOOLEAN]),
               h \in {<<>>, <<[name |-> "X", value |-> "1"]>>, <<[name |-> "X", value |-> ""]>>},
               r \in {<<>>} \cup {<<x>> : x \in RuleSpecs}
                       \cup {<<[action |-> "deny", match |-> "ip", value |-> "Y"], x>> : x \in RuleSpecs}},
           {NoSecret})

HealthCheckSpecs ==
    {on @@ i @@ u @@ f @@ [hostname |-> "h", port |-> p, headers |-> <<[name |-> "X", value |-> "1"]>>] :
        p \in {0, 8080}, on \in Maybe("enabled", {FALSE}), i \in Maybe("interval", {0, 5}),
        u \in Maybe("unhealthyInterval", {9}), f \in Maybe("followRedirects", {FALSE})}

Targets ==
    Public({[targets |-> <<m @@ on @@ i @@ pm @@ p @@ hc @@ [rewriteMatch |-> "stripPrefix", path |-> "/p"]
                           @@ Target1>>] @@ Base :
               m \in Maybe("method", {"h2c", "tcp"}), on \in Maybe("enabled", BOOLEAN),
               i \in Maybe("internalPort", {0, 1, 65535, 65536}), pm \in Maybe("pathMatch", {"regex", "glob"}),
               p \in Maybe("priority", {0, 1, 1000, 1001}), hc \in Maybe("healthcheck", HealthCheckSpecs)},
           {NoSecret})

AuthSpecs ==
    {on @@ r @@ u @@ w @@ i @@ ref : on \in Maybe("ssoEnabled", BOOLEAN), r \in Maybe("ssoRoles", {<<>>, <<"r">>}),
        u \in Maybe("ssoUsers", {<<"u", "v">>}), w \in Maybe("whitelistUsers", {<<>>, <<" ">>, <<"w">>}),
        i \in Maybe("autoLoginIdp", {-1, 0, 12}), ref \in Maybe("authSecretRef", {"", "s"})}

Secrets ==
    [pincode : {Absent, <<>>, <<1, Letter>>, <<0, 0>>, <<0, 7>>}, password : {Absent, "", "pw"},
     user : {Absent, "me"}, pass : {"", "pw"}]

Auths ==
    Public({auth @@ Base : auth \in Maybe("auth", AuthSpecs)}, {NoSecret} \cup Secrets)

Private ==
    [kind : {"private"}, secret : {NoSecret},
     spec : {m @@ d @@ r @@ a @@ [name |-> n] : n \in {<<>>, <<"n">>}, m \in Maybe("mode", {"host", "cidr", "net"}),
                d \in Maybe("destination", {"", "10.0.0.1", "10.0.0.0/16"}),
                r \in Maybe("roles", {<<>>, <<"ops">>, <<"ops", "Admin">>}), a \in Maybe("alias", {"db.internal"})}]

MCInputs == <<Private, Protocols, Contents, Targets, Auths>>
===============================================================================
