------------------------------ MODULE MCService ------------------------------
(***************************************************************************)
(* Service for TLC: Services whose ports share numbers, names or protocols *)
(* as Kubernetes allows (port and protocol together are unique, and the    *)
(* ports of a multi-port Service are named), and namespaces and names      *)
(* whose concatenations meet. Selection, settings and the contents of an   *)
(* HTTP entry are each varied in full.                                     *)
(***************************************************************************)
EXTENDS Service

P(name, port, protocol) == [name |-> name, port |-> port, protocol |-> protocol]

Protocols == {"TCP", "UDP", "SCTP"}

PortLists ==
    {<<>>}
    \cup {<<P(n, 80, "TCP")>> : n \in {"", "http"}}
    \cup {<<P("game", 80, t), P("game2", 80, u)>> : t \in Protocols, u \in Protocols}
    \cup {<<P("game", 81, "UDP"), P("http", 80, u)>> : u \in Protocols}

MCServices ==
    {[namespace |-> ns, name |-> n, ports |-> l] :
        ns \in {<<"a">>, <<"a", "-", "b">>},
        n \in {<<"c">>, <<"b", "-", "c">>, <<"c", "-", "80">>},
        l \in {q \in PortLists : \A i, j \in DOMAIN q :
                  i # j => <<q[i].port, q[i].protocol>> # <<q[j].port, q[j].protocol>>}}

Unset == [s \in Settings |-> Absent]

Input(env, flags, s, an, secret) ==
    [env |-> [SiteID |-> "site"] @@ env @@ Unset, flags |-> flags @@ Unset, svc |-> s,
     annotations |-> an @@ NoAnnotations, secret |-> secret]

\* One name, every annotation that selects a port.
Selection ==
    {Input([AutoService |-> auto], [EnableService |-> on], s, an, NoSecret) :
        auto \in {Absent, "t"}, on \in {Absent, "1"},
        s \in {t \in MCServices : t.namespace = <<"a">> /\ t.name = <<"c">>},
        an \in [enabled : {Absent, "true", "0", "maybe"}, allPorts : {Absent, "1"},
                port : {Absent, "80", "game", " "}, protocol : {Absent, "UDP", "icmp"}]}

\* Every name; settings given twice, or not parsing.
Overridden ==
    {Input([AutoService |-> e, AllPorts |-> p], [AutoService |-> f], s, [allPorts |-> x], NoSecret) :
        e \in {Absent, "True", "on"}, p \in {Absent, "1", "no"}, f \in {Absent, "F", "1", "yes"},
        x \in {Absent, "0"}, s \in MCServices}

Contents ==
    {Input([AutoService |-> "1"], [AllPorts |-> "1", DenyCountries |-> <<"RU">>, SSL |-> l,
                                   AuthWhitelistUsers |-> <<"w">>], s, an, secret) :
        l \in {Absent, "0"},
        s \in [namespace : {<<"a">>}, name : {<<"c">>},
               ports : {<<P("", 80, "TCP")>>, <<P("game", 81, "UDP"), P("http", 80, "TCP")>>}],
        secret \in {NoSecret, [pincode |-> <<1, 2>>, password |-> Absent, user |-> Absent, pass |-> ""]},
        an \in [fullDomain : {<<" ">>, <<"c", ".", "d">>}, ssl : {Absent, "true"}, name : {<<"n">>},
                method : {Absent, "H2C", "tcp"}, tlsServerName : {<<" ">>, <<"s">>},
                sso : {Absent, "1"}, whitelistUsers : {Absent, <<>>}, hostHeader : {"h"},
                headers : {Malformed, <<"h">>}, maintenanceEnabled : {Absent, "1"},
                rules : {Malformed, <<[Action |-> "deny", Match |-> "ip", Value |-> "X", Priority |-> 9]>>},
                targetPriority : {<<7>>, <<0>>}, targetEnabled : {"0"}, targetPath : {"/p"},
                targetPathMatch : {"exact"}, targetRewriteMatch : {"stripPrefix"},
                targetInternalPort : {<<9>>},
                targetHealthcheck : {Absent, [hostname |-> "h", port |-> 80]}]}

MCInputs == <<Selection, Overridden, Contents>>
===============================================================================
