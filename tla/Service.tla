------------------------------- MODULE Service -------------------------------
(***************************************************************************)
(* internal/resources/service: from a Service to blueprint entries, in     *)
(* TCP/UDP or HTTP mode. One behaviour handles one input: what the         *)
(* environment and the command line say, a Service, its annotations and    *)
(* the data of its Secret.                                                 *)
(***************************************************************************)
EXTENDS Handler, FiniteSets

CONSTANTS
    Inputs,   \* families of inputs: sets of records (env, flags, svc, annotations, secret)
    Services, \* the Services of all inputs
    NoPort    \* resolvePort returns false

\* Namespaces, names and ports are sequences, and strconv.Itoa writes different
\* numbers differently.
ASSUME InputAssumption ==
    /\ \A i \in DOMAIN Inputs : \A in \in Inputs[i] :
        /\ DOMAIN in = {"env", "flags", "svc", "annotations", "secret"}
        /\ in.svc \in Services
    /\ \A s \in Services : IsSequence(s.namespace) /\ IsSequence(s.name) /\ IsSequence(s.ports)
    /\ \A s, t \in Services : \A i \in DOMAIN s.ports, j \in DOMAIN t.ports :
        ToString(s.ports[i].port) = ToString(t.ports[j].port) => s.ports[i].port = t.ports[j].port

VARIABLES input, entries, done

vars == <<input, entries, done>>

TrimSpace(v) == IF v \in {Absent, " "} THEN "" ELSE v

\* strings.ToLower, on the names of protocols and methods.
ToLower(v) ==
    LET lower == [TCP |-> "tcp", UDP |-> "udp", HTTPS |-> "https", H2C |-> "h2c"]
    IN IF v \in DOMAIN lower THEN lower[v] ELSE v

FullDomain(a) == Trimmed(a.fullDomain)

serviceProtocol(protocol) == IF protocol = "UDP" THEN "udp" ELSE "tcp"

\* svc.Name + "." + svc.Namespace + ".svc.cluster.local"
ClusterHostname(s) == <<s.name, s.namespace>>

\* A port without a name goes by its number.
DisplayName(s, p) == s.name \o <<"-", IF p.name = "" THEN ToString(p.port) ELSE p.name>>

\* A ServicePort with nothing but the target and the display name set.
PlainPort(s, p) ==
    [Name |-> DisplayName(s, p), Protocol |-> "", ProxyPort |-> 0, TargetPort |-> p.port,
     TargetHostname |-> ClusterHostname(s), FullDomain |-> <<>>, TLSServerName |-> <<>>, Method |-> "",
     SSL |-> FALSE, HostHeader |-> "", Headers |-> <<>>, Maintenance |-> Absent, Auth |-> NoAuth,
     Rules |-> <<>>, TargetEnabled |-> Absent, TargetPath |-> "", TargetPathMatch |-> "",
     TargetRewriteMatch |-> "", TargetPriority |-> 0, TargetInternalPort |-> 0,
     TargetHealthCheck |-> Absent]

\* The annotation overrides the flag.
resolveAllPorts(a, c) == IF a.allPorts # Absent THEN isTruthy(a.allPorts) ELSE c.AllPorts

\* One entry per port; a later port replaces an earlier one with its key.
buildAllPortEntries(s, c) ==
    LET Key(p) == ServiceToKey(s.namespace, s.name, ToString(p.port), serviceProtocol(p.protocol))
    IN [k \in {Key(s.ports[i]) : i \in DOMAIN s.ports} |->
           LET p == s.ports[SelectLastInSeq(s.ports, LAMBDA q : Key(q) = k)]
           IN BuildServiceResource([PlainPort(s, p) EXCEPT !.Protocol = serviceProtocol(p.protocol),
                                                           !.ProxyPort = p.port], c)]

\* The first port with that number or that name.
FirstPort(ports, wanted) ==
    LET first == SelectInSeq(ports, LAMBDA p : wanted \in {ToString(p.port), p.name})
    IN IF first = 0 THEN NoPort ELSE ports[first]

selectPortFallingBack(s, a) ==
    LET named == FirstPort(s.ports, TrimSpace(a.port))
    IN IF a.port # Absent /\ named # NoPort THEN named
       ELSE IF Len(s.ports) = 1 THEN s.ports[1]
       ELSE FirstPort(s.ports, "http")

\* The port annotation, else the only port, else the port named http.
selectPort(s, a) ==
    IF a.port # Absent
    THEN FirstPort(s.ports, TrimSpace(a.port))
    ELSE IF Len(s.ports) = 1 THEN s.ports[1]
    ELSE FirstPort(s.ports, "http")

\* The ServicePort of a selected port, in HTTP mode or in TCP/UDP mode, where the
\* protocol annotation overrides the port's protocol.
resolvePort(s, p, a, secret, c) ==
    LET named == [PlainPort(s, p) EXCEPT !.Name = IF a.name \in {Absent, <<>>} THEN @ ELSE a.name]
        protocol == ToLower(TrimSpace(a.protocol))
        method == ToLower(TrimSpace(a.method))
        extras == BuildTargetExtras(ZeroTarget, a)
    IN IF FullDomain(a) = <<>>
       THEN [named EXCEPT !.Protocol = IF protocol \in {"tcp", "udp"} THEN protocol
                                       ELSE serviceProtocol(p.protocol),
                          !.ProxyPort = p.port]
       ELSE [named EXCEPT !.FullDomain = FullDomain(a),
                          !.TLSServerName = Trimmed(a.tlsServerName),
                          !.Method = IF method \in {"https", "h2c"} THEN method ELSE "http",
                          !.SSL = SSL(a, c),
                          !.HostHeader = OrDefault(a.hostHeader, ""),
                          !.Headers = BuildHeaders(a),
                          !.Maintenance = BuildMaintenance(a),
                          !.Rules = BuildRules(a, c),
                          !.Auth = BuildAuth(a, secret, c),
                          !.TargetEnabled = extras.Enabled,
                          !.TargetPath = extras.Path,
                          !.TargetPathMatch = extras.PathMatch,
                          !.TargetRewriteMatch = extras.RewriteMatch,
                          !.TargetPriority = extras.Priority,
                          !.TargetInternalPort = extras.InternalPort,
                          !.TargetHealthCheck = extras.HealthCheck]

buildSinglePortEntry(s, a, secret, c) ==
    LET sp == resolvePort(s, selectPort(s, a), a, secret, c)
        key == IF sp.FullDomain # <<>> THEN HostnameToKey(sp.FullDomain)
               ELSE ServiceToKey(s.namespace, s.name, ToString(sp.ProxyPort), sp.Protocol)
    IN IF selectPort(s, a) = NoPort THEN <<>> ELSE [k \in {key} |-> BuildServiceResource(sp, c)]

\* full-domain takes precedence over all-ports.
buildEntries(s, a, secret, c) ==
    IF FullDomain(a) = <<>> /\ resolveAllPorts(a, c) THEN buildAllPortEntries(s, c)
    ELSE buildSinglePortEntry(s, a, secret, c)

\* main and the controller's processObject, for this one object. A Service
\* definition has no FilterFunc, and its AutoConfigFunc is AutoService.
Exposed(in) ==
    LET c == Load(in.env, in.flags)
    IN IF WatchesServices(c) /\ ShouldProcess(in.annotations, TRUE, c.AutoService)
       THEN buildEntries(in.svc, in.annotations, in.secret, c)
       ELSE <<>>

Init ==
    /\ \E i \in DOMAIN Inputs : input \in Inputs[i]
    /\ entries = <<>>
    /\ done = FALSE

Process ==
    /\ ~done
    /\ entries' = Exposed(input)
    /\ done' = TRUE
    /\ UNCHANGED input

Next == Process

Spec == Init /\ [][Next]_vars

(***************************************************************************)
(* Properties.                                                             *)
(***************************************************************************)
svc == input.svc
annotations == input.annotations

\* The operator switched a setting on: by its flag, or by its variable alone.
On(setting) ==
    OrDefault(input.flags[setting], input.env[setting]) \in {"1", "t", "T", "true", "TRUE", "True"}

AllPorts ==
    /\ FullDomain(annotations) = <<>>
    /\ annotations.allPorts \in {"true", "1"} \/ (annotations.allPorts = Absent /\ On("AllPorts"))

\* README, all-ports mode: "Every port defined in the Service spec is exposed as
\* a separate blueprint entry." No two ports of a Service fall on one key,
\* whatever numbers and names they share, except a TCP and an SCTP port of one
\* number: serviceProtocol takes every protocol but UDP for tcp.
EveryPortHasItsEntry ==
    (entries # <<>> /\ AllPorts) =>
        Cardinality(DOMAIN entries) =
            Cardinality({<<svc.ports[i].port, svc.ports[i].protocol = "UDP">> : i \in DOMAIN svc.ports})

\* A Service is only exposed as it and the operator ask for: not when it is opted
\* out (whatever the mode), only when it opted in or auto mode is on, and only if
\* Services are watched at all; on more than one port only in all-ports mode, and
\* when it names a port, on that port or not at all.
ExposesOnlyWhatIsAsked ==
    entries # <<>> =>
        /\ annotations.enabled \notin {"false", "0"}
        /\ On("AutoService") \/ (On("EnableService") /\ annotations.enabled \in {"true", "1"})
        /\ Cardinality(DOMAIN entries) > 1 => AllPorts
        /\ (annotations.port # Absent /\ ~AllPorts) =>
             \A k \in DOMAIN entries : \E i \in DOMAIN svc.ports :
                 /\ svc.ports[i].port = entries[k].Targets[1].Port
                 /\ TrimSpace(annotations.port) \in {svc.ports[i].name, ToString(svc.ports[i].port)}

\* Two Services meet on a raw TCP/UDP key only where the dash between namespace
\* and name is ambiguous ("a"/"b-c" and "a-b"/"c"), and then for the same port
\* and protocol; a name that ends in a number is not enough.
KeysCollideOnlyAtTheDash ==
    (entries # <<>> /\ FullDomain(annotations) = <<>>) =>
        \A s \in Services :
            LET others == Exposed([input EXCEPT !.svc = s])
            IN \A k \in DOMAIN entries \cap DOMAIN others :
                /\ s.namespace \o <<"-">> \o s.name = svc.namespace \o <<"-">> \o svc.name
                /\ others[k].ProxyPort = entries[k].ProxyPort
                /\ others[k].Protocol = entries[k].Protocol

\* BuildServiceResource and BuildResource are two implementations of an HTTP
\* entry. A Service in HTTP mode is published as an HTTPRoute of its domain with
\* the same annotations would be: as protected, with the same rules, headers and
\* target options. Only what names the backend and the switch may differ.
ServedLikeARoute ==
    FullDomain(annotations) # <<>> => \A k \in DOMAIN entries :
        LET built == BuildResource(<<>>, FullDomain(annotations), annotations, input.secret,
                                   Load(input.env, input.flags))
            Common(e) == [e EXCEPT !.Name = <<>>, !.Enabled = Absent,
                                   !.Targets = <<[@[1] EXCEPT !.Hostname = <<>>, !.Method = "", !.Port = 0]>>]
        IN k = HostnameToKey(FullDomain(annotations)) /\ Common(entries[k]) = Common(built)
===============================================================================
