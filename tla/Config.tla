-------------------------------- MODULE Config --------------------------------
(***************************************************************************)
(* internal/config: the settings, from the environment and the command     *)
(* line. Both give a text per setting. Absent is a flag that is not given, *)
(* or a variable that is unset or empty, which env.Parse treats alike; a   *)
(* flag may well be given as empty. A comma-separated text is the sequence *)
(* of its parts and a number in text the sequence of its characters.       *)
(*                                                                         *)
(* Left out are the settings that no entry depends on: the output path,    *)
(* the health port, the watched namespace and the annotation prefix.       *)
(***************************************************************************)
EXTENDS SequencesExt, Integers

CONSTANTS
    Absent,     \* nothing is given
    Minus,      \* the minus sign of a number; any other non-digit is not one
    NotANumber, \* strconv.Atoi returns an error
    Malformed,  \* a text that does not parse
    NoConfig    \* Load returns an error, or the process exits in it

\* A plus sign and numbers beyond int, which Atoi accepts and refuses, are left out.
Atoi(text) ==
    LET negative == text # <<>> /\ Head(text) = Minus
        digits == IF negative THEN Tail(text) ELSE text
        value == FoldLeft(LAMBDA n, digit : 10 * n + digit, 0, digits)
    IN IF digits = <<>> \/ \E i \in DOMAIN digits : digits[i] \notin 0 .. 9 THEN NotANumber
       ELSE IF negative THEN -value ELSE value

ParseBool(text) ==
    CASE text \in {"1", "t", "T", "true", "TRUE", "True"} -> TRUE
      [] text \in {"0", "f", "F", "false", "FALSE", "False"} -> FALSE
      [] OTHER -> Malformed

Defaults ==
    [GatewayName |-> "", GatewayNamespace |-> "", SiteID |-> "", TargetHostname |-> "",
     TargetPort |-> 443, TargetMethod |-> "https", DenyCountries |-> <<>>, SSL |-> TRUE,
     EnableService |-> FALSE, AutoService |-> FALSE, AllPorts |-> FALSE,
     AuthSSORoles |-> <<>>, AuthSSOUsers |-> <<>>, AuthSSOIDP |-> 0, AuthWhitelistUsers |-> <<>>]

Settings == DOMAIN Defaults
BoolSettings == {"SSL", "EnableService", "AutoService", "AllPorts"}
IntSettings == {"TargetPort", "AuthSSOIDP"}

Parse(setting, text) ==
    IF setting \in BoolSettings THEN ParseBool(text)
    ELSE IF setting \notin IntSettings THEN text
    ELSE IF Atoi(text) = NotANumber THEN Malformed
    ELSE Atoi(text)

\* What the given texts make of the settings they start from.
Override(cfg, texts) ==
    [s \in Settings |-> IF texts[s] = Absent THEN cfg[s] ELSE Parse(s, texts[s])]

newConfig(env) == Override(Defaults, env)

AllParse(texts) == \A s \in Settings : texts[s] = Absent \/ Parse(s, texts[s]) # Malformed

LoadEnvironmentLast(env, flags) ==
    IF AllParse(env) /\ AllParse(flags) THEN Override(Override(Defaults, flags), env) ELSE NoConfig

\* The settings of the environment are the flags' defaults. env.Parse fails
\* before the flags are looked at, flag.Parse exits.
Load(env, flags) ==
    IF AllParse(env) /\ AllParse(flags) THEN Override(newConfig(env), flags) ELSE NoConfig

Validate(cfg) ==
    /\ cfg.SiteID # ""
    /\ cfg.GatewayName # "" => cfg.TargetHostname # ""
    /\ cfg.GatewayName # "" \/ cfg.EnableService \/ cfg.AutoService

\* main goes on, and starts a controller for the type.
WatchesHTTPRoutes(cfg) == cfg # NoConfig /\ Validate(cfg) /\ cfg.GatewayName # ""
WatchesServices(cfg) == cfg # NoConfig /\ Validate(cfg) /\ (cfg.EnableService \/ cfg.AutoService)
===============================================================================
