------------------------------- MODULE Config ------------------------------
(***************************************************************************)
(* The settings of the program: internal/config/config.go and load.go, and *)
(* the command line of cmd/gadget-dns-server/main.go.  A configuration is  *)
(* a function from the fields of the Go struct to their values.  Zero      *)
(* stands for the zero value of every type: the empty text, 0, false and   *)
(* the empty list.                                                         *)
(***************************************************************************)
EXTENDS Integers, Sequences, FiniteSets

CONSTANTS
    Zero,           \* Go's zero value
    Malformed,      \* a value that does not parse as the field's type
    InterfaceIPs    \* the machine's addresses that are neither loopback nor link-local

Ports == {"UDP", "TCP", "DoT", "DoH", "DoQ"}
Numbers == Ports \cup {"HTTPPort", "HTTPTLSPort", "ACMERenewDays"}
SOANumbers == {"SOASerial", "SOARefresh", "SOARetry", "SOAExpire", "SOAMinttl"}
Switches == {"DNSSEC", "DNSSECPublishCDS", "Foreground", "ObtainCert"}
IPLists == {"ServerIPs", "ACMEIPs"}
Lists == {"Binds", "NSRecords", "ACMEDomains"}
Texts == {"Domain", "ConfigPath", "TLSCert", "TLSKey", "Hostname", "SOAMname", "SOARname",
          "ACMEAccountKey", "ACMEURL", "LogLevel", "LogOutput", "DNSSECKSKPath",
          "DNSSECZSKPath", "DNSSECRRSIGInception", "DNSSECRRSIGValidity", "DiagRetention"}
Fields == Numbers \cup SOANumbers \cup Switches \cup IPLists \cup Lists \cup Texts

DefaultConfig ==
    [f \in Fields |->
        CASE f \in {"UDP", "TCP"}           -> 53
          [] f = "HTTPPort"                 -> 80
          [] f = "ACMERenewDays"            -> 14
          [] f = "SOASerial"                -> 1
          [] f = "SOARefresh"               -> 86400
          [] f = "SOARetry"                 -> 7200
          [] f = "SOAExpire"                -> 3600000
          [] f = "SOAMinttl"                -> 60
          [] f = "DNSSECRRSIGInception"     -> "1h"
          [] f = "DNSSECRRSIGValidity"      -> "24h"
          [] f = "LogLevel"                 -> "info"
          [] f = "DiagRetention"            -> "15m"
          [] f = "Foreground"               -> TRUE
          [] OTHER                          -> Zero]

-----------------------------------------------------------------------------
(***************************************************************************)
(* The layers.  A layer is a function from the fields it sets: the keys of *)
(* the file, the variables that are not empty, the flags that are given.   *)
(***************************************************************************)
\* The fields merge copies.
MergedFields == Fields \ {"ConfigPath", "ObtainCert", "Hostname", "Foreground"}
\* (Variant: a value of the file counts only where there is none yet.)
mergeMissing(a, b) ==
    [f \in Fields |-> IF f \in MergedFields \cap DOMAIN b /\ a[f] = Zero THEN b[f] ELSE a[f]]
merge(a, b) ==
    [f \in Fields |-> IF f \in MergedFields \cap DOMAIN b /\ b[f] # Zero THEN b[f] ELSE a[f]]

\* The fields SetFromEnv reads, and the value each parser makes of a variable: text
\* that is no number is 0 (one out of range is clamped, and is a number like any
\* other), a switch that is neither true nor 1 is false, a list of separators is
\* empty; the other texts are taken as they are.
EnvFields ==
    Ports \cup IPLists \cup Lists
        \cup {"Domain", "TLSCert", "TLSKey", "HTTPPort", "ACMEAccountKey", "ACMEURL",
              "ACMERenewDays", "LogLevel", "DNSSEC", "DNSSECKSKPath", "DNSSECZSKPath",
              "DNSSECRRSIGInception", "DNSSECRRSIGValidity", "DiagRetention"}
FromEnv(f, v) == IF v = Malformed /\ f \notin Texts THEN Zero ELSE v
EnvFails(env) == \E f \in IPLists \cap DOMAIN env : env[f] = Malformed
SetFromEnv(c, env) ==
    [f \in Fields |-> IF f \in EnvFields \cap DOMAIN env THEN FromEnv(f, env[f]) ELSE c[f]]

\* The flags, with the defaults the flag package gives them; a flag counts if its
\* value is not the zero value, given or not.  A list of separators counts, and is
\* empty.
FlagFields ==
    Ports \cup {"Domain", "Binds", "TLSCert", "TLSKey", "HTTPPort", "ACMEDomains",
                "ACMEAccountKey", "ACMEURL", "LogLevel", "ObtainCert", "DNSSEC",
                "DNSSECKSKPath", "DNSSECZSKPath", "DNSSECRRSIGInception",
                "DNSSECRRSIGValidity"}
FlagDefault(f) ==
    CASE f = "HTTPPort" -> 80
      [] f = "LogLevel" -> "info"
      [] OTHER          -> Zero
FlagValue(flags, f) == IF f \in DOMAIN flags THEN flags[f] ELSE FlagDefault(f)
FromFlag(f, v) == IF v = Malformed /\ f \in Lists THEN Zero ELSE v
FlagFails(flags) ==
    \/ ~(DOMAIN flags \subseteq FlagFields)
    \/ \E f \in FlagFields \cap (Numbers \cup Switches) \cap DOMAIN flags : flags[f] = Malformed
\* (Variant: a flag given as zero counts.)
ApplyFlagsGiven(c, flags) ==
    [f \in Fields |->
        IF f \in FlagFields \cap DOMAIN flags THEN FromFlag(f, flags[f]) ELSE c[f]]
ApplyFlags(c, flags) ==
    [f \in Fields |-> LET v == FlagValue(flags, f) IN
        IF f \in FlagFields /\ v # Zero THEN FromFlag(f, v) ELSE c[f]]

-----------------------------------------------------------------------------
TLSPorts == {"DoT", "DoH", "DoQ", "HTTPTLSPort"}
HasPair(c) == c["TLSCert"] # Zero /\ c["TLSKey"] # Zero
Validate(c) ==
    /\ c["Domain"] # Zero
    /\ c["ObtainCert"] # Zero =>
          /\ c["ACMEDomains"] # Zero \/ c["ACMEIPs"] # Zero
          /\ HasPair(c)
    /\ c["ObtainCert"] = Zero =>
          /\ (\E f \in TLSPorts : c[f] # Zero) => HasPair(c)
          /\ c["DNSSEC"] # Zero => c["DNSSECKSKPath"] # Zero /\ c["DNSSECZSKPath"] # Zero

-----------------------------------------------------------------------------
(***************************************************************************)
(* Addresses.  A bind is a wildcard, an address of a family, or a host's   *)
(* name.                                                                   *)
(***************************************************************************)
Any4 == [host |-> "0.0.0.0", family |-> 4]
Any6 == [host |-> "::", family |-> 6]
AnyHost == [host |-> "", family |-> 0]
IsWildcardBind(b) == b \in {Any4, Any6}
IsIP(b) == b.family \in {4, 6} /\ ~IsWildcardBind(b)
ASSUME InterfacesAssumption == \A ip \in InterfaceIPs : IsIP(ip)
BindsOf(c) == IF c["Binds"] = Zero THEN <<>> ELSE c["Binds"]
Elements(seq) == {seq[i] : i \in DOMAIN seq}

\* The hosts listenAddrs joins with a port that is not 0.
\* (Variant: without the collapse of the two wildcards.)
HostsUncollapsed(c) == IF BindsOf(c) = <<>> THEN <<AnyHost>> ELSE BindsOf(c)
Hosts(c) ==
    IF BindsOf(c) = <<>> \/ {Any4, Any6} \subseteq Elements(BindsOf(c)) THEN <<AnyHost>> ELSE BindsOf(c)
listenAddrs(c, port) == IF port = Zero THEN <<>> ELSE Hosts(c)

\* EffectiveServerIPs.
\* (Variant: whatever binds are addresses, the wildcards among them left out.)
EffectiveSomeIPs(c) ==
    IF c["ServerIPs"] # Zero THEN Elements(c["ServerIPs"])
    ELSE {b \in Elements(BindsOf(c)) : b.family # 0}
EffectiveServerIPs(c) ==
    IF c["ServerIPs"] # Zero THEN Elements(c["ServerIPs"])
    ELSE IF BindsOf(c) # <<>> /\ \A b \in Elements(BindsOf(c)) : IsIP(b)
    THEN Elements(BindsOf(c))
    ELSE InterfaceIPs

\* udpNetwork and tcpNetwork: the families a socket for the host receives.  DoQ
\* leaves the choice to the library, whose wildcards are of both families.
Receives(transport, host) ==
    CASE host = AnyHost \/ (transport = "DoQ" /\ IsWildcardBind(host)) -> {4, 6}
      [] host = Any6 /\ transport # "DoQ"                          -> {6}
      [] OTHER                              -> {IF host.family = 6 THEN 6 ELSE 4}
=============================================================================
