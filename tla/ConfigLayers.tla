---------------------------- MODULE ConfigLayers ----------------------------
(***************************************************************************)
(* The first steps of main: defaults, the file, the environment and the    *)
(* flags, one layer over the other, then validation.                       *)
(***************************************************************************)
EXTENDS Config

CONSTANTS
    Inputs      \* [named, file, values, env, flags]: what the machine gives the program

\* In each layer binds are hosts; a file that was read has parsed.
Host == [host : STRING, family : {0, 4, 6}]
HostsOrNone(layer) == "Binds" \in DOMAIN layer => layer["Binds"] \in {Zero} \cup Seq(Host)
ASSUME InputsAssumption ==
    \A i \in Inputs : /\ HostsOrNone(i.values)
                      /\ \A layer \in {i.env, i.flags} :
                            HostsOrNone(layer) \/ layer["Binds"] = Malformed

VARIABLES
    step,       \* what main does next
    input,
    cfg

vars == <<step, input, cfg>>

Init ==
    /\ step = "parse"
    /\ input \in Inputs
    /\ cfg = DefaultConfig

Exit == step' = "exit" /\ UNCHANGED cfg

\* flag.Parse exits at a flag it does not know and at a number that is none.
ParseFlags ==
    /\ step = "parse"
    /\ IF FlagFails(input.flags) THEN Exit ELSE step' = "load" /\ UNCHANGED cfg
    /\ UNCHANGED input

\* The file named by -config must be there and parse; of the one in the home
\* directory neither is asked.
Load ==
    /\ step = "load"
    /\ IF input.file # "read" /\ input.named THEN Exit
       ELSE /\ step' = "env"
            /\ cfg' = IF input.file = "read" THEN merge(cfg, input.values) ELSE cfg
    /\ UNCHANGED input

ReadEnv ==
    /\ step = "env"
    /\ IF EnvFails(input.env) THEN Exit
       ELSE step' = "flags" /\ cfg' = SetFromEnv(cfg, input.env)
    /\ UNCHANGED input

OverrideByFlags ==
    /\ step = "flags"
    /\ step' = "validate"
    /\ cfg' = ApplyFlags(cfg, input.flags)
    /\ UNCHANGED input

Check ==
    /\ step = "validate"
    /\ step' = CASE ~Validate(cfg)                       -> "exit"
                 [] Validate(cfg) /\ cfg["ObtainCert"] # Zero -> "obtain"
                 [] OTHER                                -> "serve"
    /\ UNCHANGED <<input, cfg>>

Next == ParseFlags \/ Load \/ ReadEnv \/ OverrideByFlags \/ Check
Spec == Init /\ [][Next]_vars

-----------------------------------------------------------------------------
Runs == step \in {"serve", "obtain"}

\* The layers as the tags of the struct and the flags' help declare them: a flag
\* overrides a variable, a variable the file, the file the default.  A zero in the
\* file or of a flag gives no value, as the comment of merge has it.
Mistaken(layer, f) == f \in DOMAIN layer /\ layer[f] = Malformed
TaggedInFile == Fields \ {"ConfigPath", "ObtainCert"}
TaggedInEnv == Fields \ {"ObtainCert"}
Layered(f) ==
    IF f \in FlagFields \cap DOMAIN input.flags /\ input.flags[f] # Zero
    THEN input.flags[f]
    ELSE IF f \in TaggedInEnv \cap DOMAIN input.env THEN input.env[f]
    ELSE IF /\ f \in TaggedInFile \cap DOMAIN input.values /\ input.file = "read"
            /\ input.values[f] # Zero
    THEN input.values[f]
    ELSE DefaultConfig[f]

\* Every setting has the value of the highest layer that gives one, as declared.
\* Three kinds of settings do not: the HTTP port and the log level, whose flags
\* have a default that beats file and environment; the host's name and Foreground,
\* which nothing reads; and variables that are declared and never read, or that do
\* not parse, or lists of separators.  Such a variable ends the program only if it
\* lists addresses, and a file that cannot be read only if it was named.
NeverRead == {"Hostname", "Foreground"}
HighestLayerWins ==
    Runs =>
        /\ input.file # "read" => ~input.named
        /\ \A f \in Fields \ NeverRead :
              \/ cfg[f] = Layered(f)
              \/ f \in {"HTTPPort", "LogLevel"} /\ cfg[f] = FlagDefault(f)
              \/ f \in DOMAIN input.env \ EnvFields
              \/ Mistaken(input.env, f) /\ f \notin IPLists \cup Texts /\ cfg[f] = Zero
              \/ Mistaken(input.flags, f) /\ f \in Lists /\ cfg[f] = Zero

\* No layer takes back what the one before it set: only a variable can, with zero or
\* with a number, a switch or a list that does not parse, and a flag with a list of
\* separators.  A flag given as 0, "disabled" in its help, disables nothing.
NothingTakenBack ==
    [][\A f \in Fields : cfg[f] # Zero /\ cfg'[f] = Zero =>
          \/ step = "env" /\ f \in DOMAIN input.env /\ input.env[f] \in {Zero, Malformed}
          \/ step = "flags" /\ f \in Lists /\ Mistaken(input.flags, f)]_vars

\* "Avoids address already in use": the sockets of one port do not collide unless
\* the binds ask for that, with a bind twice or a wildcard besides an address of its
\* family.  DoQ, whose wildcards are of both families, collides also with a wildcard
\* besides an address of the other family.
Wildcards == {AnyHost, Any4, Any6}
Collide(transport, a, b) ==
    /\ Receives(transport, a) \cap Receives(transport, b) # {}
    /\ a = b \/ {a, b} \cap Wildcards # {}
Colliding(transport, hosts) ==
    \E i, j \in DOMAIN hosts : i < j /\ Collide(transport, hosts[i], hosts[j])
HasOneWildcard == Cardinality(Elements(BindsOf(cfg)) \cap Wildcards) = 1
SocketsApart ==
    Runs => \A f \in Ports : Colliding(f, listenAddrs(cfg, cfg[f])) =>
        Colliding("UDP", BindsOf(cfg)) \/ (f = "DoQ" /\ HasOneWildcard)

\* The addresses in the zone's own A and AAAA records are served, unless server_ips
\* says otherwise.  Two kinds of binds advertise more than they serve: a wildcard of
\* one family only, and a list with a host's name in it.
ServedBy(hosts, ip) ==
    \E i \in DOMAIN hosts : /\ ip.family \in Receives("UDP", hosts[i])
                            /\ hosts[i] \in Wildcards \cup {ip}
AdvertisedIsServed ==
    Runs /\ cfg["ServerIPs"] = Zero /\ cfg["UDP"] # Zero =>
        \/ \A ip \in EffectiveServerIPs(cfg) : IsIP(ip) /\ ServedBy(listenAddrs(cfg, cfg["UDP"]), ip)
        \/ HasOneWildcard
        \/ /\ \E b \in Elements(BindsOf(cfg)) : b.family = 0
           /\ ~({Any4, Any6} \subseteq Elements(BindsOf(cfg)))

-----------------------------------------------------------------------------
\* The unit file says to set GADGET_LOG_LEVEL=debug "for verbose logs when
\* debugging": without a flag the variable decides.
LogLevelFromEnv ==
    Runs /\ "LogLevel" \in DOMAIN input.env \ DOMAIN input.flags
        => cfg["LogLevel"] = input.env["LogLevel"]
=============================================================================
