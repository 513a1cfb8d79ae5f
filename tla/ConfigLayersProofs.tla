------------------------- MODULE ConfigLayersProofs -------------------------
(***************************************************************************)
(* Proofs about ConfigLayers, for every input: every content of the file,  *)
(* the environment and the command line, and every machine.                *)
(***************************************************************************)
EXTENDS ConfigLayers, FiniteSetTheorems, TLAPS

-----------------------------------------------------------------------------
(***************************************************************************)
(* The inductive invariant: at each step the configuration is that of the  *)
(* layers read so far, and main has gone on only past what does not fail.  *)
(***************************************************************************)
WithFile == IF input.file = "read" THEN merge(DefaultConfig, input.values) ELSE DefaultConfig
WithEnv == SetFromEnv(WithFile, input.env)
WithFlags == ApplyFlags(WithEnv, input.flags)
Inv ==
    /\ input \in Inputs
    /\ step \in {"parse", "load", "env", "flags", "validate", "serve", "obtain", "exit"}
    /\ step \in {"parse", "load"} => cfg = DefaultConfig
    /\ step = "env" => cfg = WithFile
    /\ step = "flags" => cfg = WithEnv
    /\ step \in {"validate", "serve", "obtain"} => cfg = WithFlags
    /\ step \notin {"parse", "exit"} => ~FlagFails(input.flags)
    /\ step \notin {"parse", "load", "exit"} => (input.file # "read" => ~input.named)
    /\ step \notin {"parse", "load", "env", "exit"} => ~EnvFails(input.env)

LEMMA InvInit == Init => Inv
BY DEF Init, Inv

LEMMA InvStep == Inv /\ [Next]_vars => Inv'
<1> SUFFICES ASSUME Inv, [Next]_vars
             PROVE  Inv'
  OBVIOUS
<1> USE DEF Inv, WithFile, WithEnv, WithFlags
<1>1. CASE ParseFlags
  BY <1>1 DEF ParseFlags, Exit
<1>2. CASE Load
  BY <1>2 DEF Load, Exit
<1>3. CASE ReadEnv
  BY <1>3 DEF ReadEnv, Exit
<1>4. CASE OverrideByFlags
  BY <1>4 DEF OverrideByFlags
<1>5. CASE Check
  BY <1>5 DEF Check
<1>6. CASE UNCHANGED vars
  BY <1>6 DEF vars
<1> QED
  BY <1>1, <1>2, <1>3, <1>4, <1>5, <1>6 DEF Next

LEMMA Invariant == Spec => []Inv
BY InvInit, InvStep, PTL DEF Spec

-----------------------------------------------------------------------------
(***************************************************************************)
(* Precedence.                                                             *)
(***************************************************************************)
\* What main makes of one field, layer by layer.
LEMMA FieldOfLayers ==
    ASSUME NEW f \in Fields
    PROVE  LET v == FlagValue(input.flags, f) IN
           /\ WithFile[f] = IF /\ input.file = "read" /\ f \in MergedFields \cap DOMAIN input.values
                               /\ input.values[f] # Zero
                            THEN input.values[f] ELSE DefaultConfig[f]
           /\ WithEnv[f] = IF f \in EnvFields \cap DOMAIN input.env
                           THEN FromEnv(f, input.env[f]) ELSE WithFile[f]
           /\ WithFlags[f] = IF f \in FlagFields /\ v # Zero THEN FromFlag(f, v) ELSE WithEnv[f]
BY DEF WithFile, WithEnv, WithFlags, merge, SetFromEnv, ApplyFlags

\* Apart from the exceptions the property names, every setting of a program that runs
\* has the value of the highest layer that gives one, and a mistake in a layer either
\* ended the program or is one of them.
THEOREM LayersWinInOrder == Spec => []HighestLayerWins
<1>1. ASSUME Inv, Runs PROVE HighestLayerWins
  <2>1. cfg = WithFlags /\ ~FlagFails(input.flags) /\ ~EnvFails(input.env)
        /\ (input.file # "read" => ~input.named)
    BY <1>1 DEF Inv, Runs
  <2>2. ASSUME NEW f \in Fields \ NeverRead,
               ~(f \in {"HTTPPort", "LogLevel"} /\ cfg[f] = FlagDefault(f)),
               f \notin DOMAIN input.env \ EnvFields,
               ~(Mistaken(input.env, f) /\ f \notin IPLists \cup Texts /\ cfg[f] = Zero),
               ~(Mistaken(input.flags, f) /\ f \in Lists /\ cfg[f] = Zero)
        PROVE  cfg[f] = Layered(f)
    <3> DEFINE v == FlagValue(input.flags, f)
    <3>1. /\ WithFile[f] = IF /\ input.file = "read" /\ f \in MergedFields \cap DOMAIN input.values
                              /\ input.values[f] # Zero
                           THEN input.values[f] ELSE DefaultConfig[f]
          /\ WithEnv[f] = IF f \in EnvFields \cap DOMAIN input.env
                          THEN FromEnv(f, input.env[f]) ELSE WithFile[f]
          /\ cfg[f] = IF f \in FlagFields /\ v # Zero THEN FromFlag(f, v) ELSE WithEnv[f]
      BY <2>1, FieldOfLayers
    <3>2. CASE f \in FlagFields \cap DOMAIN input.flags /\ input.flags[f] # Zero
      BY <2>2, <3>1, <3>2 DEF FlagValue, FromFlag, Mistaken, Layered
    <3>3. CASE ~(f \in FlagFields \cap DOMAIN input.flags /\ input.flags[f] # Zero)
      <4>1. cfg[f] = WithEnv[f]
        <5>1. CASE f \in FlagFields /\ v # Zero
          <6>1. v = FlagDefault(f)
            BY <3>3, <5>1 DEF FlagValue
          <6>2. cfg[f] = FlagDefault(f) /\ f \in {"HTTPPort", "LogLevel"}
            BY <3>1, <5>1, <6>1 DEF FlagDefault, FromFlag, Lists
          <6> QED
            BY <2>2, <6>2
        <5> QED
          BY <3>1, <5>1
      <4>2. CASE f \in DOMAIN input.env
        <5>1. f \in EnvFields /\ cfg[f] = FromEnv(f, input.env[f])
          BY <2>2, <3>1, <4>1, <4>2
        <5>2. f \in IPLists => input.env[f] # Malformed
          BY <2>1, <4>2 DEF EnvFails
        <5>3. cfg[f] = input.env[f]
          BY <2>2, <4>2, <5>1, <5>2 DEF FromEnv, Mistaken
        <5>4. f \in TaggedInEnv
          BY <5>1 DEF EnvFields, TaggedInEnv, Ports, IPLists, Lists
        <5> QED
          BY <3>3, <4>2, <5>3, <5>4 DEF Layered
      <4>3. CASE f \notin DOMAIN input.env
        <5>1. f \in MergedFields <=> f \in TaggedInFile
          BY DEF MergedFields, TaggedInFile, NeverRead
        <5> QED
          BY <3>1, <3>3, <4>1, <4>3, <5>1 DEF Layered
      <4> QED
        BY <4>2, <4>3
    <3> QED
      BY <3>2, <3>3
  <2> QED
    BY <2>1, <2>2 DEF HighestLayerWins
<1>2. Inv => HighestLayerWins
  BY <1>1 DEF HighestLayerWins
<1> QED
  BY <1>2, Invariant, PTL

\* A layer that is read later never takes back what an earlier one set, except by a
\* variable that is zero or does not parse, or a flag with a list of separators.
THEOREM SettingsStay == Spec => NothingTakenBack
<1> DEFINE Stays ==
        \A f \in Fields : cfg[f] # Zero /\ cfg'[f] = Zero =>
            \/ step = "env" /\ f \in DOMAIN input.env /\ input.env[f] \in {Zero, Malformed}
            \/ step = "flags" /\ f \in Lists /\ Mistaken(input.flags, f)
<1>1. ASSUME Next PROVE Stays
  <2> SUFFICES ASSUME NEW f \in Fields, cfg[f] # Zero, cfg'[f] = Zero
               PROVE  \/ step = "env" /\ f \in DOMAIN input.env /\ input.env[f] \in {Zero, Malformed}
                      \/ step = "flags" /\ f \in Lists /\ Mistaken(input.flags, f)
    BY DEF Stays
  <2>1. CASE Load
    BY <2>1 DEF Load, Exit, merge
  <2>2. CASE ReadEnv
    BY <2>2 DEF ReadEnv, Exit, SetFromEnv, FromEnv
  <2>3. CASE OverrideByFlags
    <3>1. cfg'[f] = IF f \in FlagFields /\ FlagValue(input.flags, f) # Zero
                    THEN FromFlag(f, FlagValue(input.flags, f)) ELSE cfg[f]
      BY <2>3 DEF OverrideByFlags, ApplyFlags
    <3>2. f \in FlagFields /\ FlagValue(input.flags, f) = Malformed /\ f \in Lists
      BY <3>1 DEF FromFlag
    <3>3. FlagDefault(f) = Zero
      BY <3>2 DEF FlagDefault, Lists
    <3>4. f \in DOMAIN input.flags
      BY <3>1, <3>2, <3>3 DEF FlagValue
    <3> QED
      BY <2>3, <3>2, <3>4 DEF OverrideByFlags, FlagValue, Mistaken
  <2>4. CASE ParseFlags \/ Check
    BY <2>4 DEF ParseFlags, Check, Exit
  <2> QED
    BY <1>1, <2>1, <2>2, <2>3, <2>4 DEF Next
<1>2. [Next]_vars => [Stays]_vars
  BY <1>1
<1>3. Spec => [][Stays]_vars
  BY <1>2, PTL DEF Spec
<1> QED
  BY <1>3 DEF NothingTakenBack, Stays

-----------------------------------------------------------------------------
(***************************************************************************)
(* Addresses.                                                              *)
(***************************************************************************)
\* Whatever the layers were, the binds of a configuration are a list of hosts.
LEMMA BindsAreHosts == ASSUME Inv, Runs PROVE BindsOf(cfg) \in Seq(Host)
<1>1. cfg = WithFlags /\ input \in Inputs
  BY DEF Inv, Runs
<1>2. "Binds" \in Fields /\ "Binds" \in Lists /\ "Binds" \notin Texts
  BY DEF Fields, Lists, Texts
<1>3. DefaultConfig["Binds"] = Zero
  BY <1>2 DEF DefaultConfig
<1>4. FlagDefault("Binds") = Zero
  BY DEF FlagDefault
<1>5. /\ "Binds" \in DOMAIN input.values => input.values["Binds"] \in {Zero} \cup Seq(Host)
      /\ \A layer \in {input.env, input.flags} :
            "Binds" \in DOMAIN layer => layer["Binds"] \in {Zero, Malformed} \cup Seq(Host)
  BY <1>1, InputsAssumption DEF HostsOrNone
<1> DEFINE v == FlagValue(input.flags, "Binds")
<1>6. WithFile["Binds"] \in {Zero} \cup Seq(Host)
  BY <1>2, <1>3, <1>5, FieldOfLayers
<1>7. WithEnv["Binds"] \in {Zero} \cup Seq(Host)
  BY <1>2, <1>5, <1>6, FieldOfLayers DEF FromEnv
<1>8. cfg["Binds"] \in {Zero} \cup Seq(Host)
  <2>1. cfg["Binds"] = IF "Binds" \in FlagFields /\ v # Zero THEN FromFlag("Binds", v) ELSE WithEnv["Binds"]
    BY <1>1, <1>2, FieldOfLayers
  <2>2. v \in {Zero, Malformed} \cup Seq(Host)
    BY <1>4, <1>5 DEF FlagValue
  <2> QED
    BY <1>2, <1>7, <2>1, <2>2 DEF FromFlag
<1>9. <<>> \in Seq(Host)
  OBVIOUS
<1> QED
  BY <1>8, <1>9 DEF BindsOf

\* What the three wildcards are, and what a host receives.
LEMMA WildcardFacts ==
    /\ AnyHost # Any4 /\ AnyHost # Any6 /\ Any4 # Any6
    /\ Any4.family = 4 /\ Any6.family = 6 /\ AnyHost.family = 0
    /\ \A b : IsWildcardBind(b) <=> b = Any4 \/ b = Any6
BY DEF AnyHost, Any4, Any6, IsWildcardBind

LEMMA ReceivesFacts ==
    /\ \A t : Receives(t, AnyHost) = {4, 6}
    /\ \A h : Receives("UDP", h) # {} /\ Receives("UDP", h) \subseteq {4, 6}
    /\ \A t, h : t # "DoQ" => Receives(t, h) = Receives("UDP", h)
    /\ \A t, h : ~IsWildcardBind(h) => Receives(t, h) = Receives("UDP", h)
    /\ \A h : h # AnyHost /\ ~IsWildcardBind(h) =>
          Receives("UDP", h) = {IF h.family = 6 THEN 6 ELSE 4}
<1>1. ASSUME NEW t, NEW h, h = AnyHost \/ (t = "DoQ" /\ IsWildcardBind(h))
      PROVE  Receives(t, h) = {4, 6}
  <2>1. ~(h = Any6 /\ t # "DoQ")
    BY <1>1, WildcardFacts
  <2> QED
    BY <1>1, <2>1 DEF Receives
<1>2. ASSUME NEW t, NEW h, h # AnyHost, ~(t = "DoQ" /\ IsWildcardBind(h))
      PROVE  Receives(t, h) = IF h = Any6 /\ t # "DoQ" THEN {6}
                              ELSE {IF h.family = 6 THEN 6 ELSE 4}
  BY <1>2 DEF Receives
<1>3. \A h : ~IsWildcardBind(h) => h # Any6
  BY WildcardFacts
<1>4. ASSUME NEW t, NEW h, t # "DoQ" \/ ~IsWildcardBind(h)
      PROVE  /\ Receives(t, h) = Receives("UDP", h)
             /\ Receives(t, h) # {} /\ Receives(t, h) \subseteq {4, 6}
             /\ h # AnyHost /\ ~IsWildcardBind(h) =>
                   Receives(t, h) = {IF h.family = 6 THEN 6 ELSE 4}
  <2>1. CASE h = AnyHost
    BY <1>1, <2>1
  <2>2. CASE h # AnyHost
    <3>1. Receives(t, h) = IF h = Any6 /\ t # "DoQ" THEN {6}
                           ELSE {IF h.family = 6 THEN 6 ELSE 4}
      BY <1>2, <1>4, <2>2
    <3>2. Receives("UDP", h) = IF h = Any6 THEN {6} ELSE {IF h.family = 6 THEN 6 ELSE 4}
      BY <1>2, <2>2
    <3> QED
      BY <1>3, <1>4, <2>2, <3>1, <3>2
  <2> QED
    BY <2>1, <2>2
<1>5. \A t : Receives(t, AnyHost) = {4, 6}
  BY <1>1
<1> QED
  BY <1>4, <1>5

\* The sockets of one port collide only if the binds name an address twice or a wildcard
\* besides an address it covers; of DoQ's, whose wildcard covers both families, also if they
\* name one wildcard besides an address of the other.
THEOREM PortsDoNotCollide == Spec => []SocketsApart
<1>1. ASSUME Inv, Runs, NEW f \in Ports, Colliding(f, listenAddrs(cfg, cfg[f])),
             ~Colliding("UDP", BindsOf(cfg))
      PROVE  f = "DoQ" /\ HasOneWildcard
  <2> DEFINE B == BindsOf(cfg)
  <2>1. B \in Seq(Host)
    BY <1>1, BindsAreHosts
  <2>2. PICK i, j \in DOMAIN listenAddrs(cfg, cfg[f]) :
           i < j /\ Collide(f, listenAddrs(cfg, cfg[f])[i], listenAddrs(cfg, cfg[f])[j])
    BY <1>1 DEF Colliding
  <2>3. listenAddrs(cfg, cfg[f]) = B /\ ~({Any4, Any6} \subseteq Elements(B))
    BY <2>2 DEF listenAddrs, Hosts
  <2> DEFINE a == B[i]
             b == B[j]
  <2>4. i \in DOMAIN B /\ j \in DOMAIN B /\ i < j /\ Collide(f, a, b) /\ ~Collide("UDP", a, b)
    BY <1>1, <2>2, <2>3 DEF Colliding
  <2>5. a \in Elements(B) /\ b \in Elements(B)
    BY <2>4 DEF Elements
  <2> HIDE DEF a, b
  <2>6. f = "DoQ"
    BY <2>4, ReceivesFacts DEF Collide
  <2>7. a # b /\ {a, b} \cap Wildcards # {} /\ Receives("UDP", a) \cap Receives("UDP", b) = {}
    BY <2>4, ReceivesFacts DEF Collide
  <2>8. PICK w \in {a, b} : w \in Wildcards
    BY <2>7
  <2>9. w # AnyHost
    BY <2>7, <2>8, ReceivesFacts
  <2>10. w \in Elements(B) /\ w \in {Any4, Any6}
    BY <2>5, <2>8, <2>9 DEF Wildcards
  <2>11. AnyHost \notin Elements(B)
    <3>1. SUFFICES ASSUME AnyHost \in Elements(B) PROVE FALSE
      OBVIOUS
    <3>2. PICK k \in DOMAIN B : B[k] = AnyHost
      BY <3>1 DEF Elements
    <3>3. PICK l \in DOMAIN B : B[l] = w
      BY <2>10 DEF Elements
    <3>4. k # l /\ k \in Nat /\ l \in Nat
      BY <2>1, <2>9, <3>2, <3>3
    <3>5. Collide("UDP", AnyHost, w) /\ Collide("UDP", w, AnyHost)
      BY ReceivesFacts DEF Collide, Wildcards
    <3>6. k < l \/ l < k
      BY <3>4
    <3> QED
      BY <1>1, <3>2, <3>3, <3>5, <3>6 DEF Colliding
  <2>12. Elements(B) \cap Wildcards = {w}
    BY <2>3, <2>10, <2>11 DEF Wildcards
  <2>13. Cardinality({w}) = 1
    BY FS_Singleton
  <2> QED
    BY <2>6, <2>12, <2>13 DEF HasOneWildcard
<1>2. Inv => SocketsApart
  BY <1>1 DEF SocketsApart
<1> QED
  BY <1>2, Invariant, PTL

\* Every address the zone advertises for itself is one the server listens on, apart from
\* the two kinds of binds the property names.
THEOREM AdvertisedAddressesAreServed == Spec => []AdvertisedIsServed
<1>1. ASSUME Inv, Runs, cfg["ServerIPs"] = Zero, cfg["UDP"] # Zero, ~HasOneWildcard,
             ~(/\ \E b \in Elements(BindsOf(cfg)) : b.family = 0
               /\ ~({Any4, Any6} \subseteq Elements(BindsOf(cfg)))),
             NEW ip \in EffectiveServerIPs(cfg)
      PROVE  IsIP(ip) /\ ServedBy(listenAddrs(cfg, cfg["UDP"]), ip)
  <2> DEFINE B == BindsOf(cfg)
  <2>1. B \in Seq(Host)
    BY <1>1, BindsAreHosts
  <2>2. listenAddrs(cfg, cfg["UDP"]) = Hosts(cfg)
    BY <1>1 DEF listenAddrs
  <2>3. CASE B # <<>> /\ \A b \in Elements(B) : IsIP(b)
    <3>1. ip \in Elements(B) /\ IsIP(ip)
      BY <1>1, <2>3 DEF EffectiveServerIPs
    <3>2. Hosts(cfg) = B
      BY <2>3, WildcardFacts DEF Hosts, IsIP
    <3>3. PICK i \in DOMAIN B : B[i] = ip
      BY <3>1 DEF Elements
    <3>4. ip # AnyHost /\ ~IsWildcardBind(ip) /\ ip.family \in {4, 6}
      BY <3>1, WildcardFacts DEF IsIP
    <3>5. ip.family \in Receives("UDP", ip)
      BY <3>4, ReceivesFacts
    <3> QED
      BY <2>2, <3>1, <3>2, <3>3, <3>5 DEF ServedBy
  <2>4. CASE ~(B # <<>> /\ \A b \in Elements(B) : IsIP(b))
    <3>1. ip \in InterfaceIPs /\ IsIP(ip) /\ ip.family \in {4, 6}
      BY <1>1, <2>4, InterfacesAssumption DEF EffectiveServerIPs, IsIP
    <3>2. B = <<>> \/ {Any4, Any6} \subseteq Elements(B)
      <4>1. SUFFICES ASSUME B # <<>>, ~({Any4, Any6} \subseteq Elements(B)) PROVE FALSE
        OBVIOUS
      <4>2. PICK b \in Elements(B) : ~IsIP(b)
        BY <2>4, <4>1
      <4>3. \A c \in Elements(B) : c \in Host /\ c.family # 0
        BY <1>1, <2>1, <4>1 DEF Elements
      <4>4. b \in {Any4, Any6}
        BY <4>2, <4>3, WildcardFacts DEF IsIP, Host
      <4>5. AnyHost \notin Elements(B)
        BY <4>3, WildcardFacts
      <4>6. Elements(B) \cap Wildcards = {b}
        BY <4>1, <4>4, <4>5 DEF Wildcards
      <4>7. Cardinality({b}) = 1
        BY FS_Singleton
      <4> QED
        BY <1>1, <4>6, <4>7 DEF HasOneWildcard
    <3>3. Hosts(cfg) = <<AnyHost>>
      BY <3>2 DEF Hosts
    <3>4. ServedBy(<<AnyHost>>, ip)
      BY <3>1, ReceivesFacts DEF ServedBy, Wildcards
    <3> QED
      BY <2>2, <3>1, <3>3, <3>4
  <2> QED
    BY <2>3, <2>4
<1>2. Inv => AdvertisedIsServed
  BY <1>1 DEF AdvertisedIsServed
<1> QED
  BY <1>2, Invariant, PTL
=============================================================================
