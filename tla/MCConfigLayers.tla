--------------------------- MODULE MCConfigLayers ---------------------------
(***************************************************************************)
(* Inputs of ConfigLayers for TLC: every setting alone, in every layer and *)
(* in every state of the file, on top of a machine whose settings are      *)
(* valid; every list of binds of up to three; and the cases of Validate.   *)
(***************************************************************************)
EXTENDS ConfigLayers, TLC

Addr4 == [host |-> "192.0.2.1", family |-> 4]
Addr6 == [host |-> "2001:db8::1", family |-> 6]
Name == [host |-> "localhost", family |-> 0]
TwoInterfaces == {Addr4, Addr6}

Nothing == [f \in {} |-> Zero]
Base ==
    [named |-> TRUE, file |-> "read", values |-> Nothing,
     env |-> "DNSSECKSKPath" :> "ksk" @@ "DNSSECZSKPath" :> "zsk",
     flags |-> "Domain" :> "zone" @@ "TLSCert" :> "cert" @@ "TLSKey" :> "key"]
And(layer, f, v) == (f :> v) @@ layer

\* A value of the field's type, another one in each layer.
Value(f, layer) ==
    CASE f \in Lists \cup IPLists       -> IF layer = "env" THEN <<Addr6>> ELSE <<Addr4>>
      [] f \in Numbers \cup SOANumbers -> IF layer = "env" THEN 8001 ELSE 8002
      [] f \in Switches                -> TRUE
      [] f \in Texts                   -> layer

OneField ==
    UNION {{[Base EXCEPT !.named = named, !.file = file,
                         !.values = CASE inFile = "set"   -> And(@, f, Value(f, "file"))
                                      [] inFile = "zero"  -> And(@, f, Zero)
                                      [] inFile = "unset" -> @,
                         !.env = CASE var = "set"       -> And(@, f, Value(f, "env"))
                                   [] var = "zero" /\ f \notin Texts -> And(@, f, Zero)
                                   [] var = "zero" /\ f \in Texts -> @
                                   [] var = "malformed" -> And(@, f, Malformed)
                                   [] var = "unset"     -> @,
                         !.flags = CASE flag = "set"       -> And(@, f, Value(f, "flag"))
                                     [] flag = "malformed" -> And(@, f, Malformed)
                                     [] flag = "zero"      -> And(@, f, Zero)
                                     [] flag = "unset"     -> @] :
        named \in BOOLEAN, file \in {"missing", "malformed", "read"}, inFile \in {"unset", "zero", "set"},
        var \in {"unset", "zero", "malformed", "set"}, flag \in {"unset", "zero", "malformed", "set"}} :
    f \in Fields}

BindLists == UNION {[1..n -> {Any4, Any6, Addr4, Addr6, Name}] : n \in 1..3}
ManyBinds ==
    {[Base EXCEPT !.values = "Binds" :> binds, !.flags = And(@, "DoQ", 853)] : binds \in BindLists}

Validated ==
    {[Base EXCEPT !.values = IF tls THEN "HTTPTLSPort" :> 443 ELSE @,
                  !.env = (IF dnssec THEN "DNSSEC" :> TRUE ELSE Nothing)
                          @@ (IF ips THEN "ACMEIPs" :> <<Addr4>> ELSE Nothing)
                          @@ (IF ksk THEN "DNSSECKSKPath" :> "ksk" ELSE Nothing),
                  !.flags = (IF obtain THEN "ObtainCert" :> TRUE ELSE Nothing)
                            @@ (IF key THEN "TLSKey" :> "key" @@ "DNSSECZSKPath" :> "zsk" ELSE Nothing)
                            @@ (IF names THEN "ACMEDomains" :> <<Name>> ELSE Nothing)
                            @@ "Domain" :> "zone" @@ "TLSCert" :> "cert"] :
        tls, dnssec, ips, ksk, obtain, key, names \in BOOLEAN}

AllInputs == OneField \cup ManyBinds \cup Validated

\* The unit file's advice, with nothing else said about the log.
DebugInputs ==
    {[Base EXCEPT !.values = IF other THEN "SOARetry" :> 60 ELSE @,
                  !.env = IF debug THEN "LogLevel" :> "debug" ELSE @] : other, debug \in BOOLEAN}
=============================================================================
