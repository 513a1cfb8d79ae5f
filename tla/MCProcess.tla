------------------------------ MODULE MCProcess -----------------------------
(***************************************************************************)
(* Instances of Process for TLC: DoH on the port of HTTPS, as in the       *)
(* example configuration; a server without HTTPS, whose listeners load the *)
(* pair on their own; two whose challenges the CA cannot fetch; and one    *)
(* that gives ports twice.                                                 *)
(***************************************************************************)
EXTENDS Process

WithPair ==
    [DefaultConfig EXCEPT !["Domain"] = "zone", !["TLSCert"] = "cert.pem", !["TLSKey"] = "key.pem",
                          !["ACMERenewDays"] = 1]
Example ==
    [WithPair EXCEPT !["HTTPTLSPort"] = 443, !["DoH"] = 443, !["DoT"] = 853,
                     !["ACMEDomains"] = <<"apex", "diag">>]
NoHTTPS == [WithPair EXCEPT !["DoH"] = 443, !["DoQ"] = 8853, !["ACMEDomains"] = <<"apex">>]
Unreachable == [WithPair EXCEPT !["HTTPPort"] = 8080, !["ACMEDomains"] = <<"apex">>]
Entropy == [WithPair EXCEPT !["ACMEDomains"] = <<"entropy">>]
Twice == [WithPair EXCEPT !["DoT"] = 853, !["DoH"] = 853, !["DoQ"] = 53]
Machine(config, taken) == [cfg |-> config, foreign |-> taken]
SixMachines ==
    {Machine(Example, {}), Machine(Example, {<<"udp", 53>>}), Machine(NoHTTPS, {<<"tcp", 443>>}),
     Machine(Unreachable, {}), Machine(Entropy, {}), Machine(Twice, {})}
=============================================================================
