------------------------------- MODULE Process ------------------------------
(***************************************************************************)
(* The life of the processes on one machine: the server, which systemd     *)
(* restarts when it fails, and the --obtain-cert run an operator starts.   *)
(* They are the same program with the same configuration, and share its    *)
(* ports and the two files of the certificate.  main.go has the order of   *)
(* the steps, internal/server and internal/httpapi the listeners, and      *)
(* internal/acme/obtain.go what fetches and writes a certificate.          *)
(*                                                                         *)
(* A certificate is a name; its key has the same name.  A file holds one,  *)
(* or is Cut: missing, empty, or written in part.  The sockets of a port   *)
(* are one, as for a configuration without binds.                          *)
(***************************************************************************)
EXTENDS Config

CONSTANTS
    Machines,       \* [cfg, foreign]: a configuration, and the sockets of other programs
    Certs,          \* bound: names for certificates, and their keys
    Lifetime,       \* of a new certificate, in days
    MaxFaults,      \* bound: crashes and failed writes
    MaxObtains      \* bound: runs of --obtain-cert

\* 80 is not Go's zero value, and the names are not taken.
ASSUME ProcessAssumption ==
    /\ Zero # 80
    /\ Certs # {} /\ Certs \cap {"cut", "none"} = {}
    /\ Lifetime \in Nat /\ MaxFaults \in Nat /\ MaxObtains \in Nat

VARIABLES
    cfg,            \* the configuration, of both
    foreign,        \* the sockets other programs hold
    pc,             \* what each process does next
    sockets,        \* the sockets of each process
    task,           \* what the goroutine of each TLS listener does next
    served,         \* the certificate it loaded
    renewal,        \* what runRenewal does next
    order,          \* what Obtain does next in each process, and with what
    chals,          \* the tokens of the order the process's responder knows
    disk,           \* the two files
    left,           \* days until a certificate expires
    faults, obtains,
    wholeAtStart    \* history: the pair was whole when the server took its HTTP port

running == <<pc, sockets, task, served, renewal, order, chals, wholeAtStart>>
world == <<cfg, foreign, disk, left, faults, obtains>>
vars == <<running, world>>

Processes == {"server", "tool"}
Listeners == {"HTTPS", "DoT", "DoH", "DoQ"}
Cut == "cut"
None == "none"
NoOrder == [step |-> None, next |-> 1, cert |-> None]

HTTPSocket == <<"tcp", IF cfg["HTTPPort"] = Zero THEN 80 ELSE cfg["HTTPPort"]>>
UDPSocket == <<"udp", cfg["UDP"]>>
TCPSocket == <<"tcp", cfg["TCP"]>>
PortOf(l) == IF l = "HTTPS" THEN cfg["HTTPTLSPort"] ELSE cfg[l]
SocketOf(l) == <<IF l = "DoQ" THEN "udp" ELSE "tcp", PortOf(l)>>

\* DoH on the port of HTTPS is served there and has no listener of its own.
\* (Variant: it has.)
HasOwnListener(l) == HasPair(cfg) /\ PortOf(l) # Zero
HasListener(l) ==
    HasPair(cfg) /\ PortOf(l) # Zero /\ (l = "DoH" => cfg["DoH"] # cfg["HTTPTLSPort"])

Free(socket) == socket \notin foreign /\ \A p \in Processes : socket \notin sockets[p]
Domains == IF cfg["ACMEDomains"] = Zero THEN <<>> ELSE cfg["ACMEDomains"]

\* tls.LoadX509KeyPair: the key belongs to the certificate.  Whether that has
\* expired does not matter.
PairLoads == disk.cert # Cut /\ disk.cert = disk.key

NoTasks == [l \in Listeners |-> "off"]
Init ==
    /\ \E m \in Machines : cfg = m.cfg /\ foreign = m.foreign
    /\ pc = [p \in Processes |-> IF p = "server" THEN "down" ELSE "idle"]
    /\ sockets = [p \in Processes |-> {}]
    /\ task = NoTasks
    /\ served = [l \in Listeners |-> None]
    /\ renewal = "off"
    /\ order = [p \in Processes |-> NoOrder]
    /\ chals = [p \in Processes |-> {}]
    /\ \E c \in {Cut, CHOOSE c \in Certs : TRUE} :
          /\ disk = [cert |-> c, key |-> c]
          /\ left = [d \in Certs |-> IF d = c THEN Lifetime ELSE 0]
    /\ faults = 0
    /\ obtains = 0
    /\ wholeAtStart = FALSE

-----------------------------------------------------------------------------
(***************************************************************************)
(* The end of a process takes its goroutines and sockets with it.  systemd *)
(* starts the server again unless it ended well.                           *)
(***************************************************************************)
Writing(p) == order[p].step \in {"cert", "key", "certCut", "keyCut"}
End(p, then) ==
    /\ pc' = [pc EXCEPT ![p] = then]
    /\ sockets' = [sockets EXCEPT ![p] = {}]
    /\ order' = [order EXCEPT ![p] = NoOrder]
    /\ chals' = [chals EXCEPT ![p] = {}]
    /\ IF p = "server"
       THEN /\ task' = NoTasks /\ served' = [l \in Listeners |-> None] /\ renewal' = "off"
            /\ wholeAtStart' = FALSE
       ELSE UNCHANGED <<task, served, renewal, wholeAtStart>>
ExitFailed(p) == End(p, IF p = "server" THEN "down" ELSE "idle")

Goto(p, step) == pc' = [pc EXCEPT ![p] = step]
\* Bind a socket and go on, or exit.
BindOrExit(p, socket, step) ==
    IF Free(socket)
    THEN /\ sockets' = [sockets EXCEPT ![p] = @ \cup {socket}]
         /\ Goto(p, step)
         /\ UNCHANGED <<task, served, renewal, order, chals, wholeAtStart>>
    ELSE ExitFailed(p)

-----------------------------------------------------------------------------
(***************************************************************************)
(* The server's start: HTTP, the pair for HTTPS, UDP, TCP, then the        *)
(* goroutines of the other TLS listeners, and renewal.                     *)
(***************************************************************************)
Restart ==
    /\ pc["server"] = "down" /\ Validate(cfg)
    /\ Goto("server", "http")
    /\ UNCHANGED <<sockets, task, served, renewal, order, chals, wholeAtStart, world>>

\* (Variant: the error of a listener that is bound in the background is logged.)
StartHTTPUnbound ==
    /\ pc["server"] = "http"
    /\ Goto("server", "pair")
    /\ sockets' = IF Free(HTTPSocket)
                  THEN [sockets EXCEPT !["server"] = @ \cup {HTTPSocket}] ELSE sockets
    /\ wholeAtStart' = PairLoads
    /\ UNCHANGED <<task, served, renewal, order, chals, world>>
StartHTTP ==
    /\ pc["server"] = "http"
    /\ IF Free(HTTPSocket)
       THEN /\ sockets' = [sockets EXCEPT !["server"] = @ \cup {HTTPSocket}]
            /\ Goto("server", "pair")
            /\ wholeAtStart' = PairLoads
            /\ UNCHANGED <<task, served, renewal, order, chals>>
       ELSE ExitFailed("server")
    /\ UNCHANGED world

LoadHTTPSPair ==
    /\ pc["server"] = "pair"
    /\ CASE ~HasListener("HTTPS") ->
                Goto("server", "udp")
                /\ UNCHANGED <<sockets, task, served, renewal, order, chals, wholeAtStart>>
         [] HasListener("HTTPS") /\ PairLoads ->
                /\ Goto("server", "udp")
                /\ served' = [served EXCEPT !["HTTPS"] = disk.cert]
                /\ task' = [task EXCEPT !["HTTPS"] = "bind"]
                /\ UNCHANGED <<sockets, renewal, order, chals, wholeAtStart>>
         [] OTHER -> ExitFailed("server")
    /\ UNCHANGED world

BindUDP(p) ==
    /\ pc[p] = "udp"
    /\ IF cfg["UDP"] = Zero
       THEN Goto(p, "tcp")
            /\ UNCHANGED <<sockets, task, served, renewal, order, chals, wholeAtStart>>
       ELSE BindOrExit(p, UDPSocket, "tcp")
    /\ UNCHANGED world

HasRenewal == HasPair(cfg) /\ Domains # <<>> /\ cfg["ACMERenewDays"] # Zero
\* DoT and DoQ load the pair before they bind, DoH after it.
Spawned ==
    [l \in Listeners |->
        CASE l = "HTTPS"                                -> task[l]
          [] l \in {"DoT", "DoQ"} /\ HasListener(l)      -> "load"
          [] l = "DoH" /\ HasListener(l)                 -> "bind"
          [] OTHER                                      -> "off"]
BindTCP ==
    /\ pc["server"] = "tcp"
    /\ IF cfg["TCP"] = Zero \/ Free(TCPSocket)
       THEN /\ sockets' = IF cfg["TCP"] = Zero THEN sockets
                          ELSE [sockets EXCEPT !["server"] = @ \cup {TCPSocket}]
            /\ task' = Spawned
            /\ renewal' = IF HasRenewal THEN "wait" ELSE "off"
            /\ Goto("server", "serving")
            /\ UNCHANGED <<served, order, chals, wholeAtStart>>
       ELSE ExitFailed("server")
    /\ UNCHANGED world

\* Only DoH has a socket to close again.
LoadPair(l) ==
    /\ task[l] = "load"
    /\ task' = [task EXCEPT ![l] = IF ~PairLoads THEN "failed"
                                   ELSE IF l = "DoH" THEN "up" ELSE "bind"]
    /\ served' = IF PairLoads THEN [served EXCEPT ![l] = disk.cert] ELSE served
    /\ sockets' = IF PairLoads \/ l # "DoH" THEN sockets
                  ELSE [sockets EXCEPT !["server"] = @ \ {SocketOf(l)}]
    /\ UNCHANGED <<pc, renewal, order, chals, wholeAtStart, world>>

Listen(l) ==
    /\ task[l] = "bind"
    /\ IF Free(SocketOf(l))
       THEN /\ task' = [task EXCEPT ![l] = IF l = "DoH" THEN "load" ELSE "up"]
            /\ sockets' = [sockets EXCEPT !["server"] = @ \cup {SocketOf(l)}]
       ELSE task' = [task EXCEPT ![l] = "failed"] /\ UNCHANGED sockets
    /\ UNCHANGED <<pc, served, renewal, order, chals, wholeAtStart, world>>

\* A signal: Close stops UDP and TCP, and the end of main the rest.
Close ==
    /\ pc["server"] = "serving"
    /\ Goto("server", "closed")
    /\ sockets' = [sockets EXCEPT !["server"] = @ \ {UDPSocket, TCPSocket}]
    /\ UNCHANGED <<task, served, renewal, order, chals, wholeAtStart, world>>
Return == pc["server"] = "closed" /\ End("server", "stopped") /\ UNCHANGED world
StartAgain ==
    /\ pc["server"] = "stopped"
    /\ Goto("server", "down")
    /\ UNCHANGED <<sockets, task, served, renewal, order, chals, wholeAtStart, world>>
\* Before signal.Notify a signal just ends the process.
Interrupt ==
    /\ pc["server"] \in {"http", "pair", "udp", "tcp"}
    /\ End("server", "stopped")
    /\ UNCHANGED world

-----------------------------------------------------------------------------
(***************************************************************************)
(* --obtain-cert: DNS first, so that the CA can resolve the names, then    *)
(* HTTP, no TLS, and Obtain.                                               *)
(***************************************************************************)
RunTool ==
    /\ pc["tool"] = "idle" /\ obtains < MaxObtains
    /\ Validate([cfg EXCEPT !["ObtainCert"] = TRUE])
    /\ obtains' = obtains + 1
    /\ Goto("tool", "udp")
    /\ UNCHANGED <<sockets, task, served, renewal, order, chals, wholeAtStart,
                   cfg, foreign, disk, left, faults>>

ToolBindTCP ==
    /\ pc["tool"] = "tcp"
    /\ IF cfg["TCP"] = Zero
       THEN Goto("tool", "http")
            /\ UNCHANGED <<sockets, task, served, renewal, order, chals, wholeAtStart>>
       ELSE BindOrExit("tool", TCPSocket, "http")
    /\ UNCHANGED world
ToolStartHTTP ==
    /\ pc["tool"] = "http" /\ BindOrExit("tool", HTTPSocket, "call") /\ UNCHANGED world

-----------------------------------------------------------------------------
(***************************************************************************)
(* Obtain, in the tool and in the server's renewal.  Any request to the CA *)
(* may fail or time out.                                                   *)
(***************************************************************************)
Step(p, o) == order' = [order EXCEPT ![p] = o]

\* The end of Obtain, well or not: the tool exits, the server waits for the next
\* day.
\* (Variants: a renewal is the last one; the tool waits for a signal.)
ObtainEndsOnce(p) ==
    IF p = "tool" THEN ExitFailed(p)
    ELSE /\ Step(p, NoOrder)
         /\ chals' = [chals EXCEPT ![p] = {}]
         /\ renewal' = "off"
         /\ UNCHANGED <<pc, sockets, task, served, wholeAtStart>>
ObtainEndsWaiting(p) ==
    /\ Step(p, NoOrder)
    /\ chals' = [chals EXCEPT ![p] = {}]
    /\ renewal' = IF p = "server" THEN "wait" ELSE renewal
    /\ UNCHANGED <<pc, sockets, task, served, wholeAtStart>>
ObtainEnds(p) ==
    IF p = "tool" THEN ExitFailed(p)
    ELSE /\ Step(p, NoOrder)
         /\ chals' = [chals EXCEPT ![p] = {}]
         /\ renewal' = "wait"
         /\ UNCHANGED <<pc, sockets, task, served, wholeAtStart>>

ToolCallsObtain ==
    /\ pc["tool"] = "call"
    /\ IF Domains = <<>> THEN ExitFailed("tool")
       ELSE /\ Step("tool", [NoOrder EXCEPT !.step = "authorize"])
            /\ Goto("tool", "obtain")
            /\ UNCHANGED <<sockets, task, served, renewal, chals, wholeAtStart>>
    /\ UNCHANGED world

\* An authorization that is still valid is skipped; for another the token is set
\* before the challenge is accepted.
Authorized(p) ==
    /\ order[p].step = "authorize" /\ order[p].next <= Len(Domains)
    /\ Step(p, [order[p] EXCEPT !.next = @ + 1])
    /\ UNCHANGED <<pc, sockets, task, served, renewal, chals, wholeAtStart, world>>
Challenge(p) ==
    /\ order[p].step = "authorize" /\ order[p].next <= Len(Domains)
    /\ chals' = [chals EXCEPT ![p] = @ \cup {order[p].next}]
    /\ Step(p, [order[p] EXCEPT !.step = "wait"])
    /\ UNCHANGED <<pc, sockets, task, served, renewal, wholeAtStart, world>>

\* The CA asks port 80 of the domain for the token.  The routes of the server answer
\* for entropy's hosts before they look at the path; the tool's do not know them.
Answers(p, i) ==
    /\ <<"tcp", 80>> \in sockets[p]
    /\ i \in chals[p]
    /\ p = "server" => Domains[i] # "entropy"
CAFetches(p) ==
    /\ order[p].step = "wait" /\ Answers(p, order[p].next)
    /\ Step(p, [order[p] EXCEPT !.step = "authorize", !.next = @ + 1])
    /\ UNCHANGED <<pc, sockets, task, served, renewal, chals, wholeAtStart, world>>
CAFails(p) ==
    /\ order[p].step \in {"authorize", "wait"}
    /\ ObtainEnds(p)
    /\ UNCHANGED world

InUse == {disk.cert, disk.key} \cup {served[l] : l \in Listeners}
             \cup {order[p].cert : p \in Processes}
Issue(p) ==
    /\ order[p].step = "authorize" /\ order[p].next > Len(Domains)
    /\ Certs \ InUse # {}
    /\ LET c == CHOOSE c \in Certs \ InUse : TRUE
       IN  /\ Step(p, [order[p] EXCEPT !.step = "cert", !.cert = c])
           /\ left' = [left EXCEPT ![c] = Lifetime]
    /\ UNCHANGED <<pc, sockets, task, served, renewal, chals, wholeAtStart,
                   cfg, foreign, disk, faults, obtains>>

\* Each file is truncated and then written, the certificate's first.
Truncate(p, file) ==
    /\ order[p].step = file
    /\ disk' = [disk EXCEPT ![file] = Cut]
    /\ Step(p, [order[p] EXCEPT !.step = IF file = "cert" THEN "certCut" ELSE "keyCut"])
    /\ UNCHANGED <<pc, sockets, task, served, renewal, chals, wholeAtStart,
                   cfg, foreign, left, faults, obtains>>
\* (Variant: a key that is there is kept.)
WriteCertKeepingKey(p) ==
    /\ order[p].step = "certCut"
    /\ disk' = [disk EXCEPT !.cert = order[p].cert]
    /\ IF disk.key = Cut
       THEN /\ Step(p, [order[p] EXCEPT !.step = "key"])
            /\ UNCHANGED <<pc, sockets, task, served, renewal, chals, wholeAtStart>>
       ELSE ObtainEnds(p)
    /\ UNCHANGED <<cfg, foreign, left, faults, obtains>>
WriteCert(p) ==
    /\ order[p].step = "certCut"
    /\ disk' = [disk EXCEPT !.cert = order[p].cert]
    /\ Step(p, [order[p] EXCEPT !.step = "key"])
    /\ UNCHANGED <<pc, sockets, task, served, renewal, chals, wholeAtStart,
                   cfg, foreign, left, faults, obtains>>
WriteKey(p) ==
    /\ order[p].step = "keyCut"
    /\ disk' = [disk EXCEPT !.key = order[p].cert]
    /\ ObtainEnds(p)
    /\ UNCHANGED <<cfg, foreign, left, faults, obtains>>

-----------------------------------------------------------------------------
(***************************************************************************)
(* runRenewal: once a day, if the certificate on disk can be read and has  *)
(* at most ACMERenewDays left.                                             *)
(***************************************************************************)
Due == disk.cert # Cut /\ left[disk.cert] <= cfg["ACMERenewDays"]
Renew ==
    /\ renewal = "check" /\ pc["server"] = "serving"
    /\ IF Due
       THEN renewal' = "obtain" /\ Step("server", [NoOrder EXCEPT !.step = "authorize"])
       ELSE renewal' = "wait" /\ UNCHANGED order
    /\ UNCHANGED <<pc, sockets, task, served, chals, wholeAtStart, world>>

\* A day passes.  Starts, loads, orders and shutdowns take minutes at most, so none
\* is in progress when it does; a server that cannot start tries again and again.
\* Certificates that are nowhere do not age.
Settled ==
    /\ pc["server"] \in {"down", "serving", "stopped"} /\ pc["tool"] = "idle"
    /\ \A l \in Listeners : task[l] \notin {"load", "bind"}
    /\ renewal \in {"off", "wait"}
Tick ==
    /\ Settled
    /\ left' = [c \in Certs |-> IF left[c] = 0 \/ c \notin InUse THEN 0 ELSE left[c] - 1]
    /\ renewal' = IF renewal = "wait" THEN "check" ELSE renewal
    /\ UNCHANGED <<pc, sockets, task, served, order, chals, wholeAtStart,
                   cfg, foreign, disk, faults, obtains>>

-----------------------------------------------------------------------------
(***************************************************************************)
(* Faults.                                                                 *)
(***************************************************************************)
Fault == faults < MaxFaults /\ faults' = faults + 1

Crash(p) ==
    /\ pc[p] \notin {"down", "stopped", "idle"}
    /\ Fault /\ ExitFailed(p)
    /\ UNCHANGED <<cfg, foreign, disk, left, obtains>>
WriteFails(p) ==
    /\ Writing(p)
    /\ Fault /\ ObtainEnds(p)
    /\ UNCHANGED <<cfg, foreign, disk, left, obtains>>

Writes(p) == Truncate(p, "cert") \/ WriteCert(p) \/ Truncate(p, "key") \/ WriteKey(p)
Orders(p) == Authorized(p) \/ Challenge(p) \/ CAFetches(p) \/ CAFails(p) \/ Issue(p) \/ Writes(p)
ServerSteps ==
    \/ Restart \/ StartHTTP \/ LoadHTTPSPair \/ BindUDP("server") \/ BindTCP \/ Renew \/ Return
    \/ \E l \in Listeners : LoadPair(l) \/ Listen(l)
    \/ Orders("server")
ToolSteps == BindUDP("tool") \/ ToolBindTCP \/ ToolStartHTTP \/ ToolCallsObtain \/ Orders("tool")
Next ==
    \/ ServerSteps \/ Close \/ Interrupt \/ StartAgain
    \/ RunTool \/ ToolSteps
    \/ \E p \in Processes : Crash(p) \/ WriteFails(p)
    \/ Tick
Spec == Init /\ [][Next]_vars

\* Days pass, the processes take their steps, and a CA that is asked again and again
\* for the same thing does not fail for ever.  Nobody has to stop, start or obtain anything.
Fairness ==
    /\ WF_vars(ServerSteps) /\ WF_vars(ToolSteps) /\ WF_vars(Tick)
    /\ SF_vars(Issue("server"))
    /\ \A i \in 1..2 : LET asked == order["server"].next = i IN
          SF_vars(asked /\ Challenge("server")) /\ SF_vars(asked /\ CAFetches("server"))
FairSpec == Spec /\ Fairness

-----------------------------------------------------------------------------
(***************************************************************************)
(* Properties.                                                             *)
(***************************************************************************)
Serving == pc["server"] = "serving"
\* The two files have no lock.  Their one protection is that each process takes the
\* HTTP port before it reads or writes them, and no socket has two owners: while one
\* writes, the other has not got that far, and the server has no listener left that
\* still has to read.
PortsAreLocks ==
    /\ sockets["server"] \cap sockets["tool"] = {}
    /\ \A p \in Processes : order[p].step # None =>
          pc[p] \in {"obtain", "serving", "closed"} /\ HTTPSocket \in sockets[p]
ReadersAndWriterApart ==
    /\ PortsAreLocks
    /\ \A p \in Processes : Writing(p) =>
          /\ \A q \in Processes \ {p} : ~Writing(q)
          /\ pc["server"] # "pair"
          /\ \A l \in Listeners : task[l] # "load" /\ ~(l = "DoH" /\ task[l] = "bind")

\* All listeners of the server show the same certificate, the one that was on disk when
\* it started: they load it at different times, and a renewal comes between none.
OneCertificate ==
    \A k, l \in Listeners : task[k] = "up" /\ task[l] = "up" => served[k] = served[l]

\* "Start starts all configured listeners": once the goroutines have done their part,
\* a TLS listener is missing only if another program has its port, or the configuration
\* gives the port twice, or if the pair did not load; with HTTPS the server does not
\* start without the pair; and one that is up has its socket and a certificate, until
\* the process ends.  DoH on the port of HTTPS is not a port given twice.
GivenTwice(l) ==
    SocketOf(l) \in {HTTPSocket, UDPSocket, TCPSocket} \cup
        {SocketOf(k) : k \in {k \in Listeners \ {l} : {k, l} # {"HTTPS", "DoH"}}}
ServingIsComplete ==
    Serving \/ pc["server"] = "closed" => \A l \in Listeners :
        /\ task[l] = "up" => served[l] \in Certs /\ SocketOf(l) \in sockets["server"]
        /\ task[l] = "failed" => \/ SocketOf(l) \in foreign \/ GivenTwice(l)
                                 \/ ~wholeAtStart /\ ~HasListener("HTTPS")
        /\ PortOf(l) # Zero /\ ~HasListener(l) => l = "DoH" /\ task["HTTPS"] # "off"

\* As long as no process is stopped or killed while it writes and no write fails, the
\* pair on disk is whole whenever nobody writes.
Stopping == pc["server"] = "closed" /\ pc'["server"] = "stopped"
BeingWritten == \E p \in Processes : Writing(p)
StaysWhole ==
    [][PairLoads \/ BeingWritten =>
          PairLoads' \/ BeingWritten' \/ Stopping \/ faults' > faults]_vars

\* A certificate that is due does not stay due: as long as the server runs, it is
\* renewed, whatever the CA refuses in between.  Not if it cannot be read, and not if
\* the CA cannot: it knows port 80 only, and the server denies it entropy's hosts.
Renewable == HasRenewal /\ HTTPSocket = <<"tcp", 80>> /\ "entropy" \notin {Domains[i] : i \in DOMAIN Domains}
DueIsRenewed == []<>(~(Serving /\ Due /\ Renewable))

\* A server that is to run runs again and again, whatever failed before: unless other
\* programs have one of its ports, or it has HTTPS and the pair does not load, which
\* only an operator can mend.
Obstructed ==
    \/ {HTTPSocket, UDPSocket, TCPSocket} \cap foreign # {}
    \/ HasListener("HTTPS") /\ ~PairLoads
Recovers == []<>(Serving \/ pc["server"] = "stopped" \/ Obstructed)
=============================================================================
