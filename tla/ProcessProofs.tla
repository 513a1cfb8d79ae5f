---------------------------- MODULE ProcessProofs ---------------------------
(***************************************************************************)
(* Proofs about Process, for every configuration, every set of sockets of  *)
(* other programs and every number of faults and of runs of obtain-cert.   *)
(***************************************************************************)
EXTENDS Process, TLAPS

-----------------------------------------------------------------------------
(***************************************************************************)
(* The inductive invariant.  Typed is type correctness, of what the        *)
(* properties depend on.                                                   *)
(***************************************************************************)
Steps == {"down", "http", "pair", "udp", "tcp", "serving", "closed", "stopped", "idle", "call", "obtain"}
OrderSteps == {None, "authorize", "wait", "cert", "certCut", "key", "keyCut"}
Order == [step : OrderSteps, next : Nat, cert : Certs \cup {None}]
Pair == [cert : Certs \cup {Cut}, key : Certs \cup {Cut}]
Typed ==
    /\ pc \in [Processes -> Steps]
    /\ DOMAIN sockets = Processes
    /\ task \in [Listeners -> {"off", "load", "bind", "up", "failed"}]
    /\ served \in [Listeners -> Certs \cup {None}]
    /\ renewal \in {"off", "wait", "check", "obtain"}
    /\ order \in [Processes -> Order]
    /\ disk \in Pair
    /\ faults \in Nat

\* A listener that has yet to load the pair, and one that has loaded it.
StillReads(l) == task[l] = "load" \/ (l = "DoH" /\ task[l] = "bind")
Loaded(l) == task[l] = "up" \/ (l # "DoH" /\ task[l] = "bind")

Running == {"serving", "closed"}
\* A process past the step that binds the HTTP port has it.
PastHTTP(p) ==
    IF p = "server" THEN pc[p] \in {"pair", "udp", "tcp"} \cup Running ELSE pc[p] \in {"call", "obtain"}
PortsHeld ==
    /\ sockets["server"] \cap sockets["tool"] = {}
    /\ \A p \in Processes : PastHTTP(p) => HTTPSocket \in sockets[p]
    /\ pc["server"] \in Running => TCPSocket # HTTPSocket
    /\ task["DoH"] = "load" => SocketOf("DoH") # HTTPSocket
\* An order is in progress only in the place of the program that calls Obtain, and in
\* the server only once all its listeners have loaded the pair.
InPlace ==
    /\ order["tool"].step # None => pc["tool"] = "obtain"
    /\ order["server"].step # None => pc["server"] \in Running /\ renewal = "obtain"
    /\ renewal # "off" => pc["server"] \in Running
    /\ renewal \in {"check", "obtain"} => \A l \in Listeners : ~StillReads(l)
    /\ \A l \in Listeners : task[l] # "off" =>
          pc["server"] \in Running \/ (l = "HTTPS" /\ pc["server"] \in {"udp", "tcp"})
    /\ task["HTTPS"] # "load"
LockInv == PortsHeld /\ InPlace

\* Until the last of its listeners has loaded the pair, the server's listeners show
\* what is on disk.
Reading == pc["server"] \in {"udp", "tcp"} \/ \E l \in Listeners : StillReads(l)
CertInv ==
    /\ \A k, l \in Listeners : Loaded(k) /\ Loaded(l) => served[k] = served[l]
    /\ Reading => \A l \in Listeners : Loaded(l) => served[l] = disk.cert /\ PairLoads

\* The key is written next to the certificate it belongs to.
Ordered == {"cert", "certCut", "key", "keyCut"}
FilesInv == \A p \in Processes :
    /\ order[p].step \in Ordered => order[p].cert \in Certs
    /\ order[p].step \in {"key", "keyCut"} => disk.cert = order[p].cert

Inv == Typed /\ LockInv /\ CertInv /\ FilesInv

-----------------------------------------------------------------------------
LEMMA Fixed ==
    ASSUME UNCHANGED cfg
    PROVE  /\ HTTPSocket' = HTTPSocket /\ TCPSocket' = TCPSocket /\ UDPSocket' = UDPSocket
           /\ \A l : SocketOf(l)' = SocketOf(l)
BY DEF HTTPSocket, TCPSocket, UDPSocket, SocketOf, PortOf

LEMMA CertNames == None \notin Certs /\ Cut \notin Certs /\ None # Cut
BY ProcessAssumption DEF None, Cut

LEMMA InitInv == Init => Inv
<1> SUFFICES ASSUME Init PROVE Inv
  OBVIOUS
<1>1. /\ pc["server"] = "down" /\ pc["tool"] = "idle" /\ renewal = "off"
      /\ \A p \in Processes : sockets[p] = {} /\ order[p] = NoOrder
      /\ \A l \in Listeners : task[l] = "off" /\ served[l] = None
  BY DEF Init, NoTasks, Processes
<1>2. Typed
  <2>1. (CHOOSE c \in Certs : TRUE) \in Certs
    BY ProcessAssumption
  <2>2. disk \in Pair /\ faults \in Nat
    BY <2>1 DEF Init, Pair
  <2>3. NoOrder \in Order
    BY DEF NoOrder, Order, OrderSteps
  <2>4. order \in [Processes -> Order]
    BY <2>3 DEF Init
  <2> QED
    BY <2>2, <2>4 DEF Init, Typed, Steps, NoTasks
<1>3. LockInv
  BY <1>1 DEF LockInv, PortsHeld, InPlace, PastHTTP, Running, NoOrder, Processes, Listeners
<1>4. CertInv /\ FilesInv
  BY <1>1 DEF CertInv, FilesInv, Loaded, Reading, StillReads, Ordered, NoOrder, None
<1> QED
  BY <1>2, <1>3, <1>4 DEF Inv

\* While one process has an order, the other has none and nobody reads the pair.
LEMMA OneOrder ==
    ASSUME Inv, NEW p \in Processes, order[p].step # None
    PROVE  /\ PastHTTP(p) /\ HTTPSocket \in sockets[p]
           /\ \A q \in Processes \ {p} : order[q].step = None /\ ~PastHTTP(q)
           /\ ~Reading /\ pc["server"] # "pair"
<1>1. PastHTTP(p) /\ HTTPSocket \in sockets[p]
  BY DEF Inv, LockInv, InPlace, PortsHeld, PastHTTP, Running, Processes
<1>2. ASSUME NEW q \in Processes \ {p}
      PROVE  ~PastHTTP(q) /\ order[q].step = None
  <2>1. ~PastHTTP(q)
    BY <1>1 DEF Inv, LockInv, PortsHeld, Processes
  <2> QED
    BY <2>1 DEF Inv, LockInv, InPlace, PastHTTP, Running, Processes
<1>3. CASE p = "server"
  BY <1>1, <1>2, <1>3 DEF Inv, LockInv, InPlace, Reading, StillReads, Running
<1>4. CASE p = "tool"
  <2>1. ~PastHTTP("server")
    BY <1>2, <1>4 DEF Processes
  <2>2. \A l \in Listeners : task[l] = "off"
    BY <2>1 DEF Inv, LockInv, InPlace, PastHTTP, Running
  <2> QED
    BY <1>1, <1>2, <2>1, <2>2 DEF Reading, StillReads, PastHTTP, Running
<1> QED
  BY <1>1, <1>2, <1>3, <1>4 DEF Processes

\* The end of a process.
LEMMA EndInv ==
    ASSUME Inv, NEW p \in Processes, NEW then, End(p, then), UNCHANGED cfg,
           IF p = "server" THEN then \in {"down", "stopped"} ELSE then = "idle",
           disk' \in Pair, disk' = disk \/ order[p].step # None, faults' \in Nat
    PROVE  Inv'
<1>1. /\ \A q \in Processes : /\ pc'[q] = IF q = p THEN then ELSE pc[q]
                              /\ sockets'[q] = IF q = p THEN {} ELSE sockets[q]
                              /\ order'[q] = IF q = p THEN NoOrder ELSE order[q]
      /\ p = "server" => /\ task' = NoTasks /\ served' = [l \in Listeners |-> None]
                         /\ renewal' = "off"
      /\ p = "tool" => UNCHANGED <<task, served, renewal>>
  BY DEF End, Inv, Typed, Processes
<1>2. Typed'
  <2>1. NoOrder \in Order
    BY DEF NoOrder, Order, OrderSteps
  <2> QED
    BY <1>1, <2>1 DEF End, Inv, Typed, Steps, NoTasks, Processes
<1>3. LockInv'
  BY <1>1, Fixed DEF Inv, LockInv, PortsHeld, InPlace, PastHTTP, Running, NoOrder, NoTasks,
                     Processes, StillReads, Listeners
<1>4. CertInv'
  <2>1. CASE p = "server"
    BY <1>1, <2>1 DEF CertInv, Loaded, Reading, StillReads, NoTasks, Processes
  <2>2. CASE p = "tool" /\ disk' = disk
    BY <1>1, <2>2 DEF Inv, CertInv, Loaded, Reading, StillReads, Processes, PairLoads
  <2>3. CASE p = "tool" /\ order[p].step # None
    <3>1. ~Reading
      BY <2>3, OneOrder
    <3> QED
      BY <1>1, <2>3, <3>1 DEF Inv, CertInv, Loaded, Reading, StillReads, Processes
  <2> QED
    BY <2>1, <2>2, <2>3 DEF Processes
<1>5. FilesInv'
  <2>1. \A q \in Processes \ {p} : disk' = disk \/ order[q].step = None
    BY OneOrder
  <2> QED
    BY <1>1, <2>1 DEF Inv, FilesInv, Ordered, NoOrder, None, Processes
<1> QED
  BY <1>2, <1>3, <1>4, <1>5 DEF Inv

\* A step of an order, which may write the files.
LEMMA OrderInv ==
    ASSUME Inv, NEW p \in Processes, order[p].step # None, NEW o \in Order, o.step # None,
           order' = [order EXCEPT ![p] = o],
           o.step \in Ordered => o.cert \in Certs,
           disk' \in Pair, o.step \in {"key", "keyCut"} => disk'.cert = o.cert,
           UNCHANGED <<pc, sockets, task, served, renewal, cfg, faults>>
    PROVE  Inv'
<1>1. \A q \in Processes : order'[q] = IF q = p THEN o ELSE order[q]
  BY DEF Inv, Typed
<1>2. ~Reading /\ \A q \in Processes \ {p} : order[q].step = None
  BY OneOrder
<1>3. Typed'
  BY DEF Inv, Typed
<1>4. LockInv'
  BY <1>1, Fixed DEF Inv, LockInv, PortsHeld, InPlace, PastHTTP, StillReads, Processes
<1>5. CertInv'
  BY <1>2 DEF Inv, CertInv, Loaded, Reading, StillReads
<1>6. FilesInv'
  BY <1>1, <1>2 DEF Inv, FilesInv, Ordered, None
<1> QED
  BY <1>3, <1>4, <1>5, <1>6 DEF Inv

\* The end of an order.
LEMMA ObtainEndsInv ==
    ASSUME Inv, NEW p \in Processes, order[p].step # None, ObtainEnds(p), UNCHANGED cfg,
           disk' \in Pair, faults' \in Nat
    PROVE  Inv'
<1>1. CASE p = "tool"
  <2>1. End(p, "idle")
    BY <1>1 DEF ObtainEnds, ExitFailed
  <2> QED
    BY <1>1, <2>1, EndInv
<1>2. CASE p = "server"
  <2>1. /\ \A q \in Processes : order'[q] = IF q = p THEN NoOrder ELSE order[q]
        /\ renewal' = "wait" /\ UNCHANGED <<pc, sockets, task, served>>
        /\ order' = [order EXCEPT ![p] = NoOrder]
    BY <1>2 DEF ObtainEnds, Step, Inv, Typed
  <2>2. ~Reading /\ \A q \in Processes \ {p} : order[q].step = None
    BY OneOrder
  <2>3. Typed'
    <3>1. NoOrder \in Order
      BY DEF NoOrder, Order, OrderSteps
    <3> QED
      BY <2>1, <3>1 DEF Inv, Typed
  <2>4. LockInv'
    BY <1>2, <2>1, Fixed DEF Inv, LockInv, PortsHeld, InPlace, PastHTTP, StillReads, Processes, NoOrder
  <2>5. CertInv'
    BY <2>1, <2>2 DEF Inv, CertInv, Loaded, Reading, StillReads
  <2>6. FilesInv'
    BY <2>1, <2>2 DEF Inv, FilesInv, Ordered, NoOrder, None
  <2> QED
    BY <2>3, <2>4, <2>5, <2>6 DEF Inv
<1> QED
  BY <1>1, <1>2 DEF Processes

-----------------------------------------------------------------------------
(***************************************************************************)
(* Each step keeps the invariant.                                          *)
(***************************************************************************)
LEMMA StartInv ==
    ASSUME Inv, Restart \/ StartHTTP \/ LoadHTTPSPair
    PROVE  Inv'
<1>0. UNCHANGED <<cfg, disk, faults>>
  BY DEF Restart, StartHTTP, LoadHTTPSPair, world
<1>1. ASSUME End("server", "down")
      PROVE  Inv'
  <2>1. disk' \in Pair /\ faults' \in Nat
    BY <1>0 DEF Inv, Typed
  <2> QED
    BY <1>0, <1>1, <2>1, EndInv DEF Processes
<1>2. CASE Restart
  <2>1. /\ pc["server"] = "down" /\ pc' = [pc EXCEPT !["server"] = "http"]
        /\ UNCHANGED <<sockets, task, served, renewal, order>>
    BY <1>2 DEF Restart, Goto
  <2>2. Typed'
    BY <1>0, <2>1 DEF Inv, Typed, Steps
  <2>3. LockInv'
    BY <1>0, <2>1, Fixed DEF Inv, Typed, LockInv, PortsHeld, InPlace, PastHTTP, Running, StillReads, Processes
  <2>4. CertInv' /\ FilesInv'
    BY <1>0, <2>1 DEF Inv, Typed, CertInv, FilesInv, Loaded, Reading, StillReads, PairLoads, Processes
  <2> QED
    BY <2>2, <2>3, <2>4 DEF Inv
<1>3. CASE StartHTTP
  <2>1. CASE Free(HTTPSocket)
    <3>1. /\ pc["server"] = "http" /\ pc' = [pc EXCEPT !["server"] = "pair"]
          /\ sockets' = [sockets EXCEPT !["server"] = @ \cup {HTTPSocket}]
          /\ UNCHANGED <<task, served, renewal, order>>
      BY <1>3, <2>1 DEF StartHTTP, Goto
    <3>2. Typed'
      BY <1>0, <3>1 DEF Inv, Typed, Steps
    <3>3. LockInv'
      BY <1>0, <2>1, <3>1, Fixed
         DEF Inv, Typed, LockInv, PortsHeld, InPlace, PastHTTP, Running, StillReads, Processes, Free
    <3>4. CertInv' /\ FilesInv'
      BY <1>0, <3>1 DEF Inv, Typed, CertInv, FilesInv, Loaded, Reading, StillReads, PairLoads, Processes
    <3> QED
      BY <3>2, <3>3, <3>4 DEF Inv
  <2>2. CASE ~Free(HTTPSocket)
    BY <1>1, <1>3, <2>2 DEF StartHTTP, ExitFailed
  <2> QED
    BY <2>1, <2>2
<1>4. CASE LoadHTTPSPair
  <2>1. CASE ~HasListener("HTTPS")
    <3>1. /\ pc["server"] = "pair" /\ pc' = [pc EXCEPT !["server"] = "udp"]
          /\ UNCHANGED <<sockets, task, served, renewal, order>>
      BY <1>4, <2>1 DEF LoadHTTPSPair, Goto
    <3>2. Typed'
      BY <1>0, <3>1 DEF Inv, Typed, Steps
    <3>3. LockInv'
      BY <1>0, <3>1, Fixed
         DEF Inv, Typed, LockInv, PortsHeld, InPlace, PastHTTP, Running, StillReads, Processes
    <3>4. \A l \in Listeners : task[l] = "off"
      BY <3>1 DEF Inv, LockInv, InPlace, Running
    <3>5. CertInv' /\ FilesInv'
      BY <1>0, <3>1, <3>4 DEF Inv, CertInv, FilesInv, Loaded
    <3> QED
      BY <3>2, <3>3, <3>5 DEF Inv
  <2>2. CASE HasListener("HTTPS") /\ PairLoads
    <3>1. /\ pc["server"] = "pair" /\ pc' = [pc EXCEPT !["server"] = "udp"]
          /\ served' = [served EXCEPT !["HTTPS"] = disk.cert]
          /\ task' = [task EXCEPT !["HTTPS"] = "bind"]
          /\ UNCHANGED <<sockets, renewal, order>>
      BY <1>4, <2>2 DEF LoadHTTPSPair, Goto
    <3>2. Typed'
      <4>1. disk.cert \in Certs
        BY <2>2 DEF Inv, Typed, Pair, PairLoads
      <4> QED
        BY <1>0, <3>1, <4>1 DEF Inv, Typed, Steps
    <3>3. LockInv'
      BY <1>0, <3>1, Fixed
         DEF Inv, Typed, LockInv, PortsHeld, InPlace, PastHTTP, Running, StillReads, Processes, Listeners
    <3>4. \A l \in Listeners : task[l] = "off"
      BY <3>1 DEF Inv, LockInv, InPlace, Running
    <3>5. /\ \A l \in Listeners : Loaded(l)' => l = "HTTPS"
          /\ served'["HTTPS"] = disk.cert
      BY <3>1, <3>4 DEF Inv, Typed, Loaded, Listeners
    <3>6. CertInv' /\ FilesInv'
      BY <1>0, <2>2, <3>1, <3>5 DEF Inv, CertInv, FilesInv, PairLoads
    <3> QED
      BY <3>2, <3>3, <3>6 DEF Inv
  <2>3. CASE HasListener("HTTPS") /\ ~PairLoads
    BY <1>1, <1>4, <2>3 DEF LoadHTTPSPair, ExitFailed
  <2> QED
    BY <2>1, <2>2, <2>3
<1> QED
  BY <1>2, <1>3, <1>4

\* A process that binds a socket and goes on, from a step before its order to one of the
\* same kind, and one that binds nothing.
LEMMA BindInv ==
    ASSUME Inv, NEW p \in Processes, NEW socket, NEW to, UNCHANGED <<cfg, disk, faults>>,
           \/ p = "server" /\ pc[p] = "udp" /\ to = "tcp"
           \/ p = "tool" /\ <<pc[p], to>> \in {<<"udp", "tcp">>, <<"tcp", "http">>}
           \/ p = "tool" /\ pc[p] = "http" /\ to = "call" /\ socket = HTTPSocket /\ BindOrExit(p, socket, to),
           \/ BindOrExit(p, socket, to)
           \/ Goto(p, to) /\ UNCHANGED <<sockets, task, served, renewal, order>>
    PROVE  Inv'
<1>1. CASE ExitFailed(p)
  <2>1. disk' \in Pair /\ faults' \in Nat
    BY DEF Inv, Typed
  <2> QED
    BY <1>1, <2>1, EndInv DEF ExitFailed
<1>2. CASE /\ \/ sockets' = [sockets EXCEPT ![p] = @ \cup {socket}] /\ Free(socket)
              \/ sockets' = sockets /\ ~(to = "call")
           /\ Goto(p, to) /\ UNCHANGED <<task, served, renewal, order>>
  <2>1. /\ \A q \in Processes : pc'[q] = IF q = p THEN to ELSE pc[q]
        /\ pc' = [pc EXCEPT ![p] = to]
        /\ to \in {"tcp", "http", "call"}
        /\ UNCHANGED <<task, served, renewal, order>>
    BY <1>2 DEF Goto, Inv, Typed
  <2>2. Typed'
    BY <1>2, <2>1 DEF Inv, Typed, Steps
  <2>3. /\ sockets'["server"] \cap sockets'["tool"] = {}
        /\ \A q \in Processes : sockets[q] \subseteq sockets'[q]
        /\ to = "call" => HTTPSocket \in sockets'[p]
    BY <1>2 DEF Inv, Typed, LockInv, PortsHeld, Free, Processes
  <2>4. LockInv'
    BY <2>1, <2>3, Fixed
       DEF Inv, LockInv, PortsHeld, InPlace, PastHTTP, Running, StillReads, Processes
  <2>5. CertInv' /\ FilesInv'
    BY <2>1 DEF Inv, CertInv, FilesInv, Loaded, Reading, StillReads, PairLoads, Processes
  <2> QED
    BY <2>2, <2>4, <2>5 DEF Inv
<1> QED
  BY <1>1, <1>2 DEF BindOrExit

LEMMA BindsInv ==
    ASSUME Inv, BindUDP("server") \/ BindUDP("tool") \/ ToolBindTCP \/ ToolStartHTTP
    PROVE  Inv'
<1>1. UNCHANGED <<cfg, disk, faults>>
  BY DEF BindUDP, ToolBindTCP, ToolStartHTTP, world
<1>2. ASSUME NEW p \in Processes, BindUDP(p)
      PROVE  Inv'
  <2>1. \/ BindOrExit(p, UDPSocket, "tcp")
        \/ Goto(p, "tcp") /\ UNCHANGED <<sockets, task, served, renewal, order>>
    BY <1>2 DEF BindUDP
  <2>2. pc[p] = "udp"
    BY <1>2 DEF BindUDP
  <2> QED
    BY <1>1, <2>1, <2>2, BindInv DEF Processes
<1>3. CASE ToolBindTCP
  <2>1. \/ BindOrExit("tool", TCPSocket, "http")
        \/ Goto("tool", "http") /\ UNCHANGED <<sockets, task, served, renewal, order>>
    BY <1>3 DEF ToolBindTCP
  <2>2. pc["tool"] = "tcp"
    BY <1>3 DEF ToolBindTCP
  <2> QED
    BY <1>1, <2>1, <2>2, BindInv DEF Processes
<1>4. CASE ToolStartHTTP
  <2>1. pc["tool"] = "http" /\ BindOrExit("tool", HTTPSocket, "call")
    BY <1>4 DEF ToolStartHTTP
  <2> QED
    BY <1>1, <2>1, BindInv DEF Processes
<1> QED
  BY <1>2, <1>3, <1>4 DEF Processes

LEMMA BindTCPInv ==
    ASSUME Inv, BindTCP
    PROVE  Inv'
<1>0. UNCHANGED <<cfg, disk, faults>> /\ pc["server"] = "tcp"
  BY DEF BindTCP, world
<1>1. CASE ExitFailed("server")
  <2>1. disk' \in Pair /\ faults' \in Nat
    BY <1>0 DEF Inv, Typed
  <2> QED
    BY <1>0, <1>1, <2>1, EndInv DEF ExitFailed, Processes
<1>2. CASE /\ \/ cfg["TCP"] = Zero /\ sockets' = sockets
              \/ Free(TCPSocket) /\ sockets' = [sockets EXCEPT !["server"] = @ \cup {TCPSocket}]
           /\ task' = Spawned
           /\ renewal' \in {"wait", "off"}
           /\ pc' = [pc EXCEPT !["server"] = "serving"]
           /\ UNCHANGED <<served, order>>
  <2>1. HTTPSocket \in sockets["server"]
    BY <1>0 DEF Inv, LockInv, PortsHeld, PastHTTP, Running, Processes
  <2>2. TCPSocket # HTTPSocket
    <3>1. cfg["TCP"] = Zero => TCPSocket # HTTPSocket
      BY ProcessAssumption DEF TCPSocket, HTTPSocket
    <3>2. Free(TCPSocket) => TCPSocket # HTTPSocket
      BY <2>1 DEF Free, Processes
    <3> QED
      BY <1>2, <3>1, <3>2
  <2>3. /\ \A l \in Listeners : task'[l] = IF l = "HTTPS" THEN task[l] ELSE Spawned[l]
        /\ \A l \in Listeners : Spawned[l] \in {task["HTTPS"], "load", "bind", "off"}
        /\ Spawned["DoH"] \in {"bind", "off"} /\ Spawned["DoT"] \in {"load", "off"}
        /\ Spawned["DoQ"] \in {"load", "off"} /\ DOMAIN Spawned = Listeners
    BY <1>2 DEF Spawned, Listeners
  <2>4. Typed'
    <3>1. Spawned \in [Listeners -> {"off", "load", "bind", "up", "failed"}]
      BY DEF Spawned, Inv, Typed, Listeners
    <3> QED
      BY <1>0, <1>2, <3>1 DEF Inv, Typed, Steps
  <2>5. LockInv'
    <3>1. sockets'["server"] \cap sockets'["tool"] = {} /\ HTTPSocket \in sockets'["server"]
      BY <1>2, <2>1 DEF Inv, Typed, LockInv, PortsHeld, Free, Processes
    <3>2. sockets'["tool"] = sockets["tool"] /\ pc'["tool"] = pc["tool"] /\ pc'["server"] = "serving"
      BY <1>2 DEF Inv, Typed, Processes
    <3>3. PortsHeld'
      BY <1>0, <2>2, <2>3, <3>1, <3>2, Fixed
         DEF Inv, LockInv, PortsHeld, PastHTTP, Running, Processes, Listeners
    <3>4. order'["server"].step = None
      BY <1>0, <1>2 DEF Inv, LockInv, InPlace, Running
    <3>5. InPlace'
      BY <1>2, <2>3, <3>2, <3>4 DEF Inv, LockInv, InPlace, Running, Listeners
    <3> QED
      BY <3>3, <3>5 DEF LockInv
  <2>6. CertInv'
    <3>1. \A l \in Listeners : Loaded(l)' => l = "HTTPS" /\ Loaded(l)
      BY <2>3 DEF Loaded, Listeners
    <3>2. Reading
      BY <1>0 DEF Reading
    <3> QED
      BY <1>0, <1>2, <3>1, <3>2 DEF Inv, CertInv, PairLoads
  <2>7. FilesInv'
    BY <1>0, <1>2 DEF Inv, FilesInv
  <2> QED
    BY <2>4, <2>5, <2>6, <2>7 DEF Inv
<1> QED
  BY <1>1, <1>2 DEF BindTCP, Goto

\* The goroutines of the TLS listeners.
LEMMA ListenersInv ==
    ASSUME Inv, NEW l \in Listeners, LoadPair(l) \/ Listen(l)
    PROVE  Inv'
<1>0. UNCHANGED <<cfg, disk, faults, pc, renewal, order>> /\ task[l] \in {"load", "bind"}
  BY DEF LoadPair, Listen, world
<1>1. /\ \A k \in Listeners : k # l => task'[k] = task[k] /\ served'[k] = served[k]
      /\ sockets'["tool"] = sockets["tool"]
      /\ DOMAIN sockets' = Processes
  BY DEF LoadPair, Listen, Inv, Typed, Processes
<1>2. pc["server"] \in Running \/ (l = "HTTPS" /\ pc["server"] \in {"udp", "tcp"})
  BY <1>0 DEF Inv, LockInv, InPlace
<1>3. HTTPSocket \in sockets["server"]
  BY <1>2 DEF Inv, LockInv, PortsHeld, PastHTTP, Running, Processes
<1>4. FilesInv'
  BY <1>0 DEF Inv, FilesInv
<1>5. ASSUME task'[l] \in {"load", "bind", "up", "failed"}, task' = [task EXCEPT ![l] = task'[l]],
             l = "HTTPS" => task'[l] # "load",
             StillReads(l)' => StillReads(l),
             task'[l] = "load" => SocketOf(l) # HTTPSocket,
             sockets'["server"] \cap sockets["tool"] = {},
             HTTPSocket \in sockets'["server"],
             served' \in [Listeners -> Certs \cup {None}]
      PROVE  Typed' /\ LockInv'
  <2>1. Typed'
    BY <1>0, <1>1, <1>5 DEF Inv, Typed
  <2>2. PortsHeld'
    BY <1>0, <1>1, <1>5, Fixed DEF Inv, LockInv, PortsHeld, PastHTTP, Processes, Listeners
  <2>3. InPlace'
    <3>1. /\ UNCHANGED <<pc, renewal, order>>
          /\ order["tool"].step # None => pc["tool"] = "obtain"
          /\ order["server"].step # None => pc["server"] \in Running /\ renewal = "obtain"
          /\ renewal # "off" => pc["server"] \in Running
      BY <1>0 DEF Inv, LockInv, InPlace
    <3>2. renewal \in {"check", "obtain"} => \A k \in Listeners : ~StillReads(k)'
      <4> SUFFICES ASSUME renewal \in {"check", "obtain"}, NEW k \in Listeners
                   PROVE  ~StillReads(k)'
        OBVIOUS
      <4>1. ~StillReads(k)
        BY DEF Inv, LockInv, InPlace
      <4> QED
        BY <1>1, <1>5, <4>1 DEF StillReads
    <3>3. \A k \in Listeners : task'[k] # "off" =>
             pc["server"] \in Running \/ (k = "HTTPS" /\ pc["server"] \in {"udp", "tcp"})
      BY <1>1, <1>2 DEF Inv, LockInv, InPlace
    <3>4. task'["HTTPS"] # "load"
      BY <1>1, <1>5 DEF Inv, LockInv, InPlace, Listeners
    <3> QED
      BY <3>1, <3>2, <3>3, <3>4 DEF InPlace
  <2> QED
    BY <2>1, <2>2, <2>3 DEF LockInv
<1>6. CASE LoadPair(l)
  <2>1. /\ task[l] = "load"
        /\ task' = [task EXCEPT ![l] = task'[l]]
        /\ task'[l] = IF ~PairLoads THEN "failed" ELSE IF l = "DoH" THEN "up" ELSE "bind"
        /\ served' = IF PairLoads THEN [served EXCEPT ![l] = disk.cert] ELSE served
        /\ sockets' = IF PairLoads \/ l # "DoH" THEN sockets
                      ELSE [sockets EXCEPT !["server"] = @ \ {SocketOf(l)}]
    BY <1>6 DEF LoadPair, Inv, Typed
  <2>2. served' \in [Listeners -> Certs \cup {None}]
    BY <2>1 DEF Inv, Typed, Pair, PairLoads
  <2>3. sockets'["server"] \cap sockets["tool"] = {} /\ HTTPSocket \in sockets'["server"]
    BY <1>3, <2>1 DEF Inv, Typed, LockInv, PortsHeld, Processes
  <2>4. Typed' /\ LockInv'
    BY <1>5, <2>1, <2>2, <2>3 DEF StillReads
  <2>5. CertInv'
    <3>1. Reading
      BY <2>1 DEF Reading, StillReads
    <3>2. \A k \in Listeners : Loaded(k) => served[k] = disk.cert /\ PairLoads
      BY <3>1 DEF Inv, CertInv
    <3>3. \A k \in Listeners : Loaded(k)' => served'[k] = disk.cert /\ PairLoads
      <4>1. ASSUME NEW k \in Listeners, k # l, Loaded(k)'
            PROVE  served'[k] = disk.cert /\ PairLoads
        BY <1>1, <3>2, <4>1 DEF Loaded
      <4>2. Loaded(l)' => served'[l] = disk.cert /\ PairLoads
        BY <2>1 DEF Loaded, Inv, Typed
      <4> QED
        BY <4>1, <4>2
    <3> QED
      BY <1>0, <3>3 DEF CertInv, PairLoads
  <2> QED
    BY <1>4, <2>4, <2>5 DEF Inv
<1>7. CASE Listen(l)
  <2>1. /\ task[l] = "bind" /\ served' = served
        /\ task' = [task EXCEPT ![l] = task'[l]]
        /\ \/ /\ Free(SocketOf(l))
              /\ task'[l] = IF l = "DoH" THEN "load" ELSE "up"
              /\ sockets' = [sockets EXCEPT !["server"] = @ \cup {SocketOf(l)}]
           \/ task'[l] = "failed" /\ sockets' = sockets
    BY <1>7 DEF Listen, Inv, Typed
  <2>2. sockets'["server"] \cap sockets["tool"] = {} /\ HTTPSocket \in sockets'["server"]
    BY <1>3, <2>1 DEF Inv, Typed, LockInv, PortsHeld, Processes, Free
  <2>3. task'[l] = "load" => SocketOf(l) # HTTPSocket
    BY <1>3, <2>1 DEF Free, Processes
  <2>4. Typed' /\ LockInv'
    <3>1. served' \in [Listeners -> Certs \cup {None}]
      BY <2>1 DEF Inv, Typed
    <3> QED
      BY <1>5, <2>1, <2>2, <2>3, <3>1 DEF StillReads
  <2>5. CertInv'
    <3>1. \A k \in Listeners : (Loaded(k)' => Loaded(k)) /\ (StillReads(k)' => StillReads(k))
      BY <1>1, <2>1 DEF Loaded, StillReads
    <3> QED
      BY <1>0, <2>1, <3>1 DEF Inv, CertInv, Reading, PairLoads
  <2> QED
    BY <1>4, <2>4, <2>5 DEF Inv
<1> QED
  BY <1>6, <1>7

\* Stopping and starting, by an operator or a signal.
LEMMA SignalsInv ==
    ASSUME Inv, Close \/ Return \/ StartAgain \/ Interrupt
    PROVE  Inv'
<1>0. UNCHANGED <<cfg, disk, faults>>
  BY DEF Close, Return, StartAgain, Interrupt, world
<1>1. CASE End("server", "stopped")
  <2>1. disk' \in Pair /\ faults' \in Nat
    BY <1>0 DEF Inv, Typed
  <2> QED
    BY <1>0, <1>1, <2>1, EndInv DEF Processes
<1>2. CASE Close
  <2>1. /\ pc["server"] = "serving" /\ pc' = [pc EXCEPT !["server"] = "closed"]
        /\ sockets' = [sockets EXCEPT !["server"] = @ \ {UDPSocket, TCPSocket}]
        /\ UNCHANGED <<task, served, renewal, order>>
    BY <1>2 DEF Close, Goto
  <2>2. UDPSocket # HTTPSocket
    BY DEF UDPSocket, HTTPSocket
  <2>3. Typed'
    BY <1>0, <2>1 DEF Inv, Typed, Steps
  <2>4. PortsHeld'
    BY <1>0, <2>1, <2>2, Fixed DEF Inv, Typed, LockInv, PortsHeld, PastHTTP, Running, Processes
  <2>5. InPlace'
    BY <2>1 DEF Inv, Typed, LockInv, InPlace, Running, StillReads, Processes
  <2>6. CertInv' /\ FilesInv'
    BY <1>0, <2>1 DEF Inv, Typed, CertInv, FilesInv, Loaded, Reading, StillReads, PairLoads, Processes
  <2> QED
    BY <2>3, <2>4, <2>5, <2>6 DEF Inv, LockInv
<1>3. CASE StartAgain
  <2>1. /\ pc["server"] = "stopped" /\ pc' = [pc EXCEPT !["server"] = "down"]
        /\ UNCHANGED <<sockets, task, served, renewal, order>>
    BY <1>3 DEF StartAgain, Goto
  <2>2. Typed'
    BY <1>0, <2>1 DEF Inv, Typed, Steps
  <2>3. LockInv'
    BY <1>0, <2>1, Fixed DEF Inv, Typed, LockInv, PortsHeld, InPlace, PastHTTP, Running, StillReads, Processes
  <2>4. CertInv' /\ FilesInv'
    BY <1>0, <2>1 DEF Inv, Typed, CertInv, FilesInv, Loaded, Reading, StillReads, PairLoads, Processes
  <2> QED
    BY <2>2, <2>3, <2>4 DEF Inv
<1> QED
  BY <1>1, <1>2, <1>3 DEF Return, Interrupt

\* What starts an order: the tool, and a renewal that is due.
LEMMA CallsInv ==
    ASSUME Inv, RunTool \/ ToolCallsObtain \/ Renew \/ Tick
    PROVE  Inv'
<1>0. UNCHANGED <<cfg, disk, faults>>
  BY DEF RunTool, ToolCallsObtain, Renew, Tick, world
<1>1. CASE RunTool
  <2>1. /\ pc["tool"] = "idle" /\ pc' = [pc EXCEPT !["tool"] = "udp"]
        /\ UNCHANGED <<sockets, task, served, renewal, order>>
    BY <1>1 DEF RunTool, Goto
  <2>2. Typed'
    BY <1>0, <2>1 DEF Inv, Typed, Steps
  <2>3. LockInv'
    BY <1>0, <2>1, Fixed DEF Inv, Typed, LockInv, PortsHeld, InPlace, PastHTTP, Running, StillReads, Processes
  <2>4. CertInv' /\ FilesInv'
    BY <1>0, <2>1 DEF Inv, Typed, CertInv, FilesInv, Loaded, Reading, StillReads, PairLoads, Processes
  <2> QED
    BY <2>2, <2>3, <2>4 DEF Inv
<1>2. [NoOrder EXCEPT !.step = "authorize"] = [step |-> "authorize", next |-> 1, cert |-> None]
  BY DEF NoOrder
<1>3. [step |-> "authorize", next |-> 1, cert |-> None] \in Order
  BY DEF Order, OrderSteps
<1>4. CASE ToolCallsObtain
  <2>1. CASE ExitFailed("tool")
    <3>1. disk' \in Pair /\ faults' \in Nat
      BY <1>0 DEF Inv, Typed
    <3> QED
      BY <1>0, <2>1, <3>1, EndInv DEF ExitFailed, Processes
  <2>2. CASE /\ order' = [order EXCEPT !["tool"] = [step |-> "authorize", next |-> 1, cert |-> None]]
             /\ pc' = [pc EXCEPT !["tool"] = "obtain"]
             /\ UNCHANGED <<sockets, task, served, renewal>>
    <3>1. pc["tool"] = "call"
      BY <1>4 DEF ToolCallsObtain
    <3>2. Typed'
      BY <1>0, <1>3, <2>2 DEF Inv, Typed, Steps
    <3>3. LockInv'
      BY <1>0, <2>2, <3>1, Fixed
         DEF Inv, Typed, LockInv, PortsHeld, InPlace, PastHTTP, Running, StillReads, Processes
    <3>4. CertInv'
      BY <1>0, <2>2 DEF Inv, Typed, CertInv, Loaded, Reading, StillReads, PairLoads, Processes
    <3>5. FilesInv'
      BY <1>0, <2>2 DEF Inv, Typed, FilesInv, Ordered, Processes
    <3> QED
      BY <3>2, <3>3, <3>4, <3>5 DEF Inv
  <2> QED
    BY <1>2, <1>4, <2>1, <2>2 DEF ToolCallsObtain, Step, Goto
<1>5. CASE Renew
  <2>1. /\ renewal = "check" /\ pc["server"] = "serving"
        /\ \/ /\ renewal' = "obtain"
              /\ order' = [order EXCEPT !["server"] = [step |-> "authorize", next |-> 1, cert |-> None]]
           \/ renewal' = "wait" /\ order' = order
        /\ UNCHANGED <<pc, sockets, task, served>>
    BY <1>2, <1>5 DEF Renew, Step
  <2>2. Typed'
    BY <1>0, <1>3, <2>1 DEF Inv, Typed
  <2>3. PortsHeld'
    BY <1>0, <2>1, Fixed DEF Inv, LockInv, PortsHeld, PastHTTP
  <2>4. InPlace'
    BY <2>1 DEF Inv, Typed, LockInv, InPlace, Running, StillReads, Processes
  <2>5. CertInv'
    BY <1>0, <2>1 DEF Inv, CertInv, Loaded, Reading, StillReads, PairLoads
  <2>6. FilesInv'
    BY <1>0, <2>1 DEF Inv, Typed, FilesInv, Ordered, Processes
  <2> QED
    BY <2>2, <2>3, <2>4, <2>5, <2>6 DEF Inv, LockInv
<1>6. CASE Tick
  <2>1. /\ \A l \in Listeners : task[l] \notin {"load", "bind"}
        /\ renewal' = IF renewal = "wait" THEN "check" ELSE renewal
        /\ renewal \in {"off", "wait"}
        /\ UNCHANGED <<pc, sockets, task, served, order>>
    BY <1>6 DEF Tick, Settled
  <2>2. Typed'
    BY <1>0, <2>1 DEF Inv, Typed
  <2>3. PortsHeld'
    BY <1>0, <2>1, Fixed DEF Inv, LockInv, PortsHeld, PastHTTP
  <2>4. InPlace'
    BY <2>1 DEF Inv, LockInv, InPlace, StillReads
  <2>5. CertInv' /\ FilesInv'
    BY <1>0, <2>1 DEF Inv, CertInv, FilesInv, Loaded, Reading, StillReads, PairLoads
  <2> QED
    BY <2>2, <2>3, <2>4, <2>5 DEF Inv, LockInv
<1> QED
  BY <1>1, <1>4, <1>5, <1>6

\* The steps of an order.
LEMMA OrdersInv ==
    ASSUME Inv, NEW p \in Processes, Orders(p)
    PROVE  Inv'
<1>0. order[p] \in Order /\ disk \in Pair /\ faults \in Nat
  BY DEF Inv, Typed
<1>1. ASSUME order[p].step # None, ObtainEnds(p), UNCHANGED <<cfg, faults>>, disk' \in Pair
      PROVE  Inv'
  BY <1>0, <1>1, ObtainEndsInv
<1>2. ASSUME order[p].step = "authorize" \/ order[p].step = "wait", NEW o \in Order,
             o.step \in {"authorize", "wait", "cert"}, o.step = "cert" => o.cert \in Certs,
             order' = [order EXCEPT ![p] = o],
             UNCHANGED <<pc, sockets, task, served, renewal, cfg, faults, disk>>
      PROVE  Inv'
  <2>1. order[p].step # None /\ o.step # None /\ o.step \notin {"key", "keyCut"}
    BY <1>2 DEF None
  <2>2. o.step \in Ordered => o.cert \in Certs
    BY <1>2 DEF Ordered
  <2> QED
    BY <1>0, <1>2, <2>1, <2>2, OrderInv
<1>3. CASE Authorized(p) \/ CAFetches(p)
  <2>1. [order[p] EXCEPT !.step = "authorize", !.next = @ + 1] \in Order
    <3> DEFINE n == order[p].next + 1
    <3>1. n \in Nat /\ "authorize" \in OrderSteps
      BY <1>0 DEF Order, OrderSteps
    <3> HIDE DEF n
    <3>2. [order[p] EXCEPT !.step = "authorize", !.next = n] \in Order
      BY <1>0, <3>1 DEF Order
    <3> QED
      BY <3>2 DEF n
  <2>2. CASE Authorized(p)
    <3>1. [order[p] EXCEPT !.next = @ + 1] \in Order
      BY <1>0 DEF Order
    <3>2. [order[p] EXCEPT !.next = @ + 1].step = "authorize"
      BY <1>0, <2>2 DEF Authorized, Order
    <3> QED
      BY <1>2, <2>2, <3>1, <3>2 DEF Authorized, Step, world
  <2>3. CASE CAFetches(p)
    <3>1. [order[p] EXCEPT !.step = "authorize", !.next = @ + 1].step = "authorize"
      BY <1>0 DEF Order
    <3> QED
      BY <1>2, <2>1, <2>3, <3>1 DEF CAFetches, Step, world
  <2> QED
    BY <1>3, <2>2, <2>3
<1>4. CASE Challenge(p)
  <2>1. [order[p] EXCEPT !.step = "wait"] \in Order /\ [order[p] EXCEPT !.step = "wait"].step = "wait"
    BY <1>0 DEF Order, OrderSteps
  <2> QED
    BY <1>2, <1>4, <2>1 DEF Challenge, Step, world
<1>5. CASE Issue(p)
  <2> DEFINE c == CHOOSE c \in Certs \ InUse : TRUE
             o == [order[p] EXCEPT !.step = "cert", !.cert = c]
  <2>1. c \in Certs
    BY <1>5 DEF Issue
  <2>2. order' = [order EXCEPT ![p] = o]
    BY <1>5 DEF Issue, Step
  <2> HIDE DEF c
  <2>3. o \in Order /\ o.step = "cert" /\ o.cert = c
    BY <1>0, <2>1 DEF Order, OrderSteps
  <2> HIDE DEF o
  <2> QED
    BY <1>2, <1>5, <2>1, <2>2, <2>3 DEF Issue
<1>6. CASE CAFails(p)
  <2>1. order[p].step # None
    BY <1>6 DEF CAFails, None
  <2> QED
    BY <1>0, <1>1, <1>6, <2>1 DEF CAFails, world
\* Writing: the certificate's file, then the key's.
<1>7. ASSUME NEW step \in Ordered, order[p].step \in Ordered, NEW d \in Pair, disk' = d,
             order' = [order EXCEPT ![p] = [order[p] EXCEPT !.step = step]],
             step \in {"key", "keyCut"} => d.cert = order[p].cert,
             UNCHANGED <<pc, sockets, task, served, renewal, cfg, faults>>
      PROVE  Inv'
  <2> DEFINE o == [order[p] EXCEPT !.step = step]
  <2>1. o \in Order /\ o.step = step /\ o.cert = order[p].cert
    BY <1>0, <1>7 DEF Order, OrderSteps, Ordered
  <2>2. order[p].step # None /\ step # None /\ order[p].cert \in Certs
    BY <1>7 DEF Inv, FilesInv, Ordered, None
  <2>3. order' = [order EXCEPT ![p] = o]
    BY <1>7
  <2> HIDE DEF o
  <2> QED
    BY <1>7, <2>1, <2>2, <2>3, OrderInv
<1>8. CASE Truncate(p, "cert") \/ Truncate(p, "key")
  <2>1. ASSUME NEW file \in {"cert", "key"}, Truncate(p, file)
        PROVE  Inv'
    <3> DEFINE d == [disk EXCEPT ![file] = Cut]
               step == IF file = "cert" THEN "certCut" ELSE "keyCut"
    <3>1. d \in Pair /\ (file = "key" => d.cert = disk.cert)
      BY <1>0, <2>1 DEF Pair
    <3>2. /\ order[p].step = file /\ disk' = d
          /\ order' = [order EXCEPT ![p] = [order[p] EXCEPT !.step = step]]
          /\ UNCHANGED <<pc, sockets, task, served, renewal, cfg, faults>>
      BY <2>1 DEF Truncate, Step
    <3>3. order[p].step \in Ordered /\ step \in Ordered
      BY <2>1, <3>2 DEF Ordered
    <3>4. step \in {"key", "keyCut"} => d.cert = order[p].cert
      BY <2>1, <3>1, <3>2 DEF Inv, FilesInv
    <3> HIDE DEF d, step
    <3> QED
      BY <1>7, <3>1, <3>2, <3>3, <3>4
  <2> QED
    BY <1>8, <2>1
<1>9. CASE WriteCert(p)
  <2> DEFINE d == [disk EXCEPT !.cert = order[p].cert]
  <2>1. order[p].step \in Ordered /\ "key" \in Ordered /\ order[p].cert \in Certs
    BY <1>9 DEF WriteCert, Inv, FilesInv, Ordered
  <2>2. d \in Pair /\ d.cert = order[p].cert
    BY <1>0, <2>1 DEF Pair
  <2>3. /\ disk' = d
        /\ order' = [order EXCEPT ![p] = [order[p] EXCEPT !.step = "key"]]
        /\ UNCHANGED <<pc, sockets, task, served, renewal, cfg, faults>>
    BY <1>9 DEF WriteCert, Step
  <2> HIDE DEF d
  <2> QED
    BY <1>7, <2>1, <2>2, <2>3
<1>10. CASE WriteKey(p)
  <2>1. order[p].step # None /\ order[p].cert \in Certs
    BY <1>10 DEF WriteKey, Inv, FilesInv, Ordered, None
  <2>2. disk' \in Pair
    BY <1>0, <1>10, <2>1 DEF WriteKey, Pair
  <2> QED
    BY <1>1, <1>10, <2>1, <2>2 DEF WriteKey
<1> QED
  BY <1>3, <1>4, <1>5, <1>6, <1>8, <1>9, <1>10 DEF Orders, Writes

LEMMA FaultsInv ==
    ASSUME Inv, NEW p \in Processes, Crash(p) \/ WriteFails(p)
    PROVE  Inv'
<1>1. disk' \in Pair /\ disk' = disk /\ faults' \in Nat /\ cfg' = cfg
  BY DEF Crash, WriteFails, Fault, Inv, Typed
<1>2. CASE Crash(p)
  BY <1>1, <1>2, EndInv DEF Crash, ExitFailed, Processes
<1>3. CASE WriteFails(p)
  <2>1. order[p].step # None
    BY <1>3 DEF WriteFails, Writing, None
  <2> QED
    BY <1>1, <1>3, <2>1, ObtainEndsInv DEF WriteFails
<1> QED
  BY <1>2, <1>3

LEMMA StepInv == Inv /\ [Next]_vars => Inv'
<1> SUFFICES ASSUME Inv, [Next]_vars
             PROVE  Inv'
  OBVIOUS
<1>1. CASE UNCHANGED vars
  BY <1>1, Fixed DEF vars, running, world, Inv, Typed, LockInv, PortsHeld, InPlace, PastHTTP,
                     CertInv, FilesInv, Loaded, Reading, StillReads, PairLoads
<1>2. CASE ServerSteps
  BY <1>2, StartInv, BindsInv, BindTCPInv, CallsInv, SignalsInv, ListenersInv, OrdersInv
     DEF ServerSteps, Processes
<1>3. CASE ToolSteps
  BY <1>3, BindsInv, CallsInv, OrdersInv DEF ToolSteps, Processes
<1>4. CASE Close \/ Interrupt \/ StartAgain \/ RunTool \/ Tick
  BY <1>4, SignalsInv, CallsInv
<1> QED
  BY <1>1, <1>2, <1>3, <1>4, FaultsInv DEF Next

LEMMA Invariant == Spec => []Inv
BY InitInv, StepInv, PTL DEF Spec

-----------------------------------------------------------------------------
(***************************************************************************)
(* The theorems.                                                           *)
(***************************************************************************)
\* The HTTP port is the lock of the two files: no two processes write them at once, and
\* no listener of the server has yet to read them when one does.
THEOREM FilesLocked == Spec => []ReadersAndWriterApart
<1>1. ASSUME Inv PROVE ReadersAndWriterApart
  <2>1. ASSUME NEW p \in Processes, order[p].step # None
        PROVE  pc[p] \in {"obtain", "serving", "closed"} /\ HTTPSocket \in sockets[p]
    <3>1. HTTPSocket \in sockets[p]
      BY <1>1, <2>1, OneOrder
    <3> QED
      BY <1>1, <2>1, <3>1 DEF Inv, LockInv, InPlace, Running, Processes
  <2>2. PortsAreLocks
    BY <1>1, <2>1 DEF PortsAreLocks, Inv, LockInv, PortsHeld
  <2>3. ASSUME NEW p \in Processes, Writing(p)
        PROVE  /\ \A q \in Processes \ {p} : ~Writing(q)
               /\ pc["server"] # "pair" /\ ~Reading
    <3>1. order[p].step # None
      BY <2>3 DEF Writing, None
    <3>2. \A q \in Processes : order[q].step = None => ~Writing(q)
      BY DEF Writing, None
    <3> QED
      BY <1>1, <3>1, <3>2, OneOrder
  <2> QED
    BY <2>2, <2>3 DEF ReadersAndWriterApart, Reading, StillReads
<1> QED
  BY <1>1, Invariant, PTL

\* The listeners load the pair one after another, and show the same certificate:
\* nothing writes the files between the first load and the last.
THEOREM OnePairIsServed == Spec => []OneCertificate
<1>1. Inv => OneCertificate
  BY DEF Inv, CertInv, Loaded, OneCertificate
<1> QED
  BY <1>1, Invariant, PTL

\* What every step does for the pair: the action of StaysWhole.
Kept ==
    PairLoads \/ BeingWritten =>
        PairLoads' \/ BeingWritten' \/ Stopping \/ faults' > faults

\* A step that leaves the files alone, and the order of every process but one that does
\* not write.
LEMMA KeptByOthers ==
    ASSUME Inv, disk' = disk, NEW p \in Processes, ~Writing(p),
           order' = order \/ \E o : order' = [order EXCEPT ![p] = o]
    PROVE  Kept
<1>1. ASSUME NEW q \in Processes, Writing(q)
      PROVE  Writing(q)'
  BY <1>1 DEF Writing, Inv, Typed
<1> QED
  BY <1>1 DEF Kept, PairLoads, BeingWritten

\* A process that has no order does not write.
LEMMA NotWriting ==
    ASSUME NEW p \in Processes, order[p].step \notin Ordered
    PROVE  ~Writing(p)
BY DEF Writing, Ordered

\* The steps outside Obtain.
LEMMA KeptOutside ==
    ASSUME Inv,
           \/ Restart \/ StartHTTP \/ LoadHTTPSPair \/ BindTCP \/ Renew
           \/ \E l \in Listeners : LoadPair(l) \/ Listen(l)
           \/ Close \/ Interrupt \/ StartAgain \/ RunTool
           \/ ToolBindTCP \/ ToolStartHTTP \/ ToolCallsObtain \/ Tick
           \/ \E p \in Processes : BindUDP(p)
    PROVE  Kept
<1>1. disk' = disk
  BY DEF Restart, StartHTTP, LoadHTTPSPair, BindTCP, Renew, LoadPair, Listen, Close, Interrupt,
         StartAgain, RunTool, ToolBindTCP, ToolStartHTTP, ToolCallsObtain, Tick, BindUDP, world
<1>2. /\ pc["server"] \notin Running \/ renewal = "check" => ~Writing("server")
      /\ pc["tool"] # "obtain" => ~Writing("tool")
  BY NotWriting DEF Inv, LockInv, InPlace, Processes, Ordered, None
<1>3. CASE \/ Restart \/ \E l \in Listeners : LoadPair(l) \/ Listen(l)
           \/ Close \/ StartAgain \/ RunTool \/ Tick
  <2>1. order' = order
    BY <1>3 DEF Restart, LoadPair, Listen, Close, StartAgain, RunTool, Tick
  <2> QED
    BY <1>1, <2>1 DEF Kept, PairLoads, BeingWritten, Writing
<1>4. CASE StartHTTP \/ LoadHTTPSPair \/ BindUDP("server") \/ BindTCP \/ Interrupt \/ Renew
  <2>1. pc["server"] \notin Running \/ renewal = "check"
    BY <1>4 DEF StartHTTP, LoadHTTPSPair, BindUDP, BindTCP, Interrupt, Renew, Running
  <2>2. order' = order \/ \E o : order' = [order EXCEPT !["server"] = o]
    BY <1>4 DEF StartHTTP, LoadHTTPSPair, BindUDP, BindTCP, Interrupt, Renew, BindOrExit,
                ExitFailed, End, Step
  <2> QED
    BY <1>1, <1>2, <2>1, <2>2, KeptByOthers DEF Processes
<1>5. CASE BindUDP("tool") \/ ToolBindTCP \/ ToolStartHTTP \/ ToolCallsObtain
  <2>1. pc["tool"] # "obtain"
    BY <1>5 DEF BindUDP, ToolBindTCP, ToolStartHTTP, ToolCallsObtain
  <2>2. order' = order \/ \E o : order' = [order EXCEPT !["tool"] = o]
    BY <1>5 DEF BindUDP, ToolBindTCP, ToolStartHTTP, ToolCallsObtain, BindOrExit, ExitFailed,
                End, Step
  <2> QED
    BY <1>1, <1>2, <2>1, <2>2, KeptByOthers DEF Processes
<1> QED
  BY <1>3, <1>4, <1>5 DEF Processes

\* The steps of an order: only those of a writer touch the files, and the last one
\* leaves a key next to the certificate it belongs to.
LEMMA KeptByOrders ==
    ASSUME Inv, NEW p \in Processes, Orders(p)
    PROVE  Kept
<1>0. order \in [Processes -> Order] /\ disk \in Pair
  BY DEF Inv, Typed
<1>1. CASE Authorized(p) \/ Challenge(p) \/ CAFetches(p) \/ CAFails(p) \/ Issue(p)
  <2>1. ~Writing(p) /\ disk' = disk
    BY <1>1 DEF Authorized, Challenge, CAFetches, CAFails, Issue, Writing, world
  <2>2. \E o : order' = [order EXCEPT ![p] = o]
    BY <1>1 DEF Authorized, Challenge, CAFetches, CAFails, Issue, Step, ObtainEnds, ExitFailed, End
  <2> QED
    BY <2>1, <2>2, KeptByOthers
<1>2. CASE Truncate(p, "cert") \/ Truncate(p, "key") \/ WriteCert(p)
  <2>1. PICK step \in Ordered : order' = [order EXCEPT ![p] = [order[p] EXCEPT !.step = step]]
    BY <1>2 DEF Truncate, WriteCert, Step, Ordered
  <2>2. [order[p] EXCEPT !.step = step].step = step
    BY <1>0 DEF Order
  <2>3. Writing(p)'
    BY <1>0, <2>1, <2>2 DEF Writing, Ordered
  <2> QED
    BY <2>3 DEF Kept, BeingWritten
<1>3. CASE WriteKey(p)
  <2>1. disk.cert = order[p].cert /\ disk.cert \in Certs
    BY <1>3 DEF WriteKey, Inv, FilesInv, Ordered
  <2>2. disk' = [disk EXCEPT !.key = order[p].cert]
    BY <1>3 DEF WriteKey
  <2>3. PairLoads'
    BY <1>0, <2>1, <2>2, CertNames DEF PairLoads, Pair
  <2> QED
    BY <2>3 DEF Kept
<1> QED
  BY <1>1, <1>2, <1>3 DEF Orders, Writes

\* Once the pair on disk is whole, it is whole whenever nobody writes it, unless a write
\* was cut short by a stop or a fault.
THEOREM PairStaysWhole == Spec => StaysWhole
<1>1. Inv /\ [Next]_vars => [Kept]_vars
  <2> SUFFICES ASSUME Inv, Next PROVE Kept
    OBVIOUS
  <2>1. CASE Return
    BY <2>1 DEF Return, End, Kept, Stopping, Inv, Typed, Processes
  <2>2. CASE \E p \in Processes : Crash(p) \/ WriteFails(p)
    BY <2>2 DEF Crash, WriteFails, Fault, Kept, Inv, Typed
  <2> QED
    BY <2>1, <2>2, KeptOutside, KeptByOrders DEF Next, ServerSteps, ToolSteps, Processes
<1>2. Spec => [][Kept]_vars
  BY <1>1, Invariant, PTL DEF Spec
<1> QED
  BY <1>2 DEF StaysWhole, Kept

-----------------------------------------------------------------------------
(***************************************************************************)
(* Which listeners a server has.  A listener with a task is configured; a  *)
(* socket of the server is that of HTTP, UDP, TCP or one listener; and     *)
(* while the pair is still to be read it is as whole as it was when the    *)
(* HTTP port was taken.                                                    *)
(***************************************************************************)
MainSockets == {HTTPSocket, UDPSocket, TCPSocket}
\* DoH binds before it loads the pair, the others after.
Bound(l) == task[l] = "up" \/ (l = "DoH" /\ task[l] = "load")
ConfigInv ==
    /\ pc["server"] \notin {"down", "stopped"} => Validate(cfg)
    /\ \A l \in Listeners : task[l] # "off" => HasListener(l)
    /\ HasListener("HTTPS") /\ pc["server"] \in {"udp", "tcp"} \cup Running
          => wholeAtStart /\ task["HTTPS"] # "off"
WholeInv ==
    /\ wholeAtStart \in BOOLEAN
    /\ pc["server"] = "pair" \/ Reading => (wholeAtStart <=> PairLoads)
    /\ \A l \in Listeners : Loaded(l) => served[l] \in Certs
SocketsInv ==
    /\ \A l \in Listeners : Bound(l) => SocketOf(l) \in sockets["server"]
    /\ \A k, l \in Listeners : Bound(k) /\ Bound(l) /\ SocketOf(k) = SocketOf(l) => k = l
    /\ pc["server"] = "serving" => \A l \in Listeners : Bound(l) => SocketOf(l) \notin {UDPSocket, TCPSocket}
    /\ pc["server"] \in {"tcp", "serving"} /\ cfg["UDP"] # Zero => UDPSocket \in sockets["server"]
    /\ pc["server"] = "serving" /\ cfg["TCP"] # Zero => TCPSocket \in sockets["server"]
    /\ sockets["server"] \subseteq MainSockets \cup {SocketOf(l) : l \in {l \in Listeners : Bound(l)}}
    /\ sockets["tool"] \subseteq MainSockets
Excused(l) ==
    SocketOf(l) \in foreign \/ GivenTwice(l) \/ (~wholeAtStart /\ ~HasListener("HTTPS"))
FailedInv == \A l \in Listeners : task[l] = "failed" => Excused(l)
CompleteInv == ConfigInv /\ WholeInv /\ SocketsInv /\ FailedInv

LEMMA FixedToo ==
    ASSUME UNCHANGED cfg
    PROVE  /\ \A l : HasListener(l)' <=> HasListener(l)
           /\ \A l : PortOf(l)' = PortOf(l)
           /\ MainSockets' = MainSockets
           /\ \A l : GivenTwice(l)' <=> GivenTwice(l)
           /\ Validate(cfg)' <=> Validate(cfg)
<1>1. /\ \A l : HasListener(l)' <=> HasListener(l)
      /\ \A l : PortOf(l)' = PortOf(l)
  BY DEF HasListener, HasPair, PortOf
<1>2. MainSockets' = MainSockets
  BY Fixed DEF MainSockets
<1>3. ASSUME NEW l PROVE GivenTwice(l)' <=> GivenTwice(l)
  BY Fixed, <1>2 DEF GivenTwice, MainSockets
<1>4. Validate(cfg)' <=> Validate(cfg)
  OBVIOUS
<1> QED
  BY <1>1, <1>2, <1>3, <1>4

LEMMA InitComplete == Init => CompleteInv
<1> SUFFICES ASSUME Init PROVE CompleteInv
  OBVIOUS
<1>1. /\ pc["server"] = "down" /\ \A p \in Processes : sockets[p] = {}
      /\ wholeAtStart = FALSE /\ \A l \in Listeners : task[l] = "off"
  BY DEF Init, NoTasks, Processes
<1>2. ConfigInv
  <2>1. pc["server"] \notin {"udp", "tcp"} \cup Running
    BY <1>1 DEF Running
  <2> QED
    BY <1>1, <2>1 DEF ConfigInv
<1>3. WholeInv
  BY <1>1 DEF WholeInv, Reading, StillReads, Loaded
<1>4. SocketsInv /\ FailedInv
  BY <1>1 DEF SocketsInv, FailedInv, Bound, Processes
<1> QED
  BY <1>2, <1>3, <1>4 DEF CompleteInv

\* A step that leaves the server's listeners, and the files unless nobody reads them.
LEMMA CompleteKept ==
    ASSUME Inv, CompleteInv,
           UNCHANGED <<cfg, foreign, task, served, wholeAtStart>>,
           pc'["server"] = pc["server"], sockets'["server"] = sockets["server"],
           sockets'["tool"] \subseteq MainSockets,
           disk' = disk \/ (~Reading /\ pc["server"] # "pair")
    PROVE  CompleteInv'
<1>1. Reading' <=> Reading
  BY DEF Reading, StillReads
<1>2. \A l \in Listeners : (Bound(l)' <=> Bound(l)) /\ (Loaded(l)' <=> Loaded(l))
  BY DEF Bound, Loaded
<1>3. ConfigInv'
  BY FixedToo DEF CompleteInv, ConfigInv
<1>4. WholeInv'
  <2>1. disk' = disk => (PairLoads' <=> PairLoads)
    BY DEF PairLoads
  <2> QED
    BY <1>1, <1>2, <2>1 DEF CompleteInv, WholeInv
<1>5. SocketsInv'
  BY <1>2, Fixed, FixedToo DEF CompleteInv, SocketsInv
<1>6. FailedInv'
  BY Fixed, FixedToo DEF CompleteInv, FailedInv, Excused
<1> QED
  BY <1>3, <1>4, <1>5, <1>6 DEF CompleteInv

\* A server that is down has no listeners.
LEMMA CompleteDown ==
    ASSUME CompleteInv, UNCHANGED cfg,
           sockets'["server"] = {}, sockets'["tool"] = sockets["tool"],
           task' = NoTasks, wholeAtStart' = FALSE,
           \/ pc'["server"] \in {"down", "stopped"}
           \/ pc'["server"] = "http" /\ Validate(cfg)
    PROVE  CompleteInv'
<1>1. \A l \in Listeners : task'[l] = "off"
  BY DEF NoTasks
<1>2. ConfigInv'
  BY <1>1, FixedToo DEF ConfigInv, Running
<1>3. WholeInv'
  BY <1>1 DEF WholeInv, Reading, StillReads, Loaded
<1>4. SocketsInv'
  BY <1>1, FixedToo DEF CompleteInv, SocketsInv, Bound
<1>5. FailedInv'
  BY <1>1 DEF FailedInv
<1> QED
  BY <1>2, <1>3, <1>4, <1>5 DEF CompleteInv

LEMMA CompleteEnd ==
    ASSUME Inv, CompleteInv, NEW p \in Processes, NEW then, End(p, then), UNCHANGED <<cfg, foreign>>,
           IF p = "server" THEN then \in {"down", "stopped"} ELSE then = "idle",
           disk' = disk \/ order[p].step # None
    PROVE  CompleteInv'
<1>1. /\ \A q \in Processes : /\ pc'[q] = IF q = p THEN then ELSE pc[q]
                              /\ sockets'[q] = IF q = p THEN {} ELSE sockets[q]
  BY DEF End, Inv, Typed, Processes
<1>2. CASE p = "server"
  BY <1>1, <1>2, CompleteDown DEF End, Processes
<1>3. CASE p = "tool"
  <2>1. UNCHANGED <<task, served, wholeAtStart>>
    BY <1>3 DEF End
  <2>2. disk' = disk \/ (~Reading /\ pc["server"] # "pair")
    BY OneOrder
  <2> QED
    BY <1>1, <1>3, <2>1, <2>2, CompleteKept DEF Processes
<1> QED
  BY <1>2, <1>3 DEF Processes

LEMMA CompleteObtainEnds ==
    ASSUME Inv, CompleteInv, NEW p \in Processes, order[p].step # None, ObtainEnds(p),
           UNCHANGED <<cfg, foreign>>
    PROVE  CompleteInv'
<1>1. CASE p = "tool"
  <2>1. End(p, "idle")
    BY <1>1 DEF ObtainEnds, ExitFailed
  <2> QED
    BY <1>1, <2>1, CompleteEnd
<1>2. CASE p = "server"
  <2>1. UNCHANGED <<pc, sockets, task, served, wholeAtStart>>
    BY <1>2 DEF ObtainEnds
  <2>2. ~Reading /\ pc["server"] # "pair"
    BY OneOrder
  <2>3. sockets["tool"] \subseteq MainSockets
    BY DEF CompleteInv, SocketsInv
  <2> QED
    BY <2>1, <2>2, <2>3, CompleteKept
<1> QED
  BY <1>1, <1>2 DEF Processes

LEMMA CompleteOrders ==
    ASSUME Inv, CompleteInv, NEW p \in Processes, Orders(p)
    PROVE  CompleteInv'
<1>1. sockets["tool"] \subseteq MainSockets
  BY DEF CompleteInv, SocketsInv
<1>2. CASE Authorized(p) \/ Challenge(p) \/ CAFetches(p) \/ Issue(p)
  BY <1>1, <1>2, CompleteKept DEF Authorized, Challenge, CAFetches, Issue, world
<1>3. CASE CAFails(p)
  <2>1. order[p].step # None /\ ObtainEnds(p) /\ UNCHANGED <<cfg, foreign>>
    BY <1>3 DEF CAFails, None, world
  <2> QED
    BY <2>1, CompleteObtainEnds
<1>4. CASE Truncate(p, "cert") \/ WriteCert(p) \/ Truncate(p, "key")
  <2>1. order[p].step # None
    BY <1>4 DEF Truncate, WriteCert, None
  <2>2. ~Reading /\ pc["server"] # "pair"
    BY <2>1, OneOrder
  <2> QED
    BY <1>1, <1>4, <2>2, CompleteKept DEF Truncate, WriteCert
<1>5. CASE WriteKey(p)
  <2>1. order[p].step # None /\ ObtainEnds(p) /\ UNCHANGED <<cfg, foreign>>
    BY <1>5 DEF WriteKey, None
  <2> QED
    BY <2>1, CompleteObtainEnds
<1> QED
  BY <1>2, <1>3, <1>4, <1>5 DEF Orders, Writes

\* The tool's steps before its order, renewal, days and faults.
LEMMA CompleteOthers ==
    ASSUME Inv, CompleteInv,
           \/ RunTool \/ BindUDP("tool") \/ ToolBindTCP \/ ToolStartHTTP \/ ToolCallsObtain
           \/ Renew \/ Tick \/ Close
           \/ \E p \in Processes : Crash(p) \/ WriteFails(p)
    PROVE  CompleteInv'
<1>0. /\ sockets["tool"] \subseteq MainSockets /\ DOMAIN sockets = Processes
      /\ UNCHANGED <<cfg, foreign, disk>>
  BY DEF CompleteInv, SocketsInv, Inv, Typed, RunTool, BindUDP, ToolBindTCP, ToolStartHTTP,
         ToolCallsObtain, Renew, Tick, Close, Crash, WriteFails, world
<1>1. ASSUME NEW socket \in MainSockets, NEW to, BindOrExit("tool", socket, to)
      PROVE  CompleteInv'
  <2>1. CASE ExitFailed("tool")
    BY <1>0, <2>1, CompleteEnd DEF ExitFailed, Processes
  <2>2. CASE /\ sockets' = [sockets EXCEPT !["tool"] = @ \cup {socket}] /\ Goto("tool", to)
             /\ UNCHANGED <<task, served, wholeAtStart>>
    <3>1. pc'["server"] = pc["server"]
      BY <2>2 DEF Goto, Inv, Typed, Processes
    <3>2. sockets'["server"] = sockets["server"] /\ sockets'["tool"] \subseteq MainSockets
      BY <1>0, <2>2 DEF Processes
    <3> QED
      BY <1>0, <2>2, <3>1, <3>2, CompleteKept
  <2> QED
    BY <1>1, <2>1, <2>2 DEF BindOrExit
<1>2. ASSUME NEW to, pc' = pc \/ Goto("tool", to), UNCHANGED <<sockets, task, served, wholeAtStart>>
      PROVE  CompleteInv'
  <2>1. pc'["server"] = pc["server"]
    BY <1>2 DEF Goto, Inv, Typed, Processes
  <2> QED
    BY <1>0, <1>2, <2>1, CompleteKept
<1>3. CASE RunTool \/ Renew \/ Tick
  BY <1>2, <1>3 DEF RunTool, Renew, Tick
<1>4. CASE BindUDP("tool") \/ ToolBindTCP \/ ToolStartHTTP
  BY <1>1, <1>2, <1>4 DEF BindUDP, ToolBindTCP, ToolStartHTTP, MainSockets
<1>5. CASE ToolCallsObtain
  <2>1. CASE ExitFailed("tool")
    BY <1>0, <2>1, CompleteEnd DEF ExitFailed, Processes
  <2>2. CASE Goto("tool", "obtain") /\ UNCHANGED <<sockets, task, served, wholeAtStart>>
    BY <1>2, <2>2
  <2> QED
    BY <1>5, <2>1, <2>2 DEF ToolCallsObtain
<1>6. ASSUME NEW p \in Processes, Crash(p) \/ WriteFails(p)
      PROVE  CompleteInv'
  <2>1. CASE Crash(p)
    BY <1>0, <2>1, CompleteEnd DEF Crash, ExitFailed, Processes
  <2>2. CASE WriteFails(p)
    <3>1. order[p].step # None
      BY <2>2 DEF WriteFails, Writing, None
    <3> QED
      BY <1>0, <2>2, <3>1, CompleteObtainEnds DEF WriteFails
  <2> QED
    BY <1>6, <2>1, <2>2
<1>7. CASE Close
  <2>1. /\ pc["server"] = "serving" /\ pc'["server"] = "closed"
        /\ sockets'["server"] = sockets["server"] \ {UDPSocket, TCPSocket}
        /\ sockets'["tool"] = sockets["tool"]
        /\ UNCHANGED <<task, served, wholeAtStart>>
    BY <1>0, <1>7 DEF Close, Goto, Inv, Typed, Processes
  <2>2. \A l \in Listeners : (Bound(l)' <=> Bound(l)) /\ (Loaded(l)' <=> Loaded(l))
    BY <2>1 DEF Bound, Loaded
  <2>3. ConfigInv'
    BY <1>0, <2>1, FixedToo DEF CompleteInv, ConfigInv, Running
  <2>4. WholeInv'
    BY <1>0, <2>1, <2>2 DEF CompleteInv, WholeInv, Reading, StillReads, PairLoads
  <2>5. SocketsInv'
    BY <1>0, <2>1, <2>2, Fixed, FixedToo DEF CompleteInv, SocketsInv
  <2>6. FailedInv'
    BY <1>0, <2>1, Fixed, FixedToo DEF CompleteInv, FailedInv, Excused
  <2> QED
    BY <2>3, <2>4, <2>5, <2>6 DEF CompleteInv
<1> QED
  BY <1>3, <1>4, <1>5, <1>6, <1>7

-----------------------------------------------------------------------------
\* The server's start, step by step.
LEMMA CompleteStart ==
    ASSUME Inv, CompleteInv,
           Restart \/ StartHTTP \/ LoadHTTPSPair \/ BindUDP("server")
           \/ Interrupt \/ Return \/ StartAgain
    PROVE  CompleteInv'
<1>0. /\ DOMAIN sockets = Processes /\ DOMAIN pc = Processes /\ sockets["tool"] \subseteq MainSockets
      /\ UNCHANGED <<cfg, foreign, disk>>
  BY DEF CompleteInv, SocketsInv, Inv, Typed, Restart, StartHTTP, LoadHTTPSPair, BindUDP,
         Interrupt, Return, StartAgain, world
<1>1. ASSUME NEW then \in {"down", "stopped"}, End("server", then)
      PROVE  CompleteInv'
  BY <1>0, <1>1, CompleteEnd DEF Processes
<1>2. ASSUME pc["server"] \in {"down", "stopped", "http", "pair"}
      PROVE  /\ \A l \in Listeners : task[l] = "off"
             /\ ~Reading /\ \A l \in Listeners : ~Bound(l) /\ ~Loaded(l)
  BY <1>2 DEF Inv, LockInv, InPlace, Running, Reading, StillReads, Bound, Loaded
<1>3. CASE Interrupt \/ Return
  BY <1>1, <1>3 DEF Interrupt, Return
<1>4. CASE Restart \/ StartAgain
  <2>1. /\ pc["server"] \in {"down", "stopped"}
        /\ pc'["server"] = "down" \/ (pc'["server"] = "http" /\ Validate(cfg))
        /\ UNCHANGED <<sockets, task, served, wholeAtStart>>
    BY <1>0, <1>4 DEF Restart, StartAgain, Goto, Processes
  <2>2. ConfigInv'
    BY <1>0, <1>2, <2>1, FixedToo DEF ConfigInv, Running
  <2>3. WholeInv'
    BY <1>2, <2>1 DEF CompleteInv, WholeInv, Reading, StillReads, Loaded
  <2>4. SocketsInv'
    BY <1>0, <1>2, <2>1, Fixed, FixedToo DEF CompleteInv, SocketsInv, Bound
  <2>5. FailedInv'
    BY <1>2, <2>1 DEF FailedInv
  <2> QED
    BY <2>2, <2>3, <2>4, <2>5 DEF CompleteInv
<1>5. CASE StartHTTP
  <2>1. CASE ~Free(HTTPSocket)
    BY <1>1, <1>5, <2>1 DEF StartHTTP, ExitFailed
  <2>2. CASE Free(HTTPSocket)
    <3>1. /\ pc["server"] = "http" /\ pc'["server"] = "pair"
          /\ sockets'["server"] = sockets["server"] \cup {HTTPSocket}
          /\ sockets'["tool"] = sockets["tool"]
          /\ wholeAtStart' = PairLoads
          /\ UNCHANGED <<task, served>>
      BY <1>0, <1>5, <2>2 DEF StartHTTP, Goto, Processes
    <3>2. ConfigInv'
      BY <1>0, <1>2, <3>1, FixedToo DEF CompleteInv, ConfigInv, Running
    <3>3. WholeInv'
      <4>1. PairLoads \in BOOLEAN /\ (PairLoads' <=> PairLoads)
        BY <1>0 DEF PairLoads
      <4> QED
        BY <1>2, <3>1, <4>1 DEF WholeInv, Loaded
    <3>4. SocketsInv'
      BY <1>0, <1>2, <3>1, Fixed, FixedToo DEF CompleteInv, SocketsInv, Bound, MainSockets
    <3>5. FailedInv'
      BY <1>2, <3>1 DEF FailedInv
    <3> QED
      BY <3>2, <3>3, <3>4, <3>5 DEF CompleteInv
  <2> QED
    BY <2>1, <2>2
<1>6. CASE LoadHTTPSPair
  <2>1. CASE HasListener("HTTPS") /\ ~PairLoads
    BY <1>1, <1>6, <2>1 DEF LoadHTTPSPair, ExitFailed
  <2>2. CASE ~(HasListener("HTTPS") /\ ~PairLoads)
    <3>1. /\ pc["server"] = "pair" /\ pc'["server"] = "udp"
          /\ UNCHANGED <<sockets, wholeAtStart>>
          /\ \A l \in Listeners : l # "HTTPS" => task'[l] = "off"
          /\ IF HasListener("HTTPS") THEN task'["HTTPS"] = "bind" /\ served'["HTTPS"] = disk.cert
                                     ELSE task'["HTTPS"] = "off"
      BY <1>0, <1>2, <1>6, <2>2 DEF LoadHTTPSPair, Goto, Inv, Typed, Listeners, Processes
    <3>2. /\ \A l \in Listeners : ~Bound(l)' /\ task'[l] # "failed"
          /\ \A l \in Listeners : Loaded(l)' => l = "HTTPS" /\ HasListener("HTTPS")
      BY <3>1 DEF Bound, Loaded
    <3>3. wholeAtStart \in BOOLEAN /\ (wholeAtStart <=> PairLoads) /\ (PairLoads' <=> PairLoads)
      BY <1>0, <3>1 DEF CompleteInv, WholeInv, PairLoads
    <3>4. ConfigInv'
      BY <1>0, <2>2, <3>1, <3>3, FixedToo DEF CompleteInv, ConfigInv, Listeners, Running
    <3>5. WholeInv'
      <4>1. HasListener("HTTPS") => disk.cert \in Certs
        BY <2>2 DEF Inv, Typed, Pair, PairLoads
      <4> QED
        BY <3>1, <3>2, <3>3, <4>1 DEF WholeInv
    <3>6. SocketsInv'
      BY <1>0, <1>2, <3>1, <3>2, Fixed, FixedToo DEF CompleteInv, SocketsInv
    <3>7. FailedInv'
      BY <3>2 DEF FailedInv
    <3> QED
      BY <3>4, <3>5, <3>6, <3>7 DEF CompleteInv
  <2> QED
    BY <2>1, <2>2
<1>7. CASE BindUDP("server")
  <2>1. CASE ExitFailed("server")
    BY <1>1, <2>1 DEF ExitFailed
  <2>2. CASE ~ExitFailed("server")
    <3>1. /\ pc["server"] = "udp" /\ pc'["server"] = "tcp"
          /\ sockets'["server"] = IF cfg["UDP"] = Zero THEN sockets["server"]
                                  ELSE sockets["server"] \cup {UDPSocket}
          /\ sockets'["tool"] = sockets["tool"]
          /\ UNCHANGED <<task, served, wholeAtStart>>
      BY <1>0, <1>7, <2>2 DEF BindUDP, BindOrExit, Goto, Processes
    <3>2. /\ Reading /\ \A l \in Listeners : (Bound(l)' <=> Bound(l)) /\ (Loaded(l)' <=> Loaded(l))
      BY <3>1 DEF Bound, Loaded, Reading
    <3>3. ConfigInv'
      BY <1>0, <3>1, FixedToo DEF CompleteInv, ConfigInv, Running
    <3>4. WholeInv'
      BY <1>0, <3>1, <3>2 DEF CompleteInv, WholeInv, PairLoads
    <3>5. SocketsInv'
      BY <1>0, <3>1, <3>2, Fixed, FixedToo DEF CompleteInv, SocketsInv, MainSockets
    <3>6. FailedInv'
      BY <1>0, <3>1, Fixed, FixedToo DEF CompleteInv, FailedInv, Excused
    <3> QED
      BY <3>3, <3>4, <3>5, <3>6 DEF CompleteInv
  <2> QED
    BY <2>1, <2>2
<1> QED
  BY <1>3, <1>4, <1>5, <1>6, <1>7

LEMMA CompleteBindTCP ==
    ASSUME Inv, CompleteInv, BindTCP
    PROVE  CompleteInv'
<1>0. /\ DOMAIN sockets = Processes /\ DOMAIN pc = Processes /\ pc["server"] = "tcp"
      /\ UNCHANGED <<cfg, foreign, disk>>
  BY DEF Inv, Typed, BindTCP, world
<1>1. CASE ExitFailed("server")
  BY <1>0, <1>1, CompleteEnd DEF ExitFailed, Processes
<1>2. CASE /\ cfg["TCP"] = Zero \/ Free(TCPSocket)
           /\ sockets' = IF cfg["TCP"] = Zero THEN sockets
                          ELSE [sockets EXCEPT !["server"] = @ \cup {TCPSocket}]
           /\ task' = Spawned /\ Goto("server", "serving")
           /\ UNCHANGED <<served, wholeAtStart>>
  <2>1. /\ pc'["server"] = "serving" /\ sockets'["tool"] = sockets["tool"]
        /\ sockets'["server"] = IF cfg["TCP"] = Zero THEN sockets["server"]
                                ELSE sockets["server"] \cup {TCPSocket}
    BY <1>0, <1>2 DEF Goto, Processes
  <2>2. /\ task'["HTTPS"] = task["HTTPS"]
        /\ \A l \in Listeners : l # "HTTPS" =>
              /\ task[l] = "off" /\ task'[l] \in {"off", "load", "bind"}
              /\ task'[l] # "off" => HasListener(l)
              /\ l = "DoH" => task'[l] # "load"
              /\ l # "DoH" => task'[l] # "bind"
    BY <1>0, <1>2 DEF Spawned, Listeners, Inv, LockInv, InPlace, Running
  <2>3. /\ \A l \in Listeners : Bound(l)' <=> Bound(l)
        /\ \A l \in Listeners : Loaded(l)' <=> Loaded(l)
        /\ \A l \in Listeners : Bound(l) => l = "HTTPS"
    BY <2>2 DEF Bound, Loaded, Listeners
  <2>4. ConfigInv'
    <3>1. /\ Validate(cfg)
          /\ task["HTTPS"] # "off" => HasListener("HTTPS")
          /\ HasListener("HTTPS") => wholeAtStart /\ task["HTTPS"] # "off"
      BY <1>0 DEF CompleteInv, ConfigInv, Listeners
    <3>2. \A l \in Listeners : task'[l] # "off" => HasListener(l)
      BY <2>2, <3>1
    <3> QED
      BY <1>0, <1>2, <2>2, <3>1, <3>2, FixedToo DEF ConfigInv
  <2>5. WholeInv'
    <3>1. Reading /\ (PairLoads' <=> PairLoads)
      BY <1>0 DEF Reading, PairLoads
    <3> QED
      BY <1>2, <2>1, <2>3, <3>1 DEF CompleteInv, WholeInv
  <2>6. Bound("HTTPS") => SocketOf("HTTPS") \notin {UDPSocket, TCPSocket}
    <3> SUFFICES ASSUME Bound("HTTPS") PROVE SocketOf("HTTPS") \notin {UDPSocket, TCPSocket}
      OBVIOUS
    <3>1. SocketOf("HTTPS") # UDPSocket
      BY DEF SocketOf, UDPSocket
    <3>2. HasListener("HTTPS") /\ SocketOf("HTTPS") \in sockets["server"]
      BY DEF CompleteInv, ConfigInv, SocketsInv, Bound, Listeners
    <3>3. cfg["TCP"] = Zero => SocketOf("HTTPS") # TCPSocket
      BY <3>2 DEF SocketOf, TCPSocket, HasListener, PortOf
    <3>4. Free(TCPSocket) => SocketOf("HTTPS") # TCPSocket
      BY <3>2 DEF Free, Processes
    <3> QED
      BY <1>2, <3>1, <3>3, <3>4
  <2>7. SocketsInv'
    BY <1>0, <2>1, <2>3, <2>6, Fixed, FixedToo DEF CompleteInv, SocketsInv, MainSockets
  <2>8. FailedInv'
    BY <1>0, <1>2, <2>2, Fixed, FixedToo DEF CompleteInv, FailedInv, Excused
  <2> QED
    BY <2>4, <2>5, <2>7, <2>8 DEF CompleteInv
<1> QED
  BY <1>1, <1>2 DEF BindTCP

\* The goroutines of the listeners.  One that finds its port taken finds it taken by
\* another program, by the server itself or by the tool, whose sockets are the server's
\* main ones; one that cannot load the pair finds it as it was at the start.
LEMMA CompleteListeners ==
    ASSUME Inv, CompleteInv, NEW l \in Listeners, LoadPair(l) \/ Listen(l)
    PROVE  CompleteInv'
<1>0. /\ task[l] \in {"load", "bind"} /\ HasListener(l) /\ DOMAIN sockets = Processes
      /\ UNCHANGED <<cfg, foreign, disk, pc, wholeAtStart>>
  BY DEF LoadPair, Listen, world, CompleteInv, ConfigInv, Inv, Typed
<1>1. \A k \in Listeners : k # l => /\ task'[k] = task[k] /\ served'[k] = served[k]
                                    /\ Bound(k)' <=> Bound(k)
                                    /\ Loaded(k)' <=> Loaded(k)
  BY DEF LoadPair, Listen, Inv, Typed, Bound, Loaded
<1>2. pc["server"] \in Running \/ (l = "HTTPS" /\ pc["server"] \in {"udp", "tcp"})
  BY <1>0 DEF Inv, LockInv, InPlace
<1>3. ASSUME task'[l] \in {"load", "bind", "up", "failed"}
      PROVE  ConfigInv'
  <2>1. \A k \in Listeners : task'[k] # "off" => HasListener(k)
    BY <1>0, <1>1 DEF CompleteInv, ConfigInv
  <2>2. task["HTTPS"] # "off" => task'["HTTPS"] # "off"
    BY <1>1, <1>3 DEF Listeners
  <2> QED
    BY <1>0, <2>1, <2>2, FixedToo DEF CompleteInv, ConfigInv
<1>4. CASE LoadPair(l)
  <2>1. /\ task[l] = "load" /\ sockets'["tool"] = sockets["tool"]
        /\ task'[l] = IF ~PairLoads THEN "failed" ELSE IF l = "DoH" THEN "up" ELSE "bind"
        /\ served'[l] = IF PairLoads THEN disk.cert ELSE served[l]
        /\ sockets'["server"] = IF PairLoads \/ l # "DoH" THEN sockets["server"]
                                ELSE sockets["server"] \ {SocketOf(l)}
    BY <1>0, <1>4 DEF LoadPair, Inv, Typed, Processes
  <2>2. Reading
    BY <2>1 DEF Reading, StillReads
  <2>3. wholeAtStart \in BOOLEAN /\ (wholeAtStart <=> PairLoads) /\ (PairLoads' <=> PairLoads)
    BY <1>0, <2>2 DEF CompleteInv, WholeInv, PairLoads
  <2>4. ConfigInv'
    BY <1>3, <2>1
  <2>5. WholeInv'
    <3>1. PairLoads => disk.cert \in Certs
      BY DEF Inv, Typed, Pair, PairLoads
    <3>2. Loaded(l)' => served'[l] \in Certs
      BY <2>1, <3>1 DEF Loaded
    <3> QED
      BY <1>0, <1>1, <2>3, <3>2 DEF CompleteInv, WholeInv
  <2>6. SocketsInv'
    <3>1. CASE PairLoads \/ l # "DoH"
      <4>1. Bound(l)' <=> Bound(l)
        BY <2>1, <3>1 DEF Bound
      <4>2. \A k \in Listeners : Bound(k)' <=> Bound(k)
        BY <1>1, <4>1
      <4> QED
        BY <1>0, <2>1, <3>1, <4>2, Fixed, FixedToo DEF CompleteInv, SocketsInv
    <3>2. CASE ~PairLoads /\ l = "DoH"
      <4>1. Bound(l) /\ ~Bound(l)'
        BY <2>1, <3>2 DEF Bound
      <4>2. sockets'["server"] = sockets["server"] \ {SocketOf(l)}
        BY <2>1, <3>2
      <4>3. \A k \in Listeners : Bound(k)' => Bound(k) /\ SocketOf(k) # SocketOf(l)
        BY <1>1, <4>1 DEF CompleteInv, SocketsInv
      <4>4. pc["server"] = "serving" => SocketOf(l) \notin {UDPSocket, TCPSocket}
        BY <4>1 DEF CompleteInv, SocketsInv
      <4>5. pc["server"] # "tcp"
        BY <1>2, <3>2 DEF Running
      <4>6. sockets'["server"] \subseteq
                MainSockets \cup {SocketOf(k) : k \in {k \in Listeners : Bound(k)'}}
        <5> SUFFICES ASSUME NEW s \in sockets'["server"], s \notin MainSockets
                     PROVE  \E k \in Listeners : Bound(k)' /\ s = SocketOf(k)
          OBVIOUS
        <5>1. PICK k \in Listeners : Bound(k) /\ s = SocketOf(k)
          BY <4>2 DEF CompleteInv, SocketsInv
        <5> QED
          BY <1>1, <4>2, <5>1
      <4> QED
        BY <1>0, <2>1, <4>2, <4>3, <4>4, <4>5, <4>6, Fixed, FixedToo DEF CompleteInv, SocketsInv
    <3> QED
      BY <3>1, <3>2
  <2>7. FailedInv'
    <3>1. task'[l] = "failed" => ~wholeAtStart /\ ~HasListener("HTTPS")
      <4>1. l # "HTTPS"
        BY <2>1 DEF Inv, LockInv, InPlace
      <4>2. HasListener("HTTPS") => wholeAtStart
        BY <1>2, <4>1 DEF CompleteInv, ConfigInv
      <4> QED
        BY <2>1, <2>3, <4>2
    <3> QED
      BY <1>0, <1>1, <3>1, Fixed, FixedToo DEF CompleteInv, FailedInv, Excused
  <2> QED
    BY <2>4, <2>5, <2>6, <2>7 DEF CompleteInv
<1>5. CASE Listen(l) /\ Free(SocketOf(l))
  <2>1. /\ task[l] = "bind" /\ sockets'["tool"] = sockets["tool"] /\ served' = served
        /\ task'[l] = IF l = "DoH" THEN "load" ELSE "up"
        /\ sockets'["server"] = sockets["server"] \cup {SocketOf(l)}
    BY <1>0, <1>5 DEF Listen, Inv, Typed, Processes
  <2>2. ConfigInv'
    BY <1>3, <2>1
  <2>3. /\ Bound(l)' /\ ~Bound(l) /\ (Loaded(l)' <=> Loaded(l)) /\ (StillReads(l)' <=> StillReads(l))
    BY <2>1 DEF Bound, Loaded, StillReads
  <2>4. WholeInv'
    <3>1. Reading' => Reading
      BY <1>0, <1>1, <2>3 DEF Reading, StillReads
    <3> QED
      BY <1>0, <1>1, <2>1, <2>3, <3>1 DEF CompleteInv, WholeInv, PairLoads
  <2>5. SocketsInv'
    <3>1. SocketOf(l) \notin sockets["server"]
      BY <1>5 DEF Free, Processes
    <3>2. pc["server"] = "serving" => SocketOf(l) \notin {UDPSocket, TCPSocket}
      <4>1. PortOf(l) # Zero
        BY <1>0 DEF HasListener
      <4>2. (cfg["UDP"] = Zero => SocketOf(l) # UDPSocket) /\ (cfg["TCP"] = Zero => SocketOf(l) # TCPSocket)
        BY <4>1 DEF SocketOf, UDPSocket, TCPSocket
      <4> QED
        BY <3>1, <4>2 DEF CompleteInv, SocketsInv
    <3>3. \A k, m \in Listeners : Bound(k)' /\ Bound(m)' /\ SocketOf(k) = SocketOf(m) => k = m
      BY <1>1, <2>3, <3>1 DEF CompleteInv, SocketsInv
    <3>4. sockets'["server"] \subseteq
              MainSockets \cup {SocketOf(k) : k \in {k \in Listeners : Bound(k)'}}
      <4> SUFFICES ASSUME NEW s \in sockets'["server"], s \notin MainSockets
                   PROVE  \E k \in Listeners : Bound(k)' /\ s = SocketOf(k)
        OBVIOUS
      <4>1. CASE s = SocketOf(l)
        BY <2>3, <4>1
      <4>2. CASE s # SocketOf(l)
        <5>1. PICK k \in Listeners : Bound(k) /\ s = SocketOf(k)
          BY <2>1, <4>2 DEF CompleteInv, SocketsInv
        <5> QED
          BY <1>1, <4>2, <5>1
      <4> QED
        BY <4>1, <4>2
    <3>5. \A k \in Listeners : Bound(k)' => SocketOf(k) \in sockets'["server"]
      BY <1>1, <2>1, <2>3 DEF CompleteInv, SocketsInv
    <3>6. pc["server"] = "serving" =>
             \A k \in Listeners : Bound(k)' => SocketOf(k) \notin {UDPSocket, TCPSocket}
      BY <1>1, <3>2 DEF CompleteInv, SocketsInv
    <3> QED
      BY <1>0, <2>1, <3>3, <3>4, <3>5, <3>6, Fixed, FixedToo DEF CompleteInv, SocketsInv
  <2>6. FailedInv'
    BY <1>0, <1>1, <2>1, Fixed, FixedToo DEF CompleteInv, FailedInv, Excused
  <2> QED
    BY <2>2, <2>4, <2>5, <2>6 DEF CompleteInv
<1>6. CASE Listen(l) /\ ~Free(SocketOf(l))
  <2>1. task[l] = "bind" /\ UNCHANGED <<sockets, served>> /\ task'[l] = "failed"
    BY <1>6 DEF Listen, Inv, Typed
  <2>2. ConfigInv'
    BY <1>3, <2>1
  <2>3. /\ ~Bound(l)' /\ ~Bound(l) /\ (Loaded(l)' => Loaded(l)) /\ (StillReads(l)' => StillReads(l))
    BY <2>1 DEF Bound, Loaded, StillReads
  <2>4. WholeInv'
    <3>1. Reading' => Reading
      BY <1>0, <1>1, <2>3 DEF Reading, StillReads
    <3> QED
      BY <1>0, <1>1, <2>1, <2>3, <3>1 DEF CompleteInv, WholeInv, PairLoads
  <2>5. SocketsInv'
    <3>1. \A k \in Listeners : Bound(k)' <=> Bound(k)
      BY <1>1, <2>3
    <3> QED
      BY <1>0, <2>1, <3>1, Fixed, FixedToo DEF CompleteInv, SocketsInv
  <2>6. SocketOf(l) \in foreign \/ GivenTwice(l)
    <3>1. SocketOf(l) \in foreign \/ SocketOf(l) \in MainSockets
          \/ \E k \in Listeners : Bound(k) /\ SocketOf(l) = SocketOf(k)
      BY <1>6 DEF Free, Processes, CompleteInv, SocketsInv
    <3>2. ASSUME NEW k \in Listeners, Bound(k), SocketOf(l) = SocketOf(k)
          PROVE  GivenTwice(l)
      <4>1. k # l /\ HasListener(k)
        BY <2>3, <3>2 DEF CompleteInv, ConfigInv, Bound
      <4>2. PortOf(k) = PortOf(l)
        BY <3>2 DEF SocketOf
      <4>3. {k, l} # {"HTTPS", "DoH"}
        <5>1. k = "DoH" /\ l = "HTTPS" => FALSE
          BY <4>1, <4>2 DEF HasListener, PortOf
        <5>2. k = "HTTPS" /\ l = "DoH" => FALSE
          BY <1>0, <4>2 DEF HasListener, PortOf
        <5> QED
          BY <5>1, <5>2
      <4> QED
        BY <3>2, <4>1, <4>3 DEF GivenTwice
    <3> QED
      BY <3>1, <3>2 DEF GivenTwice, MainSockets
  <2>7. FailedInv'
    BY <1>0, <1>1, <2>6, Fixed, FixedToo DEF CompleteInv, FailedInv, Excused
  <2> QED
    BY <2>2, <2>4, <2>5, <2>7 DEF CompleteInv
<1> QED
  BY <1>4, <1>5, <1>6

LEMMA StepComplete == Inv /\ CompleteInv /\ [Next]_vars => CompleteInv'
<1> SUFFICES ASSUME Inv, CompleteInv, [Next]_vars
             PROVE  CompleteInv'
  OBVIOUS
<1>1. CASE UNCHANGED vars
  <2>1. sockets["tool"] \subseteq MainSockets
    BY DEF CompleteInv, SocketsInv
  <2> QED
    BY <1>1, <2>1, CompleteKept DEF vars, running, world
<1>2. CASE ServerSteps
  BY <1>2, CompleteStart, CompleteBindTCP, CompleteListeners, CompleteOrders, CompleteOthers
     DEF ServerSteps, Processes
<1>3. CASE ToolSteps
  BY <1>3, CompleteOrders, CompleteOthers DEF ToolSteps, Processes
<1> QED
  BY <1>1, <1>2, <1>3, CompleteStart, CompleteOthers DEF Next

\* Start's listeners are all there: for every configuration that validates, whatever
\* fails and whatever obtain-cert does beside, a TLS listener is missing only for one
\* of the reasons ServingIsComplete names.
THEOREM MissingForAReason == Spec => []ServingIsComplete
<1>1. ASSUME Inv, CompleteInv PROVE ServingIsComplete
  <2> SUFFICES ASSUME pc["server"] \in Running, NEW l \in Listeners
               PROVE  /\ task[l] = "up" => served[l] \in Certs /\ SocketOf(l) \in sockets["server"]
                      /\ task[l] = "failed" => Excused(l)
                      /\ PortOf(l) # Zero /\ ~HasListener(l) => l = "DoH" /\ task["HTTPS"] # "off"
    BY DEF ServingIsComplete, Serving, Running, Excused
  <2>1. task[l] = "up" => served[l] \in Certs /\ SocketOf(l) \in sockets["server"]
    BY <1>1 DEF CompleteInv, WholeInv, SocketsInv, Loaded, Bound
  <2>2. task[l] = "failed" => Excused(l)
    BY <1>1 DEF CompleteInv, FailedInv
  <2>3. ASSUME PortOf(l) # Zero, ~HasListener(l)
        PROVE  l = "DoH" /\ task["HTTPS"] # "off"
    <3>1. Validate(cfg)
      BY <1>1 DEF CompleteInv, ConfigInv, Running
    <3>2. HasPair(cfg)
      BY <2>3, <3>1 DEF Validate, PortOf, TLSPorts, Listeners
    <3>3. l = "DoH" /\ cfg["DoH"] = cfg["HTTPTLSPort"]
      BY <2>3, <3>2 DEF HasListener
    <3>4. HasListener("HTTPS")
      BY <2>3, <3>2, <3>3 DEF HasListener, PortOf
    <3> QED
      BY <1>1, <3>3, <3>4 DEF CompleteInv, ConfigInv
  <2> QED
    BY <2>1, <2>2, <2>3
<1> QED
  BY <1>1, Invariant, InitComplete, StepComplete, StepInv, InitInv, PTL DEF Spec
=============================================================================
