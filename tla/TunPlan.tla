------------------------------- MODULE TunPlan -------------------------------
(***************************************************************************)
(* What the routes of a TUN session are: the App's request (build_tun_     *)
(* request), the plan the helper compiles it into (build_plan) and where   *)
(* every address goes while the plan is installed route by route.  The     *)
(* kernel looks up the longest prefix.  TunSession takes a plan as a       *)
(* constant and asks what failures and kills leave of it.                  *)
(***************************************************************************)
EXTENDS Naturals, Sequences, SequencesExt, Lists

CONSTANTS
    V4, V6,       \* addresses the machine sends to, by family
    High,         \* those in the upper half of their family
    Loopback,     \* 127.0.0.0/8 and ::1
    LinkLocal,    \* fe80::/10
    PrivateNets,  \* default_bypass_networks, as the addresses of each
    ServerLists,  \* what the name of a node may resolve to
    Uplink,       \* networks: [gateway, lan], gateway NoGateway on a link to one peer
    NoGateway

ASSUME FamiliesAssumption ==
    /\ V4 \cap V6 = {} /\ NoGateway \notin V4 \cup V6
    /\ Loopback \cup LinkLocal \cup High \subseteq V4 \cup V6
    /\ \A l \in ServerLists : l \in Seq(V4 \cup V6) /\ l # <<>>
    /\ \A u \in Uplink : u.gateway \in V4 \cup {NoGateway} /\ u.lan \subseteq V4

(* Loopback is apart from every other network, and default_bypass_networks *)
(* lists no network twice.                                                 *)
ASSUME NetworksAssumption ==
    /\ Loopback \cap LinkLocal = {} /\ \A u \in Uplink : u.lan \cap Loopback = {}
    /\ PrivateNets \in Seq(SUBSET (V4 \cup V6))
    /\ \A i \in DOMAIN PrivateNets :
         /\ PrivateNets[i] \cap Loopback = {} \/ PrivateNets[i] \subseteq Loopback
         /\ \A j \in DOMAIN PrivateNets : PrivateNets[i] = PrivateNets[j] => i = j

Address == V4 \cup V6

Ipv6Mode == {"passthrough", "override", "disabled"}

VARIABLES
    seen,     \* the network the App found when it made the request
    uplink,   \* the network the helper finds, a moment later
    request,  \* the request: [hosts, nets, ipv6]
    todo,     \* the routes still to install, in order
    table,    \* the kernel's rows: [to, via]
    missed,   \* destinations whose route failed and was skipped
    phase     \* "asking", "installing", "up" or "refused"

planVars == <<seen, uplink, request, todo, table, missed, phase>>

------------------------------------------------------------------------------
(* A destination is the addresses it covers with its length; the lengths   *)
(* of both families are on one scale, and a scoped one is seen only by     *)
(* sockets bound to the interface.                                         *)
Cidr(addresses, len) == [net |-> addresses, len |-> len, scoped |-> FALSE]

HostCidr(a) == Cidr({a}, 32)

ScopedDefault == [net |-> V4, len |-> 0, scoped |-> TRUE]

RowTo(to, via) == [to |-> to, via |-> via]

Out(u) == IF u.gateway = NoGateway THEN "onlink" ELSE "gateway"

(* The table before the session: loopback, the local network, the default. *)
KernelTable(u) ==
    {RowTo(Cidr(V4, 0), Out(u)), RowTo(Cidr(V6, 0), "gateway"),
     RowTo(Cidr(u.lan, 24), "onlink"), RowTo(Cidr(LinkLocal, 24), "onlink"),
     RowTo(Cidr(Loopback \cap V4, 8), "loopback"),
     RowTo(Cidr(Loopback \cap V6, 32), "loopback")}

Covering(a) == {r \in table : a \in r.to.net /\ ~r.to.scoped}

Lookup(a) ==
    (CHOOSE r \in Covering(a) : \A q \in Covering(a) : q.to.len <= r.to.len).via

------------------------------------------------------------------------------
(* build_tun_request: the servers of the node, then the gateway; a set     *)
(* with neither is refused, since its captures would loop.                 *)
Hosts(servers, gateway) ==
    IF gateway = NoGateway \/ gateway \in Range(servers) THEN servers
    ELSE Append(servers, gateway)

Request(servers, gateway, private, ipv6) ==
    [hosts |-> Hosts(servers, gateway),
     nets |-> IF private THEN PrivateNets ELSE <<>>,
     ipv6 |-> ipv6]

(* bypass_via: the gateway if it is of the family, otherwise the interface. *)
BypassVia(a, u) ==
    IF u.gateway # NoGateway /\ (a \in V4 <=> u.gateway \in V4)
    THEN "gateway" ELSE "onlink"

NetVia(net, u) ==
    IF net \subseteq V4 /\ u.gateway # NoGateway THEN "gateway" ELSE "onlink"

Planned(to, via, critical) == [to |-> to, via |-> via, critical |-> critical]

Halves(family) ==
    << Planned(Cidr(family \ High, 1), "tunnel", TRUE),
       Planned(Cidr(family \cap High, 1), "tunnel", TRUE) >>

HostRoutes(req, u) ==
    LET hosts == KeptAt(req.hosts, {i \in DOMAIN req.hosts : req.hosts[i] \notin Loopback})
    IN  [i \in DOMAIN hosts |-> Planned(HostCidr(hosts[i]), BypassVia(hosts[i], u), TRUE)]

NetRoutes(req, u) ==
    LET nets == KeptAt(req.nets, {i \in DOMAIN req.nets : req.nets[i] \cap Loopback = {}})
    IN  [i \in DOMAIN nets |-> Planned(Cidr(nets[i], 8), NetVia(nets[i], u), FALSE)]

ScopedRoute(u) ==
    IF u.gateway \in V4 THEN <<Planned(ScopedDefault, "gateway", FALSE)>> ELSE <<>>

Captures(req) ==
    Halves(V4) \o (IF req.ipv6 = "override" THEN Halves(V6) ELSE <<>>)

(* Mutant: the default route is taken over before the bypasses are in.      *)
BuildPlanCaptureFirst(req, u) ==
    Captures(req) \o HostRoutes(req, u) \o NetRoutes(req, u) \o ScopedRoute(u)

BuildPlan(req, u) ==
    HostRoutes(req, u) \o NetRoutes(req, u) \o ScopedRoute(u) \o Captures(req)

------------------------------------------------------------------------------
PlanInit ==
    /\ seen \in Uplink /\ uplink \in Uplink
    /\ request = Request(<<>>, NoGateway, FALSE, "passthrough")
    /\ todo = <<>> /\ missed = {} /\ phase = "asking"
    /\ table = KernelTable(uplink)

(* The App resolves the node and asks; the helper probes the network for   *)
(* itself and compiles.                                                    *)
AskForTun ==
    /\ phase = "asking" /\ phase' = "installing"
    /\ \E servers \in ServerLists, private \in BOOLEAN, ipv6 \in Ipv6Mode :
         request' = Request(servers, seen.gateway, private, ipv6)
    /\ todo' = BuildPlan(request', uplink)
    /\ UNCHANGED <<seen, uplink, table, missed>>

(* `route add` replaces the row of the same prefix.                        *)
AddRoute ==
    /\ phase = "installing" /\ todo # <<>>
    /\ LET r == Head(todo)
       IN  table' = {q \in table : q.to # r.to} \cup {RowTo(r.to, r.via)}
    /\ todo' = Tail(todo)
    /\ UNCHANGED <<seen, uplink, request, missed, phase>>

SkipRoute ==
    /\ phase = "installing" /\ todo # <<>> /\ ~Head(todo).critical
    /\ missed' = missed \cup {Head(todo).to}
    /\ todo' = Tail(todo)
    /\ UNCHANGED <<seen, uplink, request, table, phase>>

(* What is installed is rolled back by TunSession.                         *)
CriticalFails ==
    /\ phase = "installing" /\ todo # <<>> /\ Head(todo).critical
    /\ phase' = "refused"
    /\ UNCHANGED <<seen, uplink, request, todo, table, missed>>

AllInstalled ==
    /\ phase = "installing" /\ todo = <<>>
    /\ phase' = "up"
    /\ UNCHANGED <<seen, uplink, request, todo, table, missed>>

PlanNext == AskForTun \/ AddRoute \/ SkipRoute \/ CriticalFails \/ AllInstalled

PlanSpec == PlanInit /\ [][PlanNext]_planVars

------------------------------------------------------------------------------
PlanTypeOK ==
    /\ seen \in Uplink /\ uplink \in Uplink
    /\ Range(request.hosts) \subseteq Address /\ request.ipv6 \in Ipv6Mode
    /\ \A r \in table : r.to.net \subseteq Address /\ r.via \in
          {"gateway", "onlink", "loopback", "tunnel"}
    /\ phase \in {"asking", "installing", "up", "refused"}

(* What the user asked to keep out of the tunnel, the networks whose route *)
(* could not be installed excepted.                                        *)
KeptOut ==
    Range(request.hosts) \cup uplink.lan \cup Loopback \cup LinkLocal
    \cup UNION {n \in Range(request.nets) : Cidr(n, 8) \notin missed}

Wanted == (V4 \cup (IF request.ipv6 = "override" THEN V6 ELSE {})) \ KeptOut

InTunnel == {a \in Address : Lookup(a) = "tunnel"}

(* From the request on, at no moment does an address enter the tunnel that *)
(* was to stay out of it - the servers of the node and the gateway, this   *)
(* network's too when the machine has moved since the App looked -, nor    *)
(* does loopback leave lo0, nor is IPv4 taken over while a socket bound to *)
(* the interface has no default of its own there; and a session that is up *)
(* has in the tunnel all that was to enter it.  build_plan's order, its    *)
(* critical marks and the prefix lengths decide this together.             *)
EachGoesItsWay ==
    phase # "asking" =>
      /\ InTunnel \subseteq Wanted
      /\ phase = "up" => InTunnel = Wanted
      /\ \A a \in Loopback : Lookup(a) = "loopback"
      /\ InTunnel \cap V4 # {} /\ uplink.gateway # NoGateway =>
            ScopedDefault \in missed \cup {r.to : r \in table}
===============================================================================
