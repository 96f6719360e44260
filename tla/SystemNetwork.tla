---------------------------- MODULE SystemNetwork ----------------------------
(***************************************************************************)
(* The part of macOS that xraytun-helper edits: the kernel route table,    *)
(* the resolvers of each network service, the system keychain and the      *)
(* lifetime of utun interfaces.  The code reaches all of it through        *)
(* `route`, `networksetup` and `security`; this module is what crates/     *)
(* xt-tun assumes of them.                                                 *)
(***************************************************************************)
EXTENDS Naturals, Sequences

CONSTANTS
    Dest,       \* route keys: a prefix, or a prefix scoped to an interface
    Default,    \* 0.0.0.0/0
    Scoped,     \* 0.0.0.0/0 scoped (-ifscope) to the physical interface
    Capture,    \* the /1 prefixes that take over the default route
    Audited,    \* the captures a rollback re-checks: 0/1 and 128/1, IPv4 only
    Gateway,    \* gateways of the physical networks the machine may join
    Link,       \* gateway-less interface routes (lo0, another VPN's utun)
    Tun,        \* utun units this helper may be given
    NoRoute,    \* the key has no row in the table
    Service,    \* network services (Wi-Fi, Ethernet)
    Resolver,   \* resolver addresses a user may have configured
    Sentinel,   \* the tunnel's own resolver address, 198.18.0.2
    Anchor,     \* fingerprints of root certificates
    DeleteByPrefix  \* `route delete` removes the row of the prefix whatever it
                    \* goes through, or only a row that goes through `via`

ASSUME KeysAssumption ==
    /\ {Default, Scoped} \cup Capture \subseteq Dest
    /\ Default # Scoped
    /\ {Default, Scoped} \cap Capture = {}
    /\ Audited \subseteq Capture

ASSUME ViasAssumption ==
    /\ NoRoute \notin Gateway \cup Link \cup Tun
    /\ Tun \cap (Gateway \cup Link) = {}
    /\ Gateway \cap Link = {}

ASSUME DeleteAssumption == DeleteByPrefix \in BOOLEAN

ASSUME SentinelAssumption == Sentinel \notin Resolver

Via == {NoRoute} \cup Gateway \cup Link \cup Tun

Holder == {"helper", "app"}

(***************************************************************************)
(* netstat shows a scoped default under the same prefix as the unscoped    *)
(* one, and existing_route takes the first row of the prefix.              *)
(***************************************************************************)
PrefixRow(d) == IF d = Scoped THEN Default ELSE d

Live(hold, via) == via \in Tun => hold[via] # {}

(* A utun whose last descriptor is closed disappears with its routes.      *)
Sweep(tab, hold) ==
    [d \in Dest |-> IF Live(hold, tab[d]) THEN tab[d] ELSE NoRoute]

Delete(tab, d, via) ==
    IF DeleteByPrefix \/ tab[d] = via THEN [tab EXCEPT ![d] = NoRoute] ELSE tab

Close(hold, who, units) ==
    [t \in Tun |-> IF t \in units THEN hold[t] \ {who} ELSE hold[t]]

(* Mutant: the value read is taken as the user's, sentinel included.        *)
EffectiveRaw(servers) == servers

(* DnsBackup::effective_servers: the sentinel is never the user's resolver. *)
Effective(servers) == servers \ {Sentinel}

==============================================================================
