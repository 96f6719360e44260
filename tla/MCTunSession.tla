---------------------------- MODULE MCTunSession ----------------------------
(***************************************************************************)
(* A machine for TLC: one physical network (plus one to switch to), one    *)
(* service with the user's own resolver, another VPN on 0/1, and the plan  *)
(* the desktop app asks for: a critical host route to the proxy server,    *)
(* the scoped default route, and the two audited captures.                 *)
(***************************************************************************)
EXTENDS TunSession

CONSTANTS home, cafe, karing, wifi, user, server, low, high, ca, tun1, tun2

MCTable ==
    [d \in Dest |-> IF d = Default THEN home
                    ELSE IF d = low THEN karing ELSE NoRoute]
MCDns == [s \in Service |-> {user}]

MCBypass  == << [dest |-> server, critical |-> TRUE],
                [dest |-> Scoped, critical |-> FALSE] >>
MCCapture == << [dest |-> low, critical |-> TRUE],
                [dest |-> high, critical |-> TRUE] >>
MCServices == <<wifi>>

MCMax(crash, fault, silent, net, up, anchor) ==
    [crash |-> crash, fault |-> fault, silent |-> silent,
     net |-> net, up |-> up, anchor |-> anchor]
MaxSafety == MCMax(1, 1, 1, 0, 2, 1)
MaxLive   == MCMax(2, 0, 0, 1, 2, 0)
MaxRetain == MCMax(0, 1, 0, 0, 2, 0)
MaxKill   == MCMax(1, 0, 0, 0, 1, 0)
=============================================================================
