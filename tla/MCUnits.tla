------------------------------- MODULE MCUnits -------------------------------
(***************************************************************************)
(* The parts of the App that neither send requests to the helper nor wait  *)
(* for one another, checked in one run: a behaviour chooses a part at the  *)
(* start and runs it alone, with the other parts idle in their initial     *)
(* states.                                                                 *)
(***************************************************************************)
EXTENDS IntentEngine, RuleTable, AuditSync, MitmSwitch, NodeBook, TunPlan

CONSTANTS
    www, api, news,      \* hosts: two of one site, one of another
    site,
    ads, shop,           \* names in the rules
    m1, m2,              \* models
    n1, n2,              \* nodes
    web4, srv4, far4,    \* public IPv4 addresses, far4 in the upper half
    gw4, away4, lan4,    \* gateways of two networks, a host on the first
    lo4, lo6,            \* loopback
    web6, srv6, ll6      \* IPv6: public, a server, link-local

VARIABLE part   \* the machine that runs

allVars == <<part, engineVars, tableVars, auditVars, mitmVars, bookVars,
             planVars>>

Sym == Permutations({www, api}) \cup Permutations({m1, m2})

MCSite  == [h \in Host |-> IF h = news THEN news ELSE site]
MCTtl   == [a \in Answers |-> IF a \in Decided THEN 2 ELSE 1]
MCSpan  == [w \in Window |-> IF w = "minute" THEN 1 ELSE 3]
MCLimit == [w \in Window |-> IF w = "minute" THEN 1 ELSE 2]

MCCategory == [h \in Name |-> IF h = ads THEN {"ads", "cn"} ELSE {"cn", "google"}]

NoCorrection == [h \in {} |-> "direct"]

Mine(tag, when, to) == [tag |-> tag, on |-> TRUE, when |-> when, to |-> to]

MCCustom ==
    { <<>>,
      << Mine(<<"preset-private">>, [Always EXCEPT !.host = {shop}], "block"),
         Mine(<<"internal-api", 2>>, [Always EXCEPT !.host = {ads}, !.net = {"udp"}], "block"),
         Mine(<<"internal-api">>, [Always EXCEPT !.host = {ads}], "direct") >> }

MCProfile ==
    [preset : {"bypass", "whitelist", "direct", "global"}, custom : MCCustom,
     mitm : {"off", "quic"}, selected : {n1}, allow : {NoCorrection}]

PushProfile == {s \in MCProfile : s.preset = "bypass" /\ s.custom = <<>> /\ s.mitm = "off"}

MCConnection ==
    [entry : {"tun", "api", "mitm-upstream"}, host : {ads, shop, NoName},
     ip : {"none"}, net : {"tcp"}, dns : {FALSE}]
    \cup [entry : {"tun"}, host : {NoName}, ip : {"private", "cn"}, net : {"tcp"}, dns : {FALSE}]
    \cup [entry : {"tun"}, host : {ads}, ip : {"none"}, net : {"udp"}, dns : BOOLEAN]

MCUplink ==
    { [gateway |-> gw4, lan |-> {gw4, lan4}], [gateway |-> away4, lan |-> {away4}],
      [gateway |-> NoGateway, lan |-> {}] }

MCServerLists == { <<srv4>>, <<srv4, srv6>>, <<srv6>>, <<lan4>>, <<lo4>> }

MCPrivateNets == << {gw4, lan4}, {away4}, {ll6} >>

Here == [gateway |-> gw4, lan |-> {gw4, lan4}]

(* Of a machine that is not run, and that TLC would copy with every state, *)
(* the plan has no routes.                                                 *)
IdlePlan ==
    /\ seen = Here /\ uplink = Here /\ phase = "asking" /\ todo = <<>> /\ missed = {}
    /\ request = Request(<<>>, NoGateway, FALSE, "passthrough") /\ table = {}

IdleEngine == EngineInit /\ engine = FALSE

IdleTable ==
    /\ TableInit /\ intent.mode = "off"
    /\ settings = [preset |-> "bypass", custom |-> <<>>, mitm |-> "off",
                   selected |-> n1, allow |-> NoCorrection]

IdleAudit == AuditInit /\ ~token

IdleMitm == MitmInit /\ ~mitmOn

Init ==
    \/ part = "engine" /\ EngineInit /\ IdleTable /\ IdleAudit /\ IdleMitm /\ BookInit /\ IdlePlan
    \/ part = "table" /\ TableInit /\ IdleEngine /\ IdleAudit /\ IdleMitm /\ BookInit /\ IdlePlan
    \/ part = "audit" /\ AuditInit /\ IdleEngine /\ IdleTable /\ IdleMitm /\ BookInit /\ IdlePlan
    \/ part = "mitm" /\ MitmInit /\ IdleEngine /\ IdleTable /\ IdleAudit /\ BookInit /\ IdlePlan
    \/ part = "book" /\ BookInit /\ IdleEngine /\ IdleTable /\ IdleAudit /\ IdleMitm /\ IdlePlan
    \/ part = "plan" /\ PlanInit /\ IdleEngine /\ IdleTable /\ IdleAudit /\ IdleMitm /\ BookInit

Next ==
    \/ /\ part = "engine" /\ EngineNext
       /\ UNCHANGED <<part, tableVars, auditVars, mitmVars, bookVars, planVars>>
    \/ /\ part = "table" /\ TableNext
       /\ UNCHANGED <<part, engineVars, auditVars, mitmVars, bookVars, planVars>>
    \/ /\ part = "audit" /\ AuditNext
       /\ UNCHANGED <<part, engineVars, tableVars, mitmVars, bookVars, planVars>>
    \/ /\ part = "mitm" /\ MitmNext
       /\ UNCHANGED <<part, engineVars, tableVars, auditVars, bookVars, planVars>>
    \/ /\ part = "book" /\ BookNext
       /\ UNCHANGED <<part, engineVars, tableVars, auditVars, mitmVars, planVars>>
    \/ /\ part = "plan" /\ PlanNext
       /\ UNCHANGED <<part, engineVars, tableVars, auditVars, mitmVars, bookVars>>

Spec == Init /\ [][Next]_allVars

(* The variables of every machine stay in their ranges.                    *)
TypeOK == EngineTypeOK /\ TableTypeOK /\ AuditTypeOK /\ MitmTypeOK /\ BookTypeOK
          /\ PlanTypeOK
===============================================================================
