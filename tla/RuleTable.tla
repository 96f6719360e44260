------------------------------ MODULE RuleTable ------------------------------
(***************************************************************************)
(* The routing rules of the core: how presets, the user's rules, the       *)
(* user's corrections, the verdicts of the intent filter and the MITM band *)
(* are merged into one table, and the ways a table reaches the core: in    *)
(* its configuration when it starts, or pushed to it while it runs.        *)
(*                                                                         *)
(* A condition is a record of sets, one per field of MatchCondition; a     *)
(* field that is not restricted holds every value, NoName and "none"       *)
(* included, and one that is restricted never does: a connection without   *)
(* a domain matches no rule that names domains.  Source addresses,         *)
(* processes and protocols are left out.                                   *)
(***************************************************************************)
EXTENDS Naturals, Sequences, FiniteSets, SequencesExt, Lists

CONSTANTS
    Name, NoName,
    Category,     \* the geosite lists of each host
    Optin,        \* mitm.domains
    Node,         \* the nodes of the store ...
    FirstNode,    \* ... and the one whose outbound comes first
    Profile,      \* settings the app may start with
    Connection,   \* connections asked about
    MaxEdits      \* bound: verdicts, corrections and settings changed

Entry == {"tun", "socks", "http", "api", "mitm-upstream"}
Ip    == {"none", "private", "cn", "other"}
Net   == {"tcp", "udp"}
Apps  == {"tun", "socks", "http"}   \* inbound_tags of the intent and MITM rules

ASSUME NameAssumption ==
    /\ NoName \notin Name /\ Optin \subseteq Name /\ DOMAIN Category = Name
    /\ FirstNode \in Node /\ MaxEdits \in Nat

(* A node's outbound is called after its id, which nothing else is.        *)
ASSUME NodeAssumption ==
    Node \cap {"selected", "direct", "block", "block-silent", "api", "dns-out", "mitm-out"} = {}

ASSUME ConnectionAssumption ==
    Connection \subseteq [entry : Entry, host : Name \cup {NoName}, ip : Ip, net : Net, dns : BOOLEAN]

When == [entry : SUBSET Entry, host : SUBSET (Name \cup {NoName}), ip : SUBSET Ip,
         net : SUBSET Net, dns : SUBSET BOOLEAN]

(* A rule of the user's: any tag, any condition, and every outbound but    *)
(* the app's own.                                                          *)
Written(r) ==
    /\ r \in [tag : {r.tag}, on : BOOLEAN, when : When, to : {"selected", "direct", "block"} \cup Node]
    /\ IsSeq(r.tag)

ASSUME ProfileAssumption ==
    \A s \in Profile :
      /\ s \in [preset : {"bypass", "whitelist", "direct", "global"}, custom : {s.custom},
               mitm : {"off", "on", "quic"}, selected : Node, allow : {s.allow}]
      /\ IsSeq(s.custom) /\ \A i \in DOMAIN s.custom : Written(s.custom[i])
      /\ DOMAIN s.allow \subseteq Name /\ IsFiniteSet(DOMAIN s.allow)
      /\ s.allow \in [DOMAIN s.allow -> {"direct", "selected"}]

VARIABLES
    settings,   \* AppSettings: preset, custom, mitm, selected, allow
    intent,     \* IntentEngine: mode, and the hosts with a verdict to block
    applied,    \* applied_hash
    core,       \* what the running core was given
    start,      \* a start under way
    push,       \* an intent_apply under way
    edits,      \* bound
    overtaken   \* history: what was marked as applied is not what was sent

tableVars == <<settings, intent, applied, core, start, push, edits, overtaken>>

------------------------------------------------------------------------------
(* Rules *)

Always == [entry |-> Entry, host |-> Name \cup {NoName}, ip |-> Ip, net |-> Net, dns |-> BOOLEAN]

(* A tag is a name and the suffixes uniquify_tags has added to it.         *)
Rule(name, when, to) == [tag |-> <<name>>, on |-> TRUE, when |-> when, to |-> to]

Named(list) == [Always EXCEPT !.host = {h \in Name : list \in Category[h]}]
At(address) == [Always EXCEPT !.ip = {address}]
Full(h)     == [Always EXCEPT !.host = {h}, !.entry = Apps]

Preset(p) ==
    CASE p = "bypass" ->
           << Rule("preset-private", [Named("private") EXCEPT !.ip = {"private"}], "direct"),
              Rule("preset-ads", Named("ads"), "block"),
              Rule("preset-proxy-google", Named("google"), "selected"),
              Rule("preset-cn-domain", Named("cn"), "direct"),
              Rule("preset-cn-ip", At("cn"), "direct") >>
      [] p = "whitelist" ->
           << Rule("preset-private", At("private"), "direct"),
              Rule("preset-proxy-list", Named("foreign"), "selected"),
              Rule("preset-fallback-direct", Always, "direct") >>
      [] p = "direct" -> << Rule("preset-direct-all", Always, "direct") >>
      [] OTHER -> << >>

(* uniquify_tags: a tag met before gets the first free suffix.             *)
FreeTag(tag, used) ==
    LET n == CHOOSE k \in 2 .. Cardinality(used) + 2 :
               /\ Append(tag, k) \notin used
               /\ \A j \in 2 .. k - 1 : Append(tag, j) \in used
    IN  Append(tag, n)

Retagged(done, r) ==
    LET used == {done[i].tag : i \in DOMAIN done}
    IN  Append(done, IF r.tag \in used THEN [r EXCEPT !.tag = FreeTag(@, used)] ELSE r)

Uniquify(rules) ==
    LET done[n \in 0 .. Len(rules)] ==
          IF n = 0 THEN <<>> ELSE Retagged(done[n - 1], rules[n])
    IN  done[Len(rules)]

(* materialize: a corrected host has no rule to block it.                  *)
AllowBand(allow) ==
    LET hosts == SetToSeq(DOMAIN allow)
    IN  [i \in DOMAIN hosts |-> [Rule("intent-allow", Full(hosts[i]), allow[hosts[i]])
                                   EXCEPT !.tag = Append(@, hosts[i])]]

BlockBand(block) ==
    LET hosts == SetToSeq(block)
    IN  [i \in DOMAIN hosts |-> [Rule("intent-block", Full(hosts[i]), "block")
                                   EXCEPT !.tag = Append(@, hosts[i])]]

SteerBandAll(mitm) ==
    IF mitm = "off" THEN <<>>
    ELSE <<Rule("mitm-steer", [Always EXCEPT !.host = Optin], "mitm-out")>>

SteerBand(mitm) ==
    LET steered == [Always EXCEPT !.host = Optin, !.entry = Apps]
        quic    == [steered EXCEPT !.entry = {"tun"}, !.net = {"udp"}]
    IN  IF mitm = "off" THEN <<>>
        ELSE <<Rule("mitm-steer", steered, "mitm-out")>>
             \o (IF mitm = "quic" THEN <<Rule("mitm-quic-fallback", quic, "block")>> ELSE <<>>)

MergeUserFirst(s, allow, block) ==
    LET presets == Preset(s.preset)
        split   == IF presets # <<>> /\ presets[1].tag = <<"preset-private">> THEN 1 ELSE 0
    IN  Uniquify(SubSeq(presets, 1, split) \o s.custom \o AllowBand(allow) \o BlockBand(block)
                 \o SteerBand(s.mitm) \o SubSeq(presets, split + 1, Len(presets)))

MergeGuessFirst(s, allow, block) ==
    LET presets == Preset(s.preset)
        split   == IF presets # <<>> /\ presets[1].tag = <<"preset-private">> THEN 1 ELSE 0
    IN  Uniquify(SubSeq(presets, 1, split) \o AllowBand(allow) \o BlockBand(block) \o s.custom
                 \o SteerBand(s.mitm) \o SubSeq(presets, split + 1, Len(presets)))

(* merge_rules_with_intent                                                 *)
Merge(s, allow, block) ==
    LET presets == Preset(s.preset)
        split   == IF presets # <<>> /\ presets[1].tag = <<"preset-private">> THEN 1 ELSE 0
    IN  Uniquify(SubSeq(presets, 1, split) \o AllowBand(allow) \o s.custom \o BlockBand(block)
                 \o SteerBand(s.mitm) \o SubSeq(presets, split + 1, Len(presets)))

Outbound(to, node) == IF to = "selected" THEN node ELSE to

Enabled(rules) == KeptAt(rules, {i \in DOMAIN rules : rules[i].on})

(* routing::compile: a rule for UDP alone blocks without an answer.        *)
Compile(rules, node) ==
    LET on == Enabled(rules)
    IN  [i \in DOMAIN on |->
           [on[i] EXCEPT !.to = IF @ = "block" /\ on[i].when.net = {"udp"}
                                THEN "block-silent" ELSE Outbound(@, node)]]

Internal(node) ==
    [hijack   |-> Rule("internal-dns-hijack", [Always EXCEPT !.dns = {TRUE}], "dns-out"),
     api      |-> Rule("internal-api", [Always EXCEPT !.entry = {"api"}], "api"),
     fallback |-> Rule("internal-fallback", Always, node)]

BuildRoutingRaw(rules, node) ==
    <<Internal(node).hijack, Internal(node).api>>
    \o Compile(rules, node) \o <<Internal(node).fallback>>

(* build_routing                                                           *)
BuildRouting(rules, node) ==
    Uniquify(<<Internal(node).hijack, Internal(node).api>>
             \o Compile(rules, node) \o <<Internal(node).fallback>>)

(* to_api_rules                                                            *)
ToApiRules(rules, node) ==
    LET on == Enabled(rules)
    IN  [i \in DOMAIN on |-> [on[i] EXCEPT !.to = Outbound(@, node)]]

(* The core takes the first rule that matches, else its first outbound.    *)
Matches(w, c) ==
    c.entry \in w.entry /\ c.host \in w.host /\ c.ip \in w.ip /\ c.net \in w.net /\ c.dns \in w.dns

Least(hits) == CHOOSE i \in hits : \A j \in hits : i <= j

Route(table, c) ==
    LET hits == {i \in DOMAIN table : Matches(table[i].when, c)}
    IN  IF hits = {} THEN FirstNode ELSE table[Least(hits)].to

------------------------------------------------------------------------------
(* What the core is given *)

(* IntentRuntime::rules: nothing without an engine, and no verdict in a    *)
(* drill.                                                                  *)
AllowNow == IF intent.mode = "off" THEN [h \in {} |-> "direct"] ELSE settings.allow
BlockNow == IF intent.mode = "on" THEN intent.block \ DOMAIN settings.allow ELSE {}

Hash(allow, block) == [allow |-> DOMAIN allow, block |-> block]

(* rules_hash: nothing without an engine.                                  *)
HashNow == IF intent.mode = "off" THEN {} ELSE {Hash(AllowNow, BlockNow)}

NeedsApply == HashNow # {} /\ applied # HashNow

MarkApplied(sent) ==
    /\ applied' = HashNow
    /\ overtaken' = (HashNow # {} /\ HashNow # {Hash(sent.allow, sent.block)})

(* core_settings: MITM only with a root that is trusted.                   *)
Effective(s, trusted) == IF trusted THEN s ELSE [s EXCEPT !.mitm = "off"]

Table(c) ==
    LET rules == Merge(c.settings, c.allow, c.block)
    IN  IF c.pushed THEN ToApiRules(rules, c.node) ELSE BuildRouting(rules, c.node)

NoVerdicts == [mode |-> "off", block |-> {}]

TableInit ==
    /\ settings \in Profile
    /\ intent \in [mode : {"off", "drill", "on"}, block : {{}}]
    /\ applied = {} /\ core = {} /\ start = {} /\ push = {} /\ edits = 0 /\ overtaken = FALSE

------------------------------------------------------------------------------
(* What the user and the filter change *)

Edit == edits < MaxEdits /\ edits' = edits + 1 /\ UNCHANGED <<applied, core, start, push, overtaken>>

(* A verdict to block h comes, or ends.                                    *)
Judge(h) ==
    /\ Edit /\ intent.mode # "off" /\ UNCHANGED settings
    /\ intent' = [intent EXCEPT !.block = IF h \in @ THEN @ \ {h} ELSE @ \cup {h}]

(* intent_allow: the settings are changed even where no engine listens.    *)
Corrected(h, way) ==
    [g \in DOMAIN settings.allow \cup {h} |-> IF g = h THEN way ELSE settings.allow[g]]

Correct(h, way) ==
    /\ Edit
    /\ settings' = [settings EXCEPT !.allow = Corrected(h, way)]
    /\ intent' = [intent EXCEPT !.block = @ \ {h}]

(* save_settings: the engine follows, the core does not.                   *)
SaveSettings ==
    /\ Edit
    /\ \E n \in Node, m \in {"off", "on"}, mode \in {"off", "drill", "on"} :
         /\ settings' = [settings EXCEPT !.selected = n, !.mitm = m]
         /\ intent' = [mode |-> mode, block |-> IF mode = "off" THEN {} ELSE intent.block]

(* The core starts *)

StartCore ==
    /\ core = {} /\ start = {}
    /\ start' = {[settings |-> settings, handed |-> {}]}
    /\ UNCHANGED <<settings, intent, applied, core, push, edits, overtaken>>

(* set_intent_rules, then the gate of MITM.                                *)
HandRules ==
    /\ \E j \in start, trusted \in BOOLEAN :
         /\ j.handed = {}
         /\ start' = {[settings |-> Effective(j.settings, trusted),
                       handed |-> {[allow |-> AllowNow, block |-> BlockNow]}]}
    /\ UNCHANGED <<settings, intent, applied, core, push, edits, overtaken>>

(* It may run over another node than the one selected.                     *)
CoreUp ==
    /\ \E j \in start : \E r \in j.handed, n \in Node :
         /\ core' = {[settings |-> j.settings, allow |-> r.allow, block |-> r.block,
                      node |-> n, pushed |-> FALSE]}
         /\ MarkApplied(r)
    /\ start' = {}
    /\ UNCHANGED <<settings, intent, push, edits>>

CoreNotUp ==
    /\ \E j \in start : j.handed # {}
    /\ start' = {}
    /\ UNCHANGED <<settings, intent, applied, core, push, edits, overtaken>>

(* stop_core, or it dies.                                                  *)
CoreEnds ==
    /\ core # {} /\ core' = {}
    /\ UNCHANGED <<settings, intent, applied, start, push, edits, overtaken>>

(* The rules are pushed: intent_apply *)

ApplyAskedEarly ==
    /\ NeedsApply /\ push = {} /\ MarkApplied([allow |-> AllowNow, block |-> BlockNow])
    /\ push' = (IF core = {} THEN {}
                ELSE {[settings |-> settings, allow |-> AllowNow, block |-> BlockNow,
                       node |-> settings.selected, pushed |-> TRUE]})
    /\ UNCHANGED <<settings, intent, core, start, edits>>

ApplyAsked ==
    /\ NeedsApply /\ push = {}
    /\ IF core = {}
       THEN /\ MarkApplied([allow |-> AllowNow, block |-> BlockNow]) /\ UNCHANGED push
       ELSE /\ push' = {[settings |-> settings, allow |-> AllowNow, block |-> BlockNow,
                         node |-> settings.selected, pushed |-> TRUE]}
            /\ UNCHANGED <<applied, overtaken>>
    /\ UNCHANGED <<settings, intent, core, start, edits>>

(* replace_rules reaches whatever core runs when it arrives.               *)
PushTaken ==
    /\ core # {} /\ core' = push /\ push # {} /\ push' = {}
    /\ \E p \in push : MarkApplied(p)
    /\ UNCHANGED <<settings, intent, start, edits>>

(* It is refused or late: the core is stopped and started again.           *)
PushFails ==
    /\ push # {} /\ push' = {} /\ start = {}
    /\ core' = {} /\ start' = {[settings |-> settings, handed |-> {}]}
    /\ UNCHANGED <<settings, intent, applied, edits, overtaken>>

------------------------------------------------------------------------------
TableNext ==
    \/ \E h \in Name : Judge(h) \/ \E way \in {"direct", "selected"} : Correct(h, way)
    \/ SaveSettings \/ StartCore \/ HandRules \/ CoreUp \/ CoreNotUp \/ CoreEnds
    \/ ApplyAsked \/ PushTaken \/ PushFails

TableSpec == TableInit /\ [][TableNext]_tableVars
------------------------------------------------------------------------------
(* Correctness *)

Sent(allow, block) ==
    DOMAIN allow \subseteq Name /\ block \subseteq Name /\ DOMAIN allow \cap block = {}

(* What the core and the starts under way are given: sets of hosts that do *)
(* not contradict each other, one core, one start and one push at a time.  *)
TableTypeOK ==
    /\ DOMAIN settings.allow \subseteq Name /\ intent.block \subseteq Name
    /\ intent.mode = "off" => intent.block = {}
    /\ Cardinality(core) <= 1 /\ Cardinality(start) <= 1 /\ Cardinality(push) <= 1
    /\ \A c \in core \cup push : Sent(c.allow, c.block) /\ c.node \in Node
    /\ \A j \in start : \A r \in j.handed : Sent(r.allow, r.block)
    /\ \A a \in applied : a.allow \cap a.block = {}
    /\ start # {} => core = {}

(* Whatever names the user gave to rules - those of presets, of internal   *)
(* rules, with a suffix of ours - no two rules have one tag: the core      *)
(* refuses a table where two have ("duplicate ruleTag").                   *)
TagsUnique ==
    \A c \in core : LET t == Table(c)
                    IN  \A i, j \in DOMAIN t : t[i].tag = t[j].tag => i = j

FromApp(c) == c.entry \in Apps /\ ~c.dns

Private(s, c) ==
    LET presets == Preset(s.preset)
    IN  presets # <<>> /\ presets[1].tag = <<"preset-private">> /\ Matches(presets[1].when, c)

(* "It was blocked by mistake": in every table the core is given, started  *)
(* or pushed, a corrected host goes where the user said, whatever the      *)
(* presets, the user's own rules, the verdicts and MITM say of it.         *)
CorrectionsHold ==
    \A c \in core : LET t == Table(c) IN \A x \in Connection :
      (FromApp(x) /\ x.host \in DOMAIN c.allow /\ ~Private(c.settings, x))
        => Route(t, x) = Outbound(c.allow[x.host], c.node)

(* What the user has written comes before what is guessed: a connection    *)
(* that one of the user's rules matches is blocked exactly where that rule *)
(* says so, and a host with a verdict is blocked where none speaks of it.  *)
UserBeforeGuess ==
    \A c \in core : LET t == Table(c) IN \A x \in Connection :
      (FromApp(x) /\ x.host \notin DOMAIN c.allow /\ ~Private(c.settings, x)) =>
        LET rules == c.settings.custom
            own   == {i \in DOMAIN rules : rules[i].on /\ Matches(rules[i].when, x)}
            says  == rules[Least(own)].to
            to    == Route(t, x)
        IN  IF own # {}
            THEN to = Outbound(says, c.node) \/ (says = "block" /\ to = "block-silent")
            ELSE x.host \in c.block => to = "block"

(* In a table the core is started with, names go to the core's DNS, its    *)
(* own interface to itself, MITM's own connections never back to MITM, and *)
(* nothing to an outbound that was not generated.                          *)
EachIsRouted ==
    \A c \in core : LET t == Table(c) IN \A x \in Connection :
      ~c.pushed =>
        LET to == Route(t, x)
        IN  /\ x.dns => to = "dns-out"
            /\ (x.entry = "api" /\ ~x.dns) => to = "api"
            /\ to = "mitm-out" => c.settings.mitm # "off" /\ x.entry # "mitm-upstream"

(* "Only when it has been called is it a fact that these rules are in      *)
(* force" (intent.rs): when nothing is to be applied the core blocks and   *)
(* allows the hosts it should, unless the verdicts changed between sending *)
(* the rules and noting it.                                                *)
AppliedIsInForce ==
    (HashNow # {} /\ ~NeedsApply /\ ~overtaken)
      => \A c \in core : {Hash(c.allow, c.block)} = HashNow

(* "The whole table, exactly as when the configuration is generated"       *)
(* (commands/intent.rs): a table pushed to the core routes as the one the  *)
(* core would be started with.                                             *)
PushedAsGenerated ==
    \A c \in core, x \in Connection :
      Route(Table(c), x) = Route(Table([c EXCEPT !.pushed = FALSE]), x)

==============================================================================
