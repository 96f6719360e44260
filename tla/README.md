# A TLA+ verification of XrayTun

XrayTun is a macOS proxy client.  A desktop app (Tauri, `apps/desktop`) runs as
the user; a privileged daemon, `xraytun-helper` (`crates/xt-helper`), runs as
root under launchd and is the only part that touches the system: it creates a
utun interface, changes the route table and the resolvers of the network
services, and puts certificates into the system keychain.  The app hands the
utun descriptor to an Xray core process, which carries the traffic.

What can go wrong for a user is first of all one thing: the machine is left without
network, because routes or resolvers still point at a tunnel that no longer
exists.  The code's own standard is the first paragraph of
`crates/xt-tun/src/macos/controller.rs`: whatever step fails, the system must
be back to what it was before.  The project is built around that standard.
The rest of the app - the commands that start and stop it, the filter that asks a
language model about hosts, the rules, the upload of its log, the certificate of
the MITM proxy, the books of nodes - has states of its own, and each is modelled
with the failures and interleavings its code meets.

## 1. Inventory

| Component | State | Operations | Talks to | Model |
|---|---|---|---|---|
| Session controller, `xt-tun/src/macos/controller.rs` | none of its own; works on a `SessionSnapshot` | `bring_up`, `commit_routes_and_dns`, `rollback` with re-check, `restore_stale`, `reconcile_dns_residue`, `force_cleanup` | route table, `networksetup`, keychain, snapshot file | `TunSession` |
| Snapshot, DNS, routes, anchors, utun: `snapshot.rs`, `dns.rs`, `route.rs`, `trust.rs`, `utun.rs` | `helper-session.json`; the system | save, load, clear; back up, set, restore; look up, add, delete; install, remove | the system | `SystemNetwork`, `TunSession` |
| Plan compiler, `xt-tun/src/plan.rs` | none (pure) | `build_plan`, `rollback_plan` | controller | `TunPlan`, `TunSession` |
| Helper daemon, `xt-helper/src/server.rs`, `main.rs` | `State.session` under a mutex | one handler per request, one thread per connection, a sigwait thread, recovery before listening | controller; app over a Unix socket | `HelperServer`, `TunSession` |
| Desktop supervisor and commands, `apps/desktop/src/supervisor.rs`, `commands/core.rs`, `lib.rs`, `tray.rs` | session id, descriptor, core child; `AppState.runtime` | start over fallback nodes with a gate, self-heal and commit, stop, quit, Restore at start-up | helper client, core | `ConnectFlow`, `TunPlan` |
| Helper client, `helper_client.rs` | one stream behind an async mutex | calls with timeouts, reconnect | helper | `ConnectFlow` |
| Core process, `xt-core/src/xray/process.rs` | child, log ring | spawn, `wait_ready`, `shutdown` | Xray | `ConnectFlow` |
| Intent engine, `crates/xt-intent` | observer's queue, verdict cache, budget, `intent-cache.json` | observe, tick, ask, inherit, expire, rebuild, clear | model gateway | `IntentEngine` |
| Rules, `xt-core/src/routing`, `xray/config.rs`, `commands/intent.rs` | settings, verdicts, `applied_hash` | generate, merge, push, correct | core | `RuleTable` |
| Audit and upload, `xt-intent/src/audit.rs`, `audit_sync.rs`, `apps/desktop/src/audit_sync.rs` | `intent-audit.jsonl`, progress, consent | record, rotate, upload by day, back off, revoke | server | `AuditSync` |
| MITM switch, `mitm.rs`, `commands/mitm.rs` | the root, the proxy | install, remove, apply; a start that steers | helper, core | `MitmSwitch` |
| Nodes, subscriptions, settings, `commands/nodes.rs`, `store.rs` | `Inner`, three files | add, delete, refresh, select; atomic save | files | `NodeBook` |
| Peer authorisation, wire protocol, validation | none | accept or refuse; types, framing | helper | - |
| MITM proxy, `crates/xt-mitm`; update, `update.rs`; parsers; probes | per connection; files | rewrite; download and swap; parse | - | - |
| Observability, UI, collectors, site | samples | display, upload | - | - |

### What is hard in it

* **Crash at any point.**  `kill -9` or a power cut between a command and the
  save that records it; the next start knows only what is in the file.
* **Commands that fail, and commands that lie.**  `networksetup` and `route`
  report errors, or exit 0 and change nothing; `netstat` may be unreadable.
* **Order.**  Captures go in after the host routes to the proxy servers and out
  before them; resolvers change after the captures on the way up and before
  them on the way down.
* **Two owners of one interface.**  A utun lives as long as any descriptor of
  it: the helper may die while the tunnel runs on in the app, and the reverse.
* **Interleaving.**  Each connection has a thread.  `CommitRoutes` and
  `TunDown` hold the state lock throughout; `TunUp` holds it only to look and
  again to publish, the second half of `Restore` and the SIGTERM handler not
  at all.  In the app, commands work on copies and save outside the lock.
* **Two copies of the truth.**  The session in memory and the file; what the
  supervisor knows and what the window shows; verdicts in the engine and rules
  in the core; settings in memory and on disk.
* **Time-outs and retries of the client**, which turn one request into two, and
  answers that come late, to a stream that is gone or to the next request.
* **Stale reads.**  Whether the root is trusted, which node is in use, which
  rules were sent: read at one moment, acted on at another.

### What makes each component correct

* Controller and snapshot: nothing changed is without its record; the record is
  removed only when the change is undone; after the last rollback the machine
  is as it was; start-up recovery ends with resolvers that work.
* Plan: at no moment of its installation does traffic enter the tunnel that
  must stay outside, and afterwards everything else is in it.
* Helper: locked handlers exclude each other; at most one session; the session
  in memory has its descriptor and is what the file says; every request is
  answered.
* Supervisor: a tunnel that captures traffic is known to somebody who can end
  it; each attempt works on its own session; what is shown is what is; every
  command ends.
* Intent engine: a verdict is an answer and ends with it; a host is asked about
  once; none is forgotten; the budget is kept.
* Rules: unique tags; the user's word before a guess; what is marked as applied
  is in force.
* Audit: no row falls between two days; nothing is sent unasked; failures back off.
* MITM: a core that steers has a proxy with a trusted root to steer to.
* Books: no node outlives its subscription; the files say what is shown.

`PROJECT.json` lists the hazards at their lines with the properties that cover
each, and says where none does and why.

## 2. Modules

| Module | Models | Runs | Proofs |
|---|---|---|---|
| `SystemNetwork` | what the kernel and `networksetup` do: prefix lookup, deletion, utun life time, the sentinel filter | through `TunSession` | types, in `TunSession_proofs` |
| `TunSession` | one helper, one handler at a time, every command and every save a step, with kills, SIGTERM, restart and recovery | `session_*` | `TunSession_proofs` |
| `ResolverLoan` | what a session promises about resolvers, without routes, handlers or crashes: *lent only against a note* | as a property of `session_safety` | `ResolverLoan_proofs` |
| `HelperServer` | the helper's threads, its mutex, SIGTERM and launchd, over a coarser system | `server_*` | `HelperServer_proofs` |
| `ConnectFlow` | the desktop app and its connection, composed with a helper that serves a request in one step, and with cores | `connect_*` | `ConnectFlow_proofs` |
| `TunPlan` | the request, `build_plan` and the kernel's lookup while the plan goes in | `units` | `Rules_proofs` |
| `IntentEngine` | observer, cache, budget, gateway, `intent-cache.json` | `units` | `Intent_proofs` |
| `RuleTable` | the table generated or pushed, and what is noted as applied | `units`, `rules_pushed` | `Rules_proofs` |
| `AuditSync` | the log, its upload, consent and revocation | `units` | `Intent_proofs` |
| `MitmSwitch` | root, proxy, and the starts and stops that use them | `units` | `Rules_proofs` |
| `NodeBook` | nodes, subscriptions and settings in memory and on disk | `units` | `NodeBook_proofs` |
| `Lists` | a filter of a list, for the modules whose lists are reasoned about | through `RuleTable`, `TunPlan` | in `Rules_proofs` |
| `MCTunSession`, `MCHelperServer`, `MCConnectFlow`, `MCUnits` | the instances TLC checks | | `MCUnits_proofs` |

Three state machines split the question of the tunnel.  `TunSession` asks what a
*sequence* of commands may leave behind and so has real plans, records and
failures of two kinds, but serves one request at a time.  `HelperServer` asks what
two handlers can do *to each other* and so has threads and locks, but one bypass
route, one pair of captures and one service.  `ConnectFlow` asks what the *app*
can believe and so has the whole client side, but a helper whose handlers are
atomic.  `TunPlan` asks whether the plan they all take for granted is the right
one.

The last five share no state with each other or with the tunnel: each
is a machine of its own with its variables, `Init` and `Next`, and `MCUnits`
chooses one of the six (`part`) at the start and runs it alone.

### `TunSession` and the code

| Variable | In the code |
|---|---|
| `table`, `dns`, `trusted`, `holders` | the system: routes, resolvers per service, keychain, who holds which utun |
| `disk` | `helper-session.json` |
| `mem` | `State.session` (its snapshot) |
| `snap`, `plan`, `left`, `ok`, `added` | locals of the running handler: the snapshot, the routes still to install, rollback's cursor, `failures.is_empty()`, the anchor just added |
| `pc`, `op` | where the handler is, and which one it is |
| `used`, `lost` | counters of the bounded events; history: keys whose only record has been dropped |

`TunUp`, `InstallRoute`/`RouteFails`, `SaveRoute`/`SaveRouteFails`,
`ConfigureFails`, `DeferRoute`/`DeferRouteFails`, `Prepared` are `bring_up` and `apply`;
`CommitRoutes` with `BackupDns`, `SetDns`, `MarkUp` and their failures is
`commit_routes_and_dns`; `UndoAnchors`, `UndoDns`, `DeleteRoute`,
`RestoreRoute`, `SkipChecks`, `CheckRoutes`, `CheckDns`, `Clear` are `rollback`
in its order; `End...` is what each caller does with the result; `Boot`,
`BootAnchors`, `SaveBootAnchors`, `LeaveRunning`, `RollbackStale`, `Reconcile`
are `restore_stale`; `Crash`, `AppExit`, `NetworkSwitch` are the environment.
A command may report an error (`Fault`) or exit 0 without effect (`Silent`).

`DeleteByPrefix` is TRUE where `route delete` removes whatever is on the prefix
and FALSE where it removes only the route it names.  The repository's
`FakeRouteTable` (`route.rs`) reads it the first way.

### `HelperServer` and the code

`lock` is the mutex around `State`, `session` and `file` the two copies of the
snapshot, `pc[t]`/`op[t]`/`arg[t]`/`rec[t]`/`clean[t]` each thread's place,
handler, request id, snapshot and "no failure so far".  The threads are the
connections of `accept_loop` and the sigwait thread of `main.rs`.  `UpCheck` and
`UpPublish` are the two lock sections of `tun_up`; the steps between them run
without it.  `CommitCheck` and `TearDown` take the lock, `CommitDone`,
`EndCommit`, `EndDown` and `EndTearDown` release it; `ForceCleanup`
is the second half of `Restore`, of `Uninstall`, and all of SIGTERM.  `Exit` is the
end of the process: descriptors and threads go, the file stays.  A client that
gave up on a request and asks again is a request on the other connection.

### `ResolverLoan` and `TunSession`

`at` is `dns`, `note` the backups in `disk`, and `session` counts `bring_up`s.
`Note` writes what a service uses, less the sentinel; `Lend` puts a service on the
sentinel and needs a note; `GiveBack` puts back what is noted; `Settle` drops the
notes when nothing is lent; `Begin` drops them because a new session overwrites the
file - the weakness `session_retained` shows.  The mapping is
`LendsAgainstNotes == Loan!Spec` at the end of `TunSession`.

### `ConnectFlow` and the code

| Variable | In the code |
|---|---|
| `pc`, `mode`, `tries`, `n` | where the command that holds the locks is; what it starts; candidates left; the number of the attempt, which is also the number of its session, descriptor and core |
| `proc`, `sid`, `tunFd`, `fds` | `Supervisor.process`, `.session_id`, `.tun_fd`; the descriptors the process really holds |
| `inbox`, `unread`, `orphans` | the stream: a request sent, answers not read, requests on streams the client has dropped |
| `shown`, `updates`, `claim` | `AppState.runtime`, what is still to be written to it, what the user was told |
| `session`, `file`, `saved`, `hfd`, `routes`, `resolver` | the helper's contract: `State.session`, the file, its descriptors; the captures; the resolvers |
| `cores`, `coreTun`, `watch` | core processes, the utun each was given, whose output is read |

`Begin` to `Started` are `start_core_with_outcome` with `run_node_fallbacks` and
`Supervisor::start`: `StartAttempt`, `UpAnswered` (with self-heal, `Healed`),
`FdAnswered`, `SpawnCore`, `Ready`, `PassGate` or `GiveUp`, `CommitAnswered`,
`StillReachable`; `RollbackAsks` and `UndoEnds` undo a failed attempt.  `Stop`,
`Repair`, `Quit`, `Crash`, `Launch` are the user and the system.  `TimesOut` drops
the stream (or, for the descriptor, keeps it, so that the answer is read as that of
the next request); `HelperServesLate` serves what was left on a dropped one.
`CoreDies`, `OutputEnds` and `Publish` are the task that follows a core and the
updates of the window, which are written after the locks are given back.

### The parts of `MCUnits`

* **`TunPlan`**: `seen` and `uplink` are the network as the app found it
  (`Supervisor::start`) and as the helper found it (`bring_up`).  `AskForTun` makes
  the request and compiles it; `AddRoute`, `SkipRoute`, `CriticalFails` install it
  in order.  A prefix is the set of addresses it covers, with its length;
  `Lookup` is the longest prefix of the kernel's table.
* **`IntentEngine`**: `Observe`; `TickBegins`, `Judging` for each candidate and
  `TickEnds` with the save; `Allow` (the correction), `FollowSettings` (a new
  engine, which loads the file), `ClearCache`, `Relaunch`.  The log of questions is
  history, used by the properties.
* **`RuleTable`**: a rule is a predicate on connections (by host, address, protocol)
  and an outbound.  `StartCore`, `HandRules`, `CoreUp` take the rules at three
  moments, as `start_core` does; `ApplyAsked` and `PushTaken` are `intent_apply`.
* **`AuditSync`**: `Record` with rotation; `SyncBegins` reads the two files,
  `SyncPlans` chooses the days, `Uploaded`/`UploadFails` and `Save`/`SaveFails` are
  one day each; `revoke`, `set_enabled`, `DamagePrefs`, `Restart`.
* **`MitmSwitch`**: what is read of the keychain when a start reads it
  (`StartReads`), and everything that can happen before the core listens
  (`TunUp`, `SelfHeal`, `NodeFails`, `NextNode`); `mitm_apply` in two steps.
* **`NodeBook`**: a command changes memory under the lock and then saves its copy,
  file by file: `Write` to the temporary file, `atomic_write` the rename.  Two
  commands run side by side.

## 3. What is checked

Forty properties hold; each has a mutant - a plausible bug in the code, written
beside the original - that TLC finds it violated by.  Seven more, taken from
comments in the code, are violated by what the code does.

| Run | Question | Instance | Result |
|---|---|---|---|
| `session_safety` | Is everything that was changed on record, in an order that strands no traffic, and undone exactly?  Does it implement `ResolverLoan`? | 2 sessions, one- and two-phase, 1 anchor, 1 kill, 1 reported and 1 silent failure | holds |
| `session_liveness` | Does recovery finish? | 2 sessions, 2 kills, 1 network switch, deletion by prefix | holds |
| `session_retained` | Does a failed rollback's record stay for the retry? | 2 sessions, 1 failure | **violated** |
| `session_killed` | Is a kill at any moment undone exactly? | 1 session, 1 kill | **violated** |
| `server_safety` | Can interleaved handlers break the lock, the descriptor, or the agreement of file and memory?  Is every request answered? | 2 connections and SIGTERM, 2 ids, 3 requests or signals, 1 failure | holds |
| `server_twoups` | Is there never a second session? | 2 requests, no failure | **violated** |
| `server_sigterm` | Does the exit on SIGTERM leave no sentinel without a record? | 1 id, 3 requests or signals, no failure | **violated** |
| `connect_safety` | Does the app know what captures traffic, show what is, and end every command? | 3 attempts, 2 candidates, any 2 of: refused step, failing rollback, late answers, dying core; 1 exit and 1 repair | holds |
| `connect_stop` | Is "rolled back" said only of a rollback? | 1 failing rollback | **violated** |
| `connect_orphan` | Is the core that is probed the one that was started? | 1 exit, 1 core that ends | **violated** |
| `units` | The properties of the six parts below | see Bounds | holds |
| `rules_pushed` | Is a pushed table the generated one? | one preset, no rules of the user | **violated** |

The properties, in words.  Session:

* `SentinelRecorded`: a service that points at the tunnel's resolver has its
  own resolvers in the file, whenever the helper is killed.
* `ClearedMeansDnsBack`: the file is removed only when every service in it is
  off the sentinel, also when `networksetup` exits 0 without effect.
* `DnsInsideTunnel`: resolvers point into the tunnel only while the captures
  carry their traffic there.
* `NoRoutingLoop`, `CaptureGoesFirst`: the captures stand only while the host
  route to the proxy server does, on the way up whatever fails, on the way down
  without failures.
* `RestoredExactly`: with no session on record, routes and resolvers are the
  original ones (reported failures allowed).
* `AnchorsRecorded`: a certificate the helper added is on record until removed.
* `LendsAgainstNotes`: the session implements `ResolverLoan`.
* `SentinelHeals`, `SnapshotHeals`: once nobody holds the tunnel, recovery takes
  every service off the sentinel and finishes the recorded rollback.

Helper and app:

* `LockedAlone`: commits and tear-downs hold the lock from check to answer.
* `SessionHasTunnel`: the session in memory has its descriptor.
* `FileIsSession`: while handlers do not overlap, file and memory agree.
* `Answered`: every request is answered or ends with the process.
* `CaptureIsKnown`: when a tunnel that captures is left and no command runs, the
  supervisor knows its session id, or the request that ends it is on its way;
  excused are a roll-back that fails in the helper, an app that has exited and
  two answers that both come too late.
* `ShownIsCaptured`, `RunningIsShown`: a connection shown as running carries the
  traffic; a core that runs is shown, once no two updates overlap.
* `StartOwnsSession`: a session left over from an earlier attempt never ends up
  under a later one's core.
* `CommandsEnd`: every command ends and gives the locks back.

Units:

* `EachGoesItsWay` (plan): at no moment of the installation does an address enter
  the tunnel that was to stay out - servers, gateway, local network, loopback -, and
  at the end all that was to enter is in it, whichever optional route failed and
  though the machine may have moved to another network in between.
* `VerdictsAreAnswers`, `NoneForgotten`, `AskedOnce`, `BudgetKept` (engine): a
  verdict in memory or on disk is what the model has said, and ends with it; a host
  that was seen is queued or judged; the gateway is not paid twice for an answer that
  lives; no window lets more through than its limit, per engine.
* `TagsUnique`, `CorrectionsHold`, `UserBeforeGuess`, `EachIsRouted`,
  `AppliedIsInForce` (table): no two rules have one tag; corrections win over
  everything, the user's rules over verdicts; DNS, the core's own interface and
  MITM's connections are routed; what is marked as applied is in force.
* `RowsAccounted`, `BacksOff`, `OnlyWhenAsked` (audit): a row on disk of a day called
  done is on the server, taken back, or its day listed as not sent; a failed run is
  not repeated early; nothing is sent unasked.
* `SteeredIsServed`, `SteersOnLeftovers` (mitm): a core that steers has a served,
  trusted proxy, but for six named causes; a start steers only on a root that
  something failed to remove.
* `NoOrphans`, `SavedIsShown` (book): a node does not outlive its subscription,
  files and memory agree at rest, but for the causes their comments name.

Where a property excuses something, the excuse is a history variable set by
the step that causes it (`lost`, `late`, `why`, `raced`, `orphaned`, `overlap`):
the property says that nothing else can.

### What the violations show

1. `session_retained`: `bring_up`'s first save overwrites a snapshot kept by a
   failed rollback and takes over only the anchors.  The record of a service
   still on the sentinel is gone; recovery can only set it to DHCP.
2. `session_killed`: `route add` comes before the save of what it replaced.  A
   kill in between loses another VPN's route.
3. `server_twoups`: `tun_up` looks for a session and sets it under two separate
   locks.  Two of them both succeed, and the first session's descriptor and
   record are lost.
4. `server_sigterm`: `graceful_shutdown` works without the lock beside a commit:
   it loads the file before the resolvers are backed up, clears it afterwards,
   and exits with the service on the sentinel.
5. `connect_stop`: `rollback_tun_inner` takes the session id out before it asks for
   `TunDown` and does not put it back when that fails.  The next stop has nothing to
   ask for, succeeds, and says that the network was rolled back.
6. `connect_orphan`: a core left by a killed app still listens.  The new core ends
   because the port is taken, the old one answers `wait_ready` and the probes, and
   the default route is handed to a utun that nobody reads.
7. `rules_pushed`: a push replaces the whole table by one without the rules that
   only `build_routing` adds: the hijack of DNS, the core's interface, the fallback.

### Seen while modelling, not claimed by a run

* A server with only an IPv6 address gets an on-link host route without a gateway
  (`plan.rs:290`), as the repository's own audit of IPv6 says; `EachGoesItsWay`
  asks only that it stays outside the tunnel.
* The flow in the header of `commands/mitm.rs` (install the root, reconnect, steer)
  cannot come true by a clean reconnect: `TunDown` takes the root out.
* Every `save_settings` makes a new intent engine, whose budget windows are empty;
  `clear_cache` whose save fails brings the verdicts back at the next start.
* A subscription whose refresh parses to no node is emptied; removing one leaves
  `selected_node` dangling until the next refresh.
* Rows of a day written after the run that sent it are not sent (`late`); revoking
  keeps the mark of the last day, so what was revoked is not sent again.

### Bounds, and why they are enough

`Max` in `TunSession` bounds kills, failures of each kind, network switches,
sessions and anchor requests; `MaxAsk` and `MaxFault` in `HelperServer` bound
requests with signals, and failures.  Two sessions are the fewest in which one
meets what another left behind; one failure and one kill together put a kill
inside a rollback caused by a failure; two kills put one into recovery.  One
host route, the scoped default route, two captures and one service give every
branch of `apply` and `rollback` a record to work on, and another VPN on one
capture prefix makes "what it replaced" differ from nothing.  Three requests on
two connections are the fewest in which two handlers overlap on a
session that a third request made.  Session ids are fresh
per `TunUp`, as the app generates them.

In `ConnectFlow`, `MaxAttempt = 3` with `MaxTry = 2` is a start over two nodes and
another start after it; `Max` bounds each kind of trouble and `MaxTrouble = 2` their
sum: two are the fewest in which one answer is late and the undoing of it fails, or
two answers are late; `MaxUpdates = 2` lets two updates of the window cross.

In `units`: three hosts on two sites with a cache and a batch of two, so that hosts
share an answer, one is evicted and one waits; one answer that decides and one that
does not, two calls and two ticks of time, so that an answer ends and a window
renews (the properties also hold with three calls, two saves and one tick); two
edits of the table, so that one comes while the core starts and one while a push is
answered; three hours of one-hour days and three rows, so that a day is skipped and
one is rotated away; two roots and two concurrent `mitm_apply`s; three commands of
which two at once; for the plan, three networks, addresses in both halves of both
families, and any set of optional routes failing.  `Sym` permutes two hosts of one
site and the two models, which no definition tells apart.

`CHECK_DEADLOCK FALSE` is set for `server_*`, `connect_*`, `units` and
`rules_pushed`: once the bounded requests, attempts or edits are used up there is
nothing left to do.

### Fairness

`FairSpec` of `TunSession` is weak fairness of the helper's own steps: a handler
that has started runs on, and launchd (`KeepAlive`) restarts a dead helper.
Requests, failures, kills, the app's exit and network switches carry none, and the bounds
on kills make recovery run undisturbed in the end.  `FairSpec` of `HelperServer`
is weak fairness per thread, of the signal thread and of `Boot`.  Waiting for the lock
is an enabled step only while it is free; weak fairness is enough within
`MaxAsk` because each connection waits for its answer before it asks again.
`FairSpec` of `ConnectFlow` is weak fairness of the command that runs and of the
helper: the app's tasks are polled, the helper's threads scheduled.  What users
do, answers that come late and cores that die are owed to nobody.

## 4. What is proved

The proofs hold for every value of the constants under the named assumptions of
the modules (`PlanAssumption`, `InitAssumption`, `BoundsAssumption`,
`NoSnapAssumption` and those of `SystemNetwork`; `NamesAssumption`,
`LimitsAssumption`, `NoneAssumption`; those at the head of each other module): any
plan with its captures apart from its bypasses, any number of services,
networks, interfaces, sessions, connections, hosts, rows and roots, any bounds.

Two conjuncts of `PlanAssumption` are there for the proofs and for TLC alike: a
critical bypass is a host route (`plan.rs`, `Cidr::host`), never the default
route, and the captures of a plan have distinct destinations (`plan.rs`, the two
halves of the address space).  `PlansFitTheSession` proves of `TunPlan` that
`build_plan` never compiles any other plan.

| Module | Theorems |
|---|---|
| `TunSession_proofs` | `TypeCorrect`, `SentinelAlwaysRecorded`, `ClearedAfterDnsIsBack`, `NeverLoops`, `AnchorsAlwaysRecorded`, `ResolvesInside`, `CapturesLeaveFirst`; `SessionHandlersEnd` |
| `ResolverLoan_proofs` | `SessionImplementsLoan`, `FirstSessionReturns`, `GivesBackExactly` |
| `HelperServer_proofs` | `ServerTypeCorrect`, `LockExcludes`, `SessionKeepsTunnel`, `FileFollowsSession`; `HandlersEnd`, `HolderNeverWaits` |
| `ConnectFlow_proofs` | `TypeCorrect`, `ShownRuns`, `StartsOnItsOwn`, `ShownCarries`, `CaptureRemembered`; `CommandsRunOut`, `AnswersAreDue` |
| `Intent_proofs` | `VerdictsAreTrue`, `NoHostForgotten`, `NeverPaidTwice`, `BudgetNeverExceeded`, `EngineTypeCorrect`; `NoRowBetweenDays`, `SentOnlyWhenAsked`, `NeverTooSoon`, `AuditTypeCorrect` |
| `Rules_proofs` | `AppliedHolds`, `TagsNeverClash`, `CorrectionsAlwaysHold`, `UserComesFirst`, `RoutedAsMeant`, `TableTypeCorrect`; `ServedUnlessTold`, `LeftoversOnly`, `MitmTypeCorrect`; `AddressesGoTheirWay`, `PlansFitTheSession`, `PlanTypeCorrect` |
| `NodeBook_proofs` | `SavedAsShown`, `NoneOrphaned`, `BookTypeCorrect` |
| `MCUnits_proofs` | `EachPartIsItself`, `UnitsTypeCorrect` |

Every invariant below was model-checked before it was proved.  There is one lemma
per action or per group of actions that change the same part of the state.

**`TunSession_proofs`.**  `Shape` is the type invariant with two facts it is not
inductive without: a working handler has a snapshot (`BusyHasSnap`) and
rollback's cursor stays within its records (`LeftBounded`).  `DnsOK` adds to
`SentinelRecorded` what makes it inductive:

* `SessionGone` - no session is in memory while one is being rolled back, so no
  second handler commits from it;
* `RecordsKept` - what a handler or the memory knows of services, the file knows
  too, so saving one over the other drops nothing unrecorded;
* `BackedUpFirst` - between the backup and `set_dns` the service is on file;
* `CheckedServices` - `CheckDns` has gone past a service only when it is off the
  sentinel or `ok` is FALSE, so `Clear` is reached with `ok` only when all are.

The action property follows from `OnlyClearClears`: the file disappears in no step
but `Clear`.  The other four invariants of the module stand on these:

* `RoutesOK`, for `NoRoutingLoop`: while a session is being installed, a critical
  bypass is in the table or still planned (`BypassedOrPlanned`), the plan has its
  captures last (`CapturesLast`), and once one capture is in, only captures are
  left (`CapturedAfter`).  Without the first, a bypass skipped by `RouteFails`
  would be missing behind a capture; a failing critical route ends the handler.
* `AnchorsOK`, for `AnchorsRecorded`: what is trusted and owed is in the file
  (`InFile`) and in the snapshot that a handler will write next (`InHand`), because
  the next `bring_up` copies left-over anchors from the one into the other; a
  rollback without failure has paid everything back before it clears (`PaidBack`).
* `TunnelOK`, for `DnsInsideTunnel`: `SetDns` is reached only with every capture in
  (`OnTheWay`), a rollback reaches the routes only with every service off the
  sentinel (`UndoneServices`), and file, memory and handler name one utun.
* `CapturesOK`, for `CaptureGoesFirst`: in the record of a session captures come after
  bypasses (`GoodRecords`) and each one in the table is on record before rollback's
  cursor (`OnRecord`), so that walking the record backwards takes them out first.

`SessionHandlersEnd` is what safety can say of a handler's end: `ToGo` counts the
steps it still has before it - a `bring_up` the routes and services to come, and a
rollback of all it has recorded; a rollback every record twice, for its re-check, and
the rollback that `Restore`, SIGTERM and the start-up recovery may add -, and every step
that moves a handler lowers it (`Nearer`), a failing command included.  Only a kill
sets it back, and the recovery that follows has its own end.

**`ResolverLoan_proofs`.**  `SessionImplementsLoan`: `TunSession`'s initial states
are the loan's, and each of its steps is a step of the loan or a stutter, from
`TunSession`'s invariant strengthened by `LoanOK` and `Begun`: a handler overwrites
the file only with what the file says already (`Agrees`), backups are taken in the
plan's order (`InPlanOrder`), a service is on the sentinel wholly or not at all
(`WholeAnswer`), a roll-back puts back only what is noted (`RollsBackTruth`), and
only a session leaves a file (`Begun`).
`FirstSessionReturns` is proved of the abstract specification alone, from an
invariant of four actions, and holds of the session because it implements it.

`GivesBackExactly`, for `RestoredExactly`, is about every session.  The resolvers
come from the loan: a service is as it was or lent against the note of what it
was, unless a `bring_up` overwrote its note (`NotesTrue`).  For the routes a record
is read as a promise about one row of the table: undoing its first `n` records,
last one first, takes the row back to what it was (`Home`).  Either nothing of the
session is on the key (`Untouched`), or the first record of that key holds what was there
and the later ones what the session itself had put there (`Retold`).  The invariant says
so of the file (`DiskHome`) but for the route that is installed and not yet saved
(`Ahead`), and of the handler at its cursor (`SnapHome`); `HeldOut` says that captures
held back were not touched, `DefaultOK` that the default route is the network's or
missing, and `FileOK` where the handler's records are those of the file.  A kill
between `route add` and the saving of its record leaves a route nobody knows of:
that key is `Ahead` of the file until then and in `lost` from then on.

Its hypothesis `CleanMachine` is about the machine before the first session, and
TLC finds `RestoredExactly` violated without either half (`session_safety.cfg` with a
scoped default in `InitTable`, or with `DeleteByPrefix = TRUE`).  A scoped default of the user's own
is not given back: `apply` looks up the prefix, which finds the unscoped default,
and the record of the scoped route is put back as that.  And where `route delete`
goes by the prefix alone, undoing a capture that is on record but was held back
deletes whatever route another VPN has on that prefix.  `RestoredExactly` itself excludes
commands that lie and switches of the network.

**`HelperServer_proofs`.**  The inductive invariant is
`IInv == TypeOK /\ Places /\ OwnId /\ Locking`: `Places` says which handler can
be at which program point; `OwnId` that every tunnel being raised has an id of
its own and a descriptor, so that closing one session's descriptor is never
closing another's; `Locking` who holds the lock, and that the session it works on
is out of memory, so that no one finds it there.  `FileFollowsSession` needs `Alone`
besides: while handlers have not overlapped one of them works at a time, there is no
session in memory while one is raised or undone, what a handler installs is in the
file, and when nobody works the file is the session.

`HandlersEnd` gives every program point a `Distance` to the answer, and a `Restore` or
`Uninstall` on its first rollback (`Twice`) six points more for the second; each step of a thread
lowers its sum, and no step of another thread raises it.  `HolderNeverWaits` follows
from `Locking` and `Places`.  Together: who waits for the lock waits for a thread that
needs no lock and has a bounded number of steps before it.

**`ConnectFlow_proofs`.**  `Shape` regroups `TypeOK` and bounds the candidates left
with the attempts made (`AttemptOK`), else `n` could leave its range.  `RunOK`: the
supervisor runs no core while a start or a stop is under way, and one it does run
is shown or is in the only update still to come.  `OwnOK`: no number is used before
its attempt (`IdsBelow`), and at each place of a command the stream holds exactly
its own request or answer, or what `take_tun_fd` left on it comes first and is a
refusal or a descriptor message, which the next command reads as an error
(`Stream`).  This is why an answer that came late never passes for that of a later
`TunUp`.  `CarryOK` and `TellsOK`: from the answer of the commit on, the attempt's
utun is held by the app, carries the captures, and nothing that is still to be
served can undo it; and a core that is shown, or will be, is the supervisor's if it
runs at all.

`KnownOK`, for `CaptureIsKnown`, looks at what was sent and not served as one set
(`OnWay`): whoever drops a stream, a request stays there until it is served.
`Remembered` says of a session that has the traffic, or that a commit on its way may
still give it to, that its id is known or the request that ends it is on its way
too.  It is not inductive without these:

* `NoSecondUp` - no commit that was dropped finds a `TunUp` of its number behind it,
  which would raise the session anew and then give it the traffic;
* `CommitNow` - a commit on the stream is the one the command waits for;
* `InStep`, `LeftBehind` - a command has its own answer alone on the stream, but
  after `take_tun_fd` has given up; and then that was the one late answer, nothing
  has been dropped and no tunnel has the traffic, for the session was the attempt's
  own and not committed (`Stream`, `RoutesBelow`);
* `NoCommitLost`, `RaisedAlone` - where a `Restore` was dropped no commit was, and
  `TunUp` succeeds only while no tunnel has the traffic.

Every action but the helper's two is shown to be one of nine moves on the stream
(`Moves`) that leave the helper's session alone (`Calm`); the invariant is then
proved of the moves.

`CommandsRunOut`: `Distance` counts down along a command, and each candidate or retry
left is worth more than one pass, so that starting over lowers the sum too.
`AnswersAreDue` (`Attended`) is the other half of why a command ends: at a place where it
waits, the request or an answer is on the stream, because a stream is only dropped
by a command that then asks anew on another or stops waiting.

**`Intent_proofs`, the engine.**  `EngineInv` adds `AnswersKept` to its two invariants:
each last answer of the model that still lives is in the cache as long as it does,
or its host is in `lost`.  `AskedOnce` follows, because a tick does not ask about a
host whose entry lives.  `BudgetInv`, for `BudgetKept`, splits the
questions a window still counts at `born`, where the log of the running engine
begins: its own are at most the limit, and those of the engines before it at most the
limit for each time the settings were saved.  The types rest on `SizesOK` - `insert`
evicts before the cache is over its size, and the file never holds more than the
cache did -, on `QueueOK`, that a host is put in the queue only when it is not
there, and on `CountsOK`.

**`Intent_proofs`, the audit.**  `AuditInv` says
besides the two properties that one progress file exists at a time (`OneProgress`),
that an object holds rows of its day (`ObjectOfDay`), that the running upload has
read every row that is not late (`Reading`) and that, while it sends, every row on
disk of a finished day is among those it read or late, and every day it read that
lies after the mark is still to be sent or listed as skipped (`Sending`), so that
moving the mark passes over none.  `Remembered`, for `BacksOff`: the last attempt of
the history is what the file and the run under way say, so that whatever loses the
one loses the other; the proof takes `Backoff` as any function of the failures.  For the types, `SkippedOK`:
a day is left out only once it has ended; and `OneObject`: a second upload of a day
replaces the first.

**`Rules_proofs`.**  `RulesInv`, for the table: at most one core, and what is noted
as applied is what it was given.  `TablesInv`: whatever the core, a start under
way or a push holds is sound settings and finite sets of hosts with a verdict, which
is all the four properties of the tables need; the rest is about the functions that
build a table.  `Unique` is what `Uniquify` keeps to: its tags are distinct, and
every rule is the given one but for its tag.  `Says` and `Silent` follow one
connection through a list: the first rule that is on and matches it speaks, and the
band before which nothing speaks decides.  `Built` is the table `BuildRouting`
returns: the two internal rules, the rules that are on with their outbounds, the
fallback.  The lists are recursive functions on the naturals, and the
induction is first-order: the least index at which a claim about them fails exists
because the order of the naturals is well-founded, and there is none because the
claim passes from each index to the next.  From `NodeAssumption` comes that a node's
outbound is none of the app's own, from `ProfileAssumption` that the user's rules
name no outbound of the app's own.  `MitmInv`, for the switch: a
core that steers, or will once its start ends, has the switch on, the authority
trusted and the proxy running, unless `why` names a cause (`SteeringServed`); once
`mitm_apply` has followed the settings the proxy runs if it should
(`FollowedServes`); a root stays on record without a session only if removing it
has failed (`RecordHasTunnel`), and what the keychain trusts is on record
(`Known`).  `PlanInv`, for the plan: some number `k` of its routes have been gone
through (`Installed`): what is left is the rest, each row of the table was the
system's or is one of the first `k`, each of those is in the table or was skipped and
never both, and no row of the system has been replaced.  `WellPlanned` is what
`build_plan` owes for that: what was asked for and nothing else, no network twice,
the captures last (`CapturesLast`).  So a row that goes to the tunnel means that
every bypass has been gone through (`BypassesFirst`), and an address takes it only
where no longer prefix covers it (`RowIs`).  `NetworksAssumption` is needed: were a
bypassed network listed twice, its route could be in the table and count as skipped.

`PlansFitTheSession` takes the same compiler as a function, with the App's network
and the helper's chosen apart: host routes have the length of a host, the scoped
default and the networks are not critical, and the halves of the families are told
apart by their addresses, which is why each half must have one.  The three types add
little to the invariants above: `SentInv`, that a list sent was `materialize`d with
the corrected hosts taken out of the blocked ones and that a core is started only
where none runs; `MitmKinds`; and `AskedInv`.

**`NodeBook_proofs`.**  `Alone`: a file outside `raced` has one command that will
save it, and its temporary file is that command's.  `FreshOK`: the copy that will be
saved last is what is in memory, or is what will be put there.  `OwnedOK`, for
`NoOrphans`, follows a removal through its two files: every copy of the nodes that
may still be saved has its owners in every copy of the subscriptions that may be,
but for `orphaned` (`Lists`).  Trying to prove it found a case the history lacked, which two
commands cannot reach: while the adding of a subscription is being saved a second
one refreshes it, and a third puts the nodes this brought on disk, before the
subscription itself is there.

`DistinctOK`, for the types: no id is listed twice in memory, on disk, in a temporary
file or in a copy that a command holds, so that no save and no putting back of an old
copy brings one back.  `BookTypeCorrect` takes the nodes there may be to be finitely
many: it counts them, as the code does in its lists.

**`MCUnits_proofs`.**  The run `units` chooses one part and lets the others idle.
`EachPartIsItself`: a behaviour of the run is one of each part's own specification,
for the idle ones do not step, so that every theorem of the parts holds of the run.
The plan is the exception, for an idle plan has an empty table, and `PlanPart` follows
it separately; that its idle network is one of `Uplink` (`Here`) is a hypothesis, which
`units.cfg` meets.  `UnitsTypeCorrect` puts the six types together.

**Only model-checked.**  Liveness under fairness (`SentinelHeals`, `SnapshotHeals`,
`Answered`, `CommandsEnd`) is out of the prover's reach, and no other property of a
passing run is.  What is proved below it is the part that is safety: that a step
always leads nearer (`SessionHandlersEnd`, `HandlersEnd`, `CommandsRunOut`) and that
nobody waits for what will not come (`HolderNeverWaits`, `AnswersAreDue`).  That a step is taken
at all is TLC's, under the fairness above; and that a recovery is tried again until it
heals is TLC's alone.

## 5. What is not modelled

* **Of the session**: sessions in which the helper spawns the data path itself
  (`SpawnDatapath`; the app uses `HandoffFd`); a snapshot file that cannot be parsed
  (`save` writes a temporary file and renames it); search domains, the order of
  resolvers (they are sets), `tear_down` (never called), `Stats`, `Status`, `Hello`
  (no state of the session changes).
* **Of the helper**: in `HelperServer`, the app's own descriptor, trust anchors, the
  moment between `take_tun_fd` and the sending of its descriptor, and the SIGTERM
  that `launchctl bootout` sends during `Uninstall`.  In `ConnectFlow`, the
  handshake of a new connection is part of the reconnect.
* **Of the app**: probes and the route audit are choices of outcome; `Supervisor`'s
  log lines, the locks of the window, the tray's icon.  In `RuleTable`, outbounds
  are names; in `IntentEngine`, the prompt and the reading of an answer are a choice
  among answers; in `AuditSync`, keys and encryption; in `MitmSwitch`, the mark that
  the core steers; in `NodeBook`, latencies, the order of nodes, and the content
  of a file that two writers of one temporary file have mixed.
* **Pure code**: subscription parsers, the node model, the configuration document
  but for its routing, `validate.rs`, the parsing of `route` and `netstat`.  They
  are functions of one input, their tests enumerate it, and a model would be the
  code again.  These and the commands below are most of the repository's lines;
  this is why the map covers the part of the implementation it does.
* **One connection at a time**: the MITM proxy rewrites byte streams that share
  nothing but counters.
* **Measuring and showing**: probes, traffic, node health, the globe, diagnostics,
  the user interface, collectors and the site.  Nothing they compute changes
  what the modelled parts do.
* **Core update**: one task over files, in a fixed order; a failing step in the
  middle of its two data files and a lost update of `meta.json` are known to be
  possible there and are not in a model.

## 6. Done, and what could follow

Built in this order: `TunSession` and `HelperServer` with their proofs; `ConnectFlow`
over the helper's contract; `ResolverLoan` and the refinement; `IntentEngine`,
`RuleTable`, `AuditSync`, `MitmSwitch`, `NodeBook` and their proofs; `TunPlan`.

What a next step could add:

1. The refinement of `ConnectFlow`'s one-step helper by `HelperServer`, for
   requests that do not overlap.
2. Other VPNs that come and go, for the rollback that restores a dead via.
3. `CoreUpdate`: the swap of the core and its data files with kills in between.
