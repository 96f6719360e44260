-------------------------- MODULE TunSession_proofs --------------------------
(***************************************************************************)
(* What TLAPS proves of TunSession for every network, plan and bound: the  *)
(* variables keep their types; a service on the sentinel has its resolvers *)
(* on record, and the record is dropped only after the DNS is back; no     *)
(* session loops; a root the helper added is on record; DNS points inside  *)
(* only behind the captures, and the captures leave before the bypasses;   *)
(* and every step of a handler or a recovery brings it nearer its end.     *)
(***************************************************************************)
EXTENDS TunSession, SequenceTheorems, WellFoundedInduction, TLAPS

Working == {"apply", "record", "setdns", "anchorsave", "anchors", "undo",
            "restore", "verify", "done", "bootanchors", "bootsave", "probe"}

(* A handler that runs has a snapshot to work on.                          *)
BusyHasSnap == pc \in Working => snap \in Snapshot

(* The rollback's cursor stays inside the records it walks.                *)
LeftBounded ==
    /\ pc \in {"anchors", "undo"} => left <= Count(snap)
    /\ pc = "restore" => left \in 1 .. Len(Routes(snap))
    /\ pc = "verify" => left <= Len(snap.dns)

(* TypeOK with those two, regrouped by the part of the state that changes  *)
(* together.                                                               *)
SystemOK ==
    /\ table \in [Dest -> Via]
    /\ dns \in [Service -> SUBSET (Resolver \cup {Sentinel})]
    /\ trusted \in SUBSET Anchor
    /\ holders \in [Tun -> SUBSET Holder]

StoreOK ==
    /\ disk \in Snapshot \cup {NoSnap}
    /\ mem \in Snapshot \cup {NoSnap}
    /\ used \in [Bounded -> Nat]
    /\ lost \in SUBSET (Dest \cup Service \cup Anchor)
    /\ op \in {"none", "prepare", "up", "commit", "install", "remove", "down",
              "restore", "force", "term", "boot"}

WorkOK ==
    /\ snap \in Snapshot \cup {NoSnap}
    /\ plan \in Seq(PlanRec)
    /\ left \in Nat /\ ok \in BOOLEAN /\ added \in SUBSET Anchor
    /\ pc \in Working \cup {"idle", "down", "reconcile"}
    /\ BusyHasSnap
    /\ LeftBounded

Shape == SystemOK /\ StoreOK /\ WorkOK

LEMMA ShapeIsTypeOK == Shape => TypeOK
  BY DEF Shape, SystemOK, StoreOK, WorkOK, TypeOK, Working

------------------------------------------------------------------------------
(* Saving a snapshot or loading one yields a snapshot.                     *)
LEMMA RoutesType ==
    ASSUME NEW s \in Snapshot
    PROVE  /\ Routes(s) \in Seq(RouteRec)
           /\ Len(Routes(s)) \in Nat /\ Len(s.dns) \in Nat /\ Count(s) \in Nat
  BY SMT DEF Routes, Count, Snapshot

LEMMA OursType ==
    ASSUME NEW recs \in SUBSET AnchorRec PROVE Ours(recs) \in SUBSET Anchor
  BY DEF Ours, AnchorRec

LEMMA AnchorAdded ==
    ASSUME NEW recs \in SUBSET AnchorRec, NEW a \in Anchor
    PROVE  recs \cup {[fp |-> a, existed |-> a \in trusted]} \in SUBSET AnchorRec
<1>1. (a \in trusted) \in BOOLEAN OBVIOUS
<1>2. [fp |-> a, existed |-> a \in trusted] \in AnchorRec BY <1>1 DEF AnchorRec
<1>. QED BY <1>2

LEMMA SweepType ==
    ASSUME NEW tab \in [Dest -> Via], NEW hold
    PROVE  Sweep(tab, hold) \in [Dest -> Via]
  BY DEF Sweep, Via

LEMMA CloseType ==
    ASSUME NEW hold \in [Tun -> SUBSET Holder], NEW who, NEW units
    PROVE  Close(hold, who, units) \in [Tun -> SUBSET Holder]
  BY DEF Close

LEMMA SpendType ==
    ASSUME used \in [Bounded -> Nat], NEW b \in Bounded, Spend(b)
    PROVE  used' \in [Bounded -> Nat]
  BY SMT DEF Spend

LEMMA FaultType ==
    ASSUME used \in [Bounded -> Nat], Fault \/ Silent
    PROVE  used' \in [Bounded -> Nat]
  BY SpendType DEF Fault, Silent, Bounded

LEMMA PlanType ==
    /\ BypassPlan \in Seq(PlanRec)
    /\ BypassPlan \o CapturePlan \in Seq(PlanRec)
<1>1. BypassPlan \in Seq(PlanRec)
  <2>1. [dest : Dest \ Capture, critical : BOOLEAN] \subseteq PlanRec
    BY DEF PlanRec
  <2>. QED BY <2>1, PlanAssumption, SeqMonotonic
<1>2. CapturePlan \in Seq(PlanRec)
  <2>1. [dest : Capture, critical : {TRUE}] \subseteq PlanRec
    BY KeysAssumption DEF PlanRec
  <2>. QED BY <2>1, PlanAssumption, SeqMonotonic
<1>. QED BY <1>1, <1>2

LEMMA DeferredType ==
    ASSUME snap \in Snapshot, Len(snap.pending) < Len(CapturePlan)
    PROVE  Deferred \in Snapshot /\ Deferred.dns = snap.dns
<1>. DEFINE r == [dest |-> CapturePlan[Len(snap.pending) + 1].dest,
                  via |-> snap.iface, replaced |-> NoRoute]
<1>1. snap.pending \in Seq(RouteRec) /\ Len(snap.pending) \in Nat
  BY DEF Snapshot
<1>2. CapturePlan \in Seq([dest : Capture, critical : {TRUE}])
  BY PlanAssumption
<1>3. CapturePlan[Len(snap.pending) + 1] \in [dest : Capture, critical : {TRUE}]
  <2>1. Len(CapturePlan) \in Nat BY <1>2
  <2>2. Len(snap.pending) + 1 \in 1 .. Len(CapturePlan) BY <1>1, <2>1
  <2>. QED BY <1>2, <2>2, ElementOfSeq
<1>4. r \in RouteRec
  <2>1. snap.iface \in Via BY DEF Snapshot, Via
  <2>. QED BY <1>3, <2>1, KeysAssumption DEF RouteRec, Via
<1>5. Deferred = [snap EXCEPT !.pending = Append(snap.pending, r)]
  BY DEF Deferred
<1>. HIDE DEF r
<1>6. Append(snap.pending, r) \in Seq(RouteRec) BY <1>1, <1>4, AppendProperties
<1>. QED BY <1>5, <1>6 DEF Snapshot

LEMMA RecordsType ==
    ASSUME NEW s \in Snapshot \cup {NoSnap}
    PROVE  /\ {r.dest : r \in Records(s)} \subseteq Dest
           /\ DnsServices(s) \subseteq Service
           /\ Anchors(s) \in SUBSET AnchorRec
<1>1. CASE s = NoSnap
  BY <1>1 DEF Records, DnsServices, Anchors
<1>2. CASE s \in Snapshot
  <2>1. s # NoSnap BY <1>2, NoSnapAssumption
  <2>2. Routes(s) \in Seq(RouteRec) BY <1>2, RoutesType
  <2>3. \A i \in 1 .. Len(Routes(s)) : Routes(s)[i] \in RouteRec
    BY <2>2, ElementOfSeq
  <2>4. {r.dest : r \in Records(s)} \subseteq Dest
    BY <2>1, <2>3 DEF Records, RouteRec
  <2>5. s.dns \in Seq(DnsRec) /\ s.anchors \in SUBSET AnchorRec
    BY <1>2 DEF Snapshot
  <2>6. \A i \in 1 .. Len(s.dns) : s.dns[i] \in DnsRec
    BY <2>5, ElementOfSeq
  <2>. QED BY <2>1, <2>4, <2>5, <2>6 DEF DnsServices, Anchors, DnsRec
<1>. QED BY <1>1, <1>2

LEMMA NewSnapshotType ==
    ASSUME disk \in Snapshot \cup {NoSnap}, table[Default] \in Gateway, NEW t \in Tun
    PROVE  NewSnapshot(t) \in Snapshot
<1>1. Anchors(disk) \in SUBSET AnchorRec BY RecordsType
<1>. QED BY <1>1, EmptySeq DEF NewSnapshot, Snapshot

LEMMA UnwrittenType ==
    ASSUME Shape, Forget
    PROVE  lost' \in SUBSET (Dest \cup Service \cup Anchor)
<1>1. {r.dest : r \in Records(snap)} \subseteq Dest
  BY RecordsType DEF Shape, WorkOK
<1>2. Unwritten \subseteq Dest \cup Anchor
  BY <1>1 DEF Unwritten, Shape, WorkOK
<1>. QED BY <1>2 DEF Forget, Shape, StoreOK

------------------------------------------------------------------------------
(* The three ways a handler moves on *)

LEMMA IdleStep ==
    ASSUME Idle PROVE WorkOK' /\ op' = "none" /\ pc' = "idle"
  BY EmptySeq DEF Idle, WorkOK, BusyHasSnap, LeftBounded, Working

LEMMA RollbackStep ==
    ASSUME Shape, NEW s \in Snapshot, Rollback(s)
    PROVE  WorkOK' /\ pc' = "anchors" /\ snap' = s
<1>1. Count(s) \in Nat BY RoutesType
<1>2. snap' = s /\ plan' = <<>> /\ left' = Count(s) /\ ok' = TRUE
      /\ pc' = "anchors" /\ added' = added
  BY DEF Rollback
<1>3. added \in SUBSET Anchor BY DEF Shape, WorkOK
<1>4. LeftBounded' BY <1>1, <1>2 DEF LeftBounded, Count, Routes
<1>. QED BY <1>1, <1>2, <1>3, <1>4, EmptySeq DEF WorkOK, BusyHasSnap, Working

LEMMA ExitStep ==
    ASSUME Shape, Exit
    PROVE  WorkOK' /\ SystemOK' /\ pc' = "down" /\ op' = "none"
           /\ mem' = NoSnap /\ disk' = disk /\ dns' = dns
<1>1. holders' \in [Tun -> SUBSET Holder] /\ table' \in [Dest -> Via]
  BY CloseType, SweepType DEF Exit, CloseHelper, Shape, SystemOK
<1>2. SystemOK' BY <1>1 DEF Exit, Shape, SystemOK
<1>3. WorkOK'
  BY EmptySeq DEF Exit, WorkOK, BusyHasSnap, LeftBounded, Working
<1>. QED BY <1>2, <1>3 DEF Exit

LEMMA CloseStep ==
    ASSUME Shape, NEW units, CloseHelper(units), UNCHANGED <<dns, trusted>>
    PROVE  SystemOK'
  BY CloseType, SweepType DEF CloseHelper, Shape, SystemOK

------------------------------------------------------------------------------
(* What start-up reconciliation writes back is never the sentinel, also    *)
(* when the record is gone or a service is recorded twice.                 *)
LEMMA OriginalType ==
    ASSUME NEW s \in Snapshot \cup {NoSnap}, NEW svc
    PROVE  /\ Original(s, svc) \in SUBSET Resolver
           /\ svc \notin DnsServices(s) => Original(s, svc) = {}
           /\ svc \in DnsServices(s) =>
                \E i \in 1 .. Len(s.dns) :
                    s.dns[i].svc = svc /\ Original(s, svc) = s.dns[i].servers
<1>1. CASE svc \notin DnsServices(s)
  BY <1>1 DEF Original
<1>2. CASE svc \in DnsServices(s)
  <2>1. s \in Snapshot BY <1>2 DEF DnsServices
  <2>. DEFINE n == Len(s.dns)
              Last(i) == /\ s.dns[i].svc = svc
                         /\ \A j \in i + 1 .. n : s.dns[j].svc # svc
  <2>2. n \in Nat /\ s.dns \in Seq(DnsRec) BY <2>1 DEF Snapshot
  <2>3. \E i \in 1 .. n : Last(i)
    <3>. DEFINE T == {k \in Nat : \E i \in 1 .. n : k = n - i /\ s.dns[i].svc = svc}
    <3>1. T \subseteq Nat /\ T # {}
      <4>1. PICK i \in 1 .. n : s.dns[i].svc = svc
        BY <1>2, <2>1, NoSnapAssumption DEF DnsServices
      <4>2. n - i \in T BY <2>2, <4>1
      <4>. QED BY <4>2
    <3>2. PICK k \in T : \A m \in T : ~(<<m, k>> \in OpToRel(<, Nat))
      <4>. HIDE DEF T
      <4>. QED BY <3>1, WFMin, NatLessThanWellFounded, Zenon
    <3>3. \A m \in T : ~(m < k)
      BY <3>1, <3>2 DEF OpToRel
    <3>4. PICK i \in 1 .. n : k = n - i /\ s.dns[i].svc = svc
      OBVIOUS
    <3>5. ASSUME NEW j \in i + 1 .. n PROVE s.dns[j].svc # svc
      <4>1. n - j \in Nat /\ n - j < k /\ j \in 1 .. n BY <2>2, <3>4, <3>5
      <4>. QED BY <3>3, <4>1
    <3>. QED BY <3>4, <3>5
  <2>4. PICK i \in 1 .. n : /\ s.dns[i].svc = svc
                            /\ Original(s, svc) = s.dns[i].servers
    BY <1>2, <2>3 DEF Original
  <2>5. s.dns[i] \in DnsRec BY <2>2, ElementOfSeq
  <2>. QED BY <1>2, <2>4, <2>5 DEF DnsRec
<1>. QED BY <1>1, <1>2

------------------------------------------------------------------------------
(* The initial machine has the shape.                                      *)
LEMMA ShapeInit == Init => Shape
  BY EmptySeq, InitAssumption, SMT
     DEF Init, Shape, SystemOK, StoreOK, WorkOK, BusyHasSnap, LeftBounded,
         Working, Via, Bounded

(* Requests *)
LEMMA ShapeRequest == Shape /\ Request => Shape'
<1>. SUFFICES ASSUME Shape, Request PROVE Shape'
  OBVIOUS
<1>1. ASSUME NEW t \in Tun, NEW defer \in DeferModes, TunUp(t, defer)
      PROVE  Shape'
  <2>1. Anchors(disk) \in SUBSET AnchorRec
        /\ {r.dest : r \in Records(disk)} \subseteq Dest
        /\ DnsServices(disk) \subseteq Service
    BY RecordsType DEF Shape, StoreOK
  <2>2. NewSnapshot(t) \in Snapshot
    BY <1>1, NewSnapshotType DEF TunUp, Shape, StoreOK
  <2>3. StoreOK'
    BY <1>1, <2>1, <2>2, SpendType DEF TunUp, Shape, StoreOK, Bounded
  <2>4. SystemOK'
    BY <1>1 DEF TunUp, Shape, SystemOK, Holder
  <2>5. WorkOK'
    BY <1>1, <2>2, PlanType
       DEF TunUp, Shape, WorkOK, BusyHasSnap, LeftBounded, Working
  <2>. QED BY <2>3, <2>4, <2>5 DEF Shape
<1>2. CASE CommitRoutes
  <2>1. mem \in Snapshot BY <1>2 DEF CommitRoutes, Shape, StoreOK
  <2>2. snap' \in Snapshot BY <1>2, <2>1, EmptySeq DEF CommitRoutes, Snapshot
  <2>3. plan' \in Seq(PlanRec)
    <3>1. mem.pending \in Seq(RouteRec) BY <2>1 DEF Snapshot
    <3>2. ASSUME NEW i \in 1 .. Len(mem.pending) PROVE mem.pending[i].dest \in Dest
      <4>1. mem.pending[i] \in RouteRec BY <3>1, ElementOfSeq
      <4>. QED BY <4>1 DEF RouteRec
    <3>3. Len(mem.pending) \in Nat BY <3>1
    <3>. QED BY <1>2, <3>2, <3>3 DEF CommitRoutes, PlanRec
  <2>4. WorkOK'
    BY <1>2, <2>2, <2>3
       DEF CommitRoutes, Shape, WorkOK, BusyHasSnap, LeftBounded, Working
  <2>. QED BY <1>2, <2>4 DEF CommitRoutes, system, Shape, SystemOK, StoreOK
<1>3. CASE TakeTunFd
  <2>1. mem.iface \in Tun BY <1>3 DEF TakeTunFd, Shape, StoreOK, Snapshot
  <2>. QED
    BY <1>3, <2>1 DEF TakeTunFd, work, Holder, Shape, SystemOK, StoreOK, WorkOK,
                      BusyHasSnap, LeftBounded
<1>4. CASE TunDown
  <2>1. mem \in Snapshot BY <1>4 DEF TunDown, Shape, StoreOK
  <2>2. WorkOK' BY <1>4, <2>1, RollbackStep DEF TunDown
  <2>. QED BY <1>4, <2>2 DEF TunDown, system, Shape, SystemOK, StoreOK
<1>5. CASE Restore
  <2>1. WorkOK' /\ op' \in {"restore", "force"}
    BY <1>5, RollbackStep DEF Restore, Shape, StoreOK
  <2>. QED BY <1>5, <2>1 DEF Restore, system, Shape, SystemOK, StoreOK
<1>6. CASE Sigterm
  <2>1. CASE Exit
    BY <1>6, <2>1, ExitStep DEF Sigterm, Shape, StoreOK
  <2>2. CASE ~Exit
    <3>1. disk \in Snapshot /\ Rollback(disk) /\ mem' = NoSnap /\ op' = "term"
          /\ UNCHANGED <<system, disk, used, lost>>
      BY <1>6, <2>2 DEF Sigterm, Shape, StoreOK
    <3>2. WorkOK' BY <3>1, RollbackStep
    <3>. QED BY <3>1, <3>2 DEF system, Shape, SystemOK, StoreOK
  <2>. QED BY <2>1, <2>2
<1>7. ASSUME NEW a \in Anchor, InstallAnchor(a) PROVE Shape'
  <2>1. mem \in Snapshot BY <1>7 DEF InstallAnchor, Shape, StoreOK
  <2>2. snap' \in Snapshot
    <3>. DEFINE kept == mem.anchors \cup {[fp |-> a, existed |-> a \in trusted]}
    <3>1. snap' = [mem EXCEPT !.anchors = kept] BY <1>7 DEF InstallAnchor
    <3>2. kept \in SUBSET AnchorRec BY <2>1, AnchorAdded DEF Snapshot
    <3>. HIDE DEF kept
    <3>. QED BY <2>1, <3>1, <3>2 DEF Snapshot
  <2>3. StoreOK'
    BY <1>7, SpendType DEF InstallAnchor, Shape, StoreOK, Bounded
  <2>. QED
    BY <1>7, <2>2, <2>3
       DEF InstallAnchor, Shape, SystemOK, WorkOK, BusyHasSnap, LeftBounded, Working
<1>8. ASSUME NEW a \in Anchor, RemoveAnchor(a) PROVE Shape'
  <2>1. mem \in Snapshot BY <1>8 DEF RemoveAnchor, Shape, StoreOK
  <2>2. snap' \in Snapshot
    <3>. DEFINE kept == mem.anchors \ {r \in mem.anchors : r.fp = a}
    <3>1. snap' = [mem EXCEPT !.anchors = kept] BY <1>8 DEF RemoveAnchor
    <3>2. kept \in SUBSET AnchorRec
      <4>1. mem.anchors \in SUBSET AnchorRec BY <2>1 DEF Snapshot
      <4>. QED BY <4>1
    <3>. HIDE DEF kept
    <3>. QED BY <2>1, <3>1, <3>2 DEF Snapshot
  <2>3. StoreOK'
    BY <1>8, SpendType DEF RemoveAnchor, Shape, StoreOK, Bounded
  <2>4. trusted' \in SUBSET Anchor
    BY <1>8 DEF RemoveAnchor, Shape, SystemOK
  <2>. QED
    BY <1>8, <2>2, <2>3, <2>4
       DEF RemoveAnchor, Shape, SystemOK, WorkOK, BusyHasSnap, LeftBounded, Working
<1>. QED
  BY <1>1, <1>2, <1>3, <1>4, <1>5, <1>6, <1>7, <1>8 DEF Request

(* The installing half of a session *)
LEMMA ShapeApply == Shape /\ Apply => Shape'
<1>. SUFFICES ASSUME Shape, Apply PROVE Shape'
  OBVIOUS
<1>0. pc \in Working => snap \in Snapshot
  BY DEF Shape, WorkOK, BusyHasSnap
<1>a. ASSUME snap \in Snapshot, Fault, Abort, UNCHANGED system PROVE Shape'
  <2>1. WorkOK' BY <1>a, RollbackStep DEF Abort
  <2>2. used' \in [Bounded -> Nat] BY <1>a, FaultType DEF Shape, StoreOK
  <2>. QED BY <1>a, <2>1, <2>2 DEF Abort, system, Shape, SystemOK, StoreOK
<1>1. CASE InstallRoute
  <2>0. snap \in Snapshot BY <1>0, <1>1 DEF InstallRoute, Working
  <2>. DEFINE d == Head(plan).dest
              via == IF d \in Capture THEN snap.iface ELSE snap.gw
  <2>1. plan \in Seq(PlanRec) /\ plan # <<>>
    BY <1>1 DEF InstallRoute, Shape, WorkOK
  <2>2. d \in Dest /\ Tail(plan) \in Seq(PlanRec)
    <3>1. Head(plan) \in PlanRec /\ Tail(plan) \in Seq(PlanRec)
      BY <2>1, HeadTailProperties
    <3>. QED BY <3>1 DEF PlanRec
  <2>3. via \in Via BY <2>0 DEF Snapshot, Via
  <2>4. PICK seen \in {table[PrefixRow(d)], NoRoute} :
          /\ (UNCHANGED used \/ Silent)
          /\ table' = [table EXCEPT ![d] = via]
          /\ snap' = [snap EXCEPT !.installed =
                Append(@, [dest |-> d, via |-> via, replaced |-> seen])]
    BY <1>1 DEF InstallRoute
  <2>5. seen \in Via
    BY <2>2, KeysAssumption DEF PrefixRow, Shape, SystemOK, Via
  <2>6. [dest |-> d, via |-> via, replaced |-> seen] \in RouteRec
    BY <2>2, <2>3, <2>5 DEF RouteRec
  <2>7. snap' \in Snapshot
    <3>. HIDE DEF d, via
    <3>. QED BY <2>0, <2>4, <2>6, AppendProperties DEF Snapshot
  <2>8. table' \in [Dest -> Via]
    BY <2>2, <2>3, <2>4 DEF Shape, SystemOK
  <2>9. used' \in [Bounded -> Nat] BY <2>4, FaultType DEF Shape, StoreOK
  <2>. QED
    BY <1>1, <2>2, <2>7, <2>8, <2>9
       DEF InstallRoute, Shape, SystemOK, StoreOK, WorkOK, BusyHasSnap,
           LeftBounded, Working
<1>2. CASE RouteFails
  <2>1. CASE Abort
    BY <1>0, <1>2, <1>a, <2>1 DEF RouteFails, Working
  <2>2. CASE ~Abort
    <3>1. plan' = Tail(plan) /\ plan # <<>> /\ pc = "apply" /\ Fault
          /\ UNCHANGED <<system, disk, mem, snap, left, ok, added, pc, op, lost>>
      BY <1>2, <2>2 DEF RouteFails
    <3>2. plan' \in Seq(PlanRec)
      BY <3>1, HeadTailProperties DEF Shape, WorkOK
    <3>3. used' \in [Bounded -> Nat] BY <3>1, FaultType DEF Shape, StoreOK
    <3>. QED
      BY <3>1, <3>2, <3>3
         DEF system, Shape, SystemOK, StoreOK, WorkOK, BusyHasSnap, LeftBounded
  <2>. QED BY <2>1, <2>2
<1>3. CASE SaveRoute
  <2>1. snap \in Snapshot BY <1>0, <1>3 DEF SaveRoute, Working
  <2>. QED
    BY <1>3, <2>1
       DEF SaveRoute, system, Shape, SystemOK, StoreOK, WorkOK, BusyHasSnap,
           LeftBounded, Working
<1>4. CASE SaveRouteFails
  BY <1>0, <1>4, <1>a DEF SaveRouteFails, Working
<1>5. CASE DeferRoute
  <2>1. Deferred \in Snapshot
    BY <1>0, <1>5, DeferredType DEF DeferRoute, DeferTurn, Working
  <2>2. /\ pc = "apply" /\ snap' = Deferred /\ disk' = Deferred
        /\ UNCHANGED <<system, mem, plan, left, ok, added, pc, op, used, lost>>
    BY <1>5 DEF DeferRoute, DeferTurn
  <2>. QED
    BY <2>1, <2>2
       DEF system, Shape, SystemOK, StoreOK, WorkOK, BusyHasSnap, LeftBounded
<1>6. CASE DeferRouteFails
  <2>1. Deferred \in Snapshot
    BY <1>0, <1>6, DeferredType DEF DeferRouteFails, DeferTurn, Working
  <2>2. WorkOK' BY <1>6, <2>1, RollbackStep DEF DeferRouteFails
  <2>3. used' \in [Bounded -> Nat]
    BY <1>6, FaultType DEF DeferRouteFails, Shape, StoreOK
  <2>. QED
    BY <1>6, <2>2, <2>3 DEF DeferRouteFails, system, Shape, SystemOK, StoreOK
<1>15. CASE Prepared
  <2>1. snap \in Snapshot BY <1>0, <1>15 DEF Prepared, DeferTurn, Working
  <2>2. WorkOK' /\ op' = "none" BY <1>15, IdleStep DEF Prepared
  <2>. QED
    BY <1>15, <2>1, <2>2 DEF Prepared, system, Shape, SystemOK, StoreOK
<1>16. CASE ConfigureFails
  BY <1>0, <1>16, <1>a DEF ConfigureFails, Working
<1>b. ASSUME DnsTurn, Len(snap.dns) < Len(DnsPlan)
      PROVE  snap \in Snapshot /\ BackedUp \in Snapshot
  <2>1. snap \in Snapshot BY <1>0, <1>b DEF DnsTurn, Working
  <2>2. DnsPlan \in Seq(Service) /\ snap.dns \in Seq(DnsRec)
    BY <2>1, PlanAssumption DEF Snapshot
  <2>3. DnsPlan[Len(snap.dns) + 1] \in Service
    BY <1>b, <2>2, ElementOfSeq
  <2>4. Effective(dns[DnsPlan[Len(snap.dns) + 1]]) \in SUBSET Resolver
    BY <2>3 DEF Effective, Shape, SystemOK
  <2>5. [svc |-> DnsPlan[Len(snap.dns) + 1],
         servers |-> Effective(dns[DnsPlan[Len(snap.dns) + 1]])] \in DnsRec
    BY <2>3, <2>4 DEF DnsRec
  <2>. QED BY <2>1, <2>2, <2>5, AppendProperties DEF BackedUp, Snapshot
<1>7. CASE BackupDns
  BY <1>7, <1>b
     DEF BackupDns, system, Shape, SystemOK, StoreOK, WorkOK, BusyHasSnap,
         LeftBounded, Working
<1>8. CASE BackupDnsFails
  <2>1. PICK s \in {snap, BackedUp} : Rollback(s) BY <1>8 DEF BackupDnsFails
  <2>2. s \in Snapshot BY <1>8, <1>b DEF BackupDnsFails
  <2>3. WorkOK' BY <2>1, <2>2, RollbackStep
  <2>4. used' \in [Bounded -> Nat]
    BY <1>8, FaultType DEF BackupDnsFails, Shape, StoreOK
  <2>. QED
    BY <1>8, <2>3, <2>4 DEF BackupDnsFails, system, Shape, SystemOK, StoreOK
<1>9. CASE SetDns
  <2>1. dns' \in [Service -> SUBSET (Resolver \cup {Sentinel})]
    BY <1>9 DEF SetDns, Shape, SystemOK
  <2>. QED
    BY <1>9, <2>1
       DEF SetDns, Shape, SystemOK, StoreOK, WorkOK, BusyHasSnap, LeftBounded,
           Working
<1>10. CASE SetDnsFails
  BY <1>0, <1>10, <1>a DEF SetDnsFails, Working
<1>11. CASE MarkUp
  <2>1. [snap EXCEPT !.state = "Up"] \in Snapshot
    BY <1>0, <1>11 DEF MarkUp, DnsTurn, Working, Snapshot
  <2>2. WorkOK' /\ op' = "none" BY <1>11, IdleStep DEF MarkUp
  <2>. QED BY <1>11, <2>1, <2>2 DEF MarkUp, system, Shape, SystemOK, StoreOK
<1>12. CASE MarkUpFails
  <2>1. CASE Abort /\ UNCHANGED system
    BY <1>0, <1>12, <1>a, <2>1 DEF MarkUpFails, DnsTurn, Working
  <2>2. CASE CloseHelper({snap.iface}) /\ Idle /\ mem' = NoSnap
             /\ UNCHANGED <<dns, trusted, disk, lost>>
    <3>1. SystemOK' BY <2>2, CloseStep
    <3>2. WorkOK' /\ op' = "none" BY <2>2, IdleStep
    <3>3. used' \in [Bounded -> Nat]
      BY <1>12, FaultType DEF MarkUpFails, Shape, StoreOK
    <3>. QED BY <2>2, <3>1, <3>2, <3>3 DEF Shape, StoreOK
  <2>. QED BY <1>12, <2>1, <2>2 DEF MarkUpFails
<1>13. CASE SaveAnchors
  <2>1. snap \in Snapshot BY <1>0, <1>13 DEF SaveAnchors, Working
  <2>2. WorkOK' /\ op' = "none" BY <1>13, IdleStep DEF SaveAnchors
  <2>. QED
    BY <1>13, <2>1, <2>2 DEF SaveAnchors, system, Shape, SystemOK, StoreOK
<1>14. CASE SaveAnchorsFails
  <2>1. snap \in Snapshot BY <1>0, <1>14 DEF SaveAnchorsFails, Working
  <2>2. WorkOK' /\ op' = "none" BY <1>14, IdleStep DEF SaveAnchorsFails
  <2>3. used' \in [Bounded -> Nat]
    BY <1>14, FaultType DEF SaveAnchorsFails, Shape, StoreOK
  <2>. QED
    BY <1>14, <2>1, <2>2, <2>3 DEF SaveAnchorsFails, Shape, SystemOK, StoreOK
<1>. QED
  BY <1>1, <1>2, <1>3, <1>4, <1>5, <1>6, <1>7, <1>8, <1>9, <1>10, <1>11, <1>12,
     <1>13, <1>14, <1>15, <1>16 DEF Apply

(* Rollback, its re-check, and what its callers do next *)
LEMMA MissedType ==
    ASSUME Shape, Missed PROVE used' \in [Bounded -> Nat] /\ ok' \in BOOLEAN
  BY FaultType DEF Missed, Shape, StoreOK, WorkOK

LEMMA ShapeUndo == Shape /\ Undo => Shape'
<1>. SUFFICES ASSUME Shape, Undo PROVE Shape'
  OBVIOUS
<1>0. pc \in Working => snap \in Snapshot
  BY DEF Shape, WorkOK, BusyHasSnap
<1>n. used \in [Bounded -> Nat] /\ ok \in BOOLEAN /\ left \in Nat
  BY DEF Shape, StoreOK, WorkOK
<1>1. CASE UndoAnchors
  <2>0. snap \in Snapshot BY <1>0, <1>1 DEF UndoAnchors, Working
  <2>1. used' \in [Bounded -> Nat] /\ ok' \in BOOLEAN
    BY <1>1, <1>n, MissedType DEF UndoAnchors
  <2>2. trusted' \in SUBSET Anchor BY <1>1 DEF UndoAnchors, Shape, SystemOK
  <2>. QED
    BY <1>1, <2>0, <2>1, <2>2
       DEF UndoAnchors, Shape, SystemOK, StoreOK, WorkOK, BusyHasSnap,
           LeftBounded, Working
<1>2. CASE UndoDns
  <2>0. snap \in Snapshot BY <1>0, <1>2 DEF UndoDns, Working
  <2>1. snap.dns \in Seq(DnsRec) BY <2>0 DEF Snapshot
  <2>2. Len(Routes(snap)) \in Nat /\ Len(snap.dns) \in Nat BY <2>0, RoutesType
  <2>3. left <= Count(snap) /\ left > Len(Routes(snap))
    BY <1>2 DEF UndoDns, Shape, WorkOK, LeftBounded
  <2>4. left - Len(Routes(snap)) \in 1 .. Len(snap.dns)
    BY <1>n, <2>2, <2>3 DEF Count
  <2>5. snap.dns[left - Len(Routes(snap))] \in DnsRec
    BY <2>1, <2>4, ElementOfSeq
  <2>6. dns' \in [Service -> SUBSET (Resolver \cup {Sentinel})]
    BY <1>2, <2>5 DEF UndoDns, Shape, SystemOK, DnsRec
  <2>7. used' \in [Bounded -> Nat] /\ ok' \in BOOLEAN
    BY <1>2, <1>n, MissedType DEF UndoDns
  <2>8. left' \in Nat /\ left' <= Count(snap)
    BY <1>2, <1>n, <2>2, <2>3 DEF UndoDns, Count
  <2>9. /\ UNCHANGED <<table, trusted, holders, disk, mem, snap, plan, added, pc,
                        op, lost>>
        /\ pc = "undo"
    BY <1>2 DEF UndoDns
  <2>10. LeftBounded' BY <2>8, <2>9 DEF LeftBounded, Count, Routes
  <2>. QED
    BY <2>0, <2>6, <2>7, <2>8, <2>9, <2>10
       DEF Shape, SystemOK, StoreOK, WorkOK, BusyHasSnap
<1>r. ASSUME snap \in Snapshot, NEW i \in 1 .. Len(Routes(snap))
      PROVE  Routes(snap)[i] \in RouteRec
  BY <1>r, RoutesType, ElementOfSeq
<1>3. CASE DeleteRoute
  <2>0. snap \in Snapshot BY <1>0, <1>3 DEF DeleteRoute, Working
  <2>1. left \in 1 .. Len(Routes(snap)) /\ Len(Routes(snap)) \in Nat
        /\ Len(snap.dns) \in Nat
    BY <1>3, <2>0, RoutesType DEF DeleteRoute
  <2>2. Routes(snap)[left] \in RouteRec BY <1>r, <2>0, <2>1
  <2>3. table' \in [Dest -> Via]
    BY <1>3, <2>2 DEF DeleteRoute, Delete, Shape, SystemOK, Via
  <2>4. used' \in [Bounded -> Nat] /\ ok' \in BOOLEAN
    BY <1>3, <1>n, MissedType DEF DeleteRoute
  <2>5. UNCHANGED <<dns, trusted, holders, disk, mem, snap, plan, added, op, lost>>
    BY <1>3 DEF DeleteRoute
  <2>6. \/ pc' = "undo" /\ left' = left - 1
        \/ pc' = "restore" /\ left' = left
    BY <1>3 DEF DeleteRoute
  <2>7. LeftBounded' /\ left' \in Nat
    <3>1. Routes(snap)' = Routes(snap) /\ Count(snap)' = Count(snap)
      BY <2>5 DEF Routes, Count
    <3>2. Len(Routes(snap)) <= Count(snap) BY <2>1 DEF Count
    <3>3. left' \in Nat /\ left' <= Len(Routes(snap)) BY <2>1, <2>6
    <3>4. Count(snap) \in Nat BY <2>1 DEF Count
    <3>. QED BY <2>1, <2>6, <3>1, <3>2, <3>3, <3>4 DEF LeftBounded
  <2>. QED
    BY <2>0, <2>3, <2>4, <2>5, <2>6, <2>7
       DEF Shape, SystemOK, StoreOK, WorkOK, BusyHasSnap, Working
<1>4. CASE RestoreRoute
  <2>0. snap \in Snapshot BY <1>0, <1>4 DEF RestoreRoute, Working
  <2>1. left \in 1 .. Len(Routes(snap)) /\ Len(Routes(snap)) \in Nat
        /\ Len(snap.dns) \in Nat
    BY <1>4, <2>0, RoutesType DEF RestoreRoute, Shape, WorkOK, LeftBounded
  <2>2. Routes(snap)[left] \in RouteRec BY <1>r, <2>0, <2>1
  <2>3. table' \in [Dest -> Via]
    BY <1>4, <2>2 DEF RestoreRoute, RouteRec, Shape, SystemOK
  <2>4. used' \in [Bounded -> Nat] /\ ok' \in BOOLEAN
    BY <1>4, <1>n, MissedType DEF RestoreRoute
  <2>5. /\ UNCHANGED <<dns, trusted, holders, disk, mem, snap, plan, added, op,
                        lost>>
        /\ pc' = "undo" /\ left' = left - 1
    BY <1>4 DEF RestoreRoute
  <2>7. LeftBounded' /\ left' \in Nat
    <3>1. Count(snap)' = Count(snap) BY <2>5 DEF Routes, Count
    <3>2. Len(Routes(snap)) <= Count(snap) /\ Count(snap) \in Nat
      BY <2>1 DEF Count
    <3>. QED BY <2>1, <2>5, <3>1, <3>2 DEF LeftBounded
  <2>. QED
    BY <2>0, <2>3, <2>4, <2>5, <2>7
       DEF Shape, SystemOK, StoreOK, WorkOK, BusyHasSnap, Working
<1>5. CASE SkipChecks
  BY <1>0, <1>5
     DEF SkipChecks, system, Shape, SystemOK, StoreOK, WorkOK, BusyHasSnap,
         LeftBounded, Working
<1>6. CASE CheckRoutes
  <2>0. snap \in Snapshot BY <1>0, <1>6 DEF CheckRoutes, Working
  <2>1. table' \in [Dest -> Via]
    BY <1>6, <2>0 DEF CheckRoutes, Shape, SystemOK, Snapshot, Via
  <2>2. used' \in [Bounded -> Nat]
    BY <1>6, <1>n, FaultType DEF CheckRoutes
  <2>3. ok' \in BOOLEAN
    <3>. DEFINE default == (table')[Default] \in Gateway
                all == Routes(snap) # <<>> =>
                         default /\ CapturesGone(snap, table')
    <3>1. ok' = all \/ ok' = default \/ ok' = FALSE BY <1>6 DEF CheckRoutes
    <3>2. all \in BOOLEAN /\ default \in BOOLEAN OBVIOUS
    <3>. QED BY <3>1, <3>2
  <2>4. /\ UNCHANGED <<dns, trusted, holders, disk, mem, snap, plan, added, op,
                        lost>>
        /\ pc' = "verify" /\ left' = Len(snap.dns)
    BY <1>6 DEF CheckRoutes
  <2>5. Len(snap.dns) \in Nat BY <2>0, RoutesType
  <2>. QED
    BY <2>0, <2>1, <2>2, <2>3, <2>4, <2>5
       DEF Shape, SystemOK, StoreOK, WorkOK, BusyHasSnap, LeftBounded, Working
<1>7. CASE CheckDns
  <2>0. snap \in Snapshot BY <1>0, <1>7 DEF CheckDns, Working
  <2>1. snap.dns \in Seq(DnsRec) /\ Len(snap.dns) \in Nat
    BY <2>0 DEF Snapshot
  <2>2. left \in 1 .. Len(snap.dns)
    BY <1>7, <1>n, <2>1 DEF CheckDns, Shape, WorkOK, LeftBounded
  <2>3. snap.dns[Len(snap.dns) - left + 1] \in DnsRec
    BY <2>1, <2>2, ElementOfSeq
  <2>4. dns' \in [Service -> SUBSET (Resolver \cup {Sentinel})]
    BY <1>7, <2>3 DEF CheckDns, Shape, SystemOK, DnsRec
  <2>5. used' \in [Bounded -> Nat] /\ ok' \in BOOLEAN
    BY <1>7, <1>n, FaultType DEF CheckDns
  <2>6. /\ UNCHANGED <<table, trusted, holders, disk, mem, snap, plan, added, pc,
                        op, lost>>
        /\ pc = "verify" /\ left' = left - 1
    BY <1>7 DEF CheckDns
  <2>. QED
    BY <2>0, <2>1, <2>2, <2>4, <2>5, <2>6
       DEF Shape, SystemOK, StoreOK, WorkOK, BusyHasSnap, LeftBounded, Working
<1>8. CASE Clear
  <2>1. used' \in [Bounded -> Nat] /\ ok' \in BOOLEAN
    BY <1>8, <1>n, FaultType DEF Clear
  <2>2. disk' \in Snapshot \cup {NoSnap}
    BY <1>8 DEF Clear, Shape, StoreOK
  <2>. QED
    BY <1>0, <1>8, <2>1, <2>2
       DEF Clear, system, Shape, SystemOK, StoreOK, WorkOK, BusyHasSnap,
           LeftBounded, Working
<1>9. CASE EndSession
  BY <1>9, CloseStep, IdleStep, UnwrittenType DEF EndSession, Shape, StoreOK
<1>10. CASE EndCommit
  BY <1>10, IdleStep, UnwrittenType
     DEF EndCommit, system, Shape, SystemOK, StoreOK
<1>11. CASE EndRestore
  <2>1. SystemOK' BY <1>11, CloseStep DEF EndRestore
  <2>2. CASE disk = NoSnap
    BY <1>11, <2>1, <2>2, IdleStep DEF EndRestore, Shape, StoreOK
  <2>3. CASE disk # NoSnap
    <3>1. disk \in Snapshot /\ Rollback(disk) /\ op' = "force"
      BY <1>11, <2>3 DEF EndRestore, Shape, StoreOK
    <3>2. WorkOK' BY <3>1, RollbackStep
    <3>. QED BY <1>11, <2>1, <3>1, <3>2 DEF EndRestore, Shape, StoreOK
  <2>. QED BY <2>2, <2>3
<1>12. CASE EndBoot
  BY <1>12
     DEF EndBoot, system, Shape, SystemOK, StoreOK, WorkOK, BusyHasSnap,
         LeftBounded, Working
<1>13. CASE EndTerm
  BY <1>13, ExitStep DEF EndTerm, Shape, StoreOK
<1>. QED
  BY <1>1, <1>2, <1>3, <1>4, <1>5, <1>6, <1>7, <1>8, <1>9, <1>10, <1>11, <1>12,
     <1>13 DEF Undo

(* Start-up recovery *)
LEMMA ShapeRecover == Shape /\ Recover => Shape'
<1>. SUFFICES ASSUME Shape, Recover PROVE Shape'
  OBVIOUS
<1>0. pc \in Working => snap \in Snapshot
  BY DEF Shape, WorkOK, BusyHasSnap
<1>n. used \in [Bounded -> Nat] BY DEF Shape, StoreOK
<1>1. CASE Boot
  <2>1. pc' \in Working => disk \in Snapshot
    BY <1>1 DEF Boot, Working, Shape, StoreOK
  <2>. QED
    BY <1>1, <2>1
       DEF Boot, system, Shape, SystemOK, StoreOK, WorkOK, BusyHasSnap,
           LeftBounded, Working
<1>2. CASE BootAnchors
  <2>0. snap \in Snapshot BY <1>0, <1>2 DEF BootAnchors, Working
  <2>1. PICK bad \in SUBSET Ours(snap.anchors) :
          /\ UNCHANGED used \/ Fault
          /\ trusted' = trusted \ (Ours(snap.anchors) \ bad)
          /\ snap' = [snap EXCEPT !.anchors =
                        {r \in snap.anchors : ~r.existed /\ r.fp \in bad}]
    BY <1>2 DEF BootAnchors
  <2>2. snap' \in Snapshot
    <3>. DEFINE kept == {r \in snap.anchors : ~r.existed /\ r.fp \in bad}
    <3>1. snap' = [snap EXCEPT !.anchors = kept] BY <2>1
    <3>2. kept \in SUBSET AnchorRec
      <4>1. snap.anchors \in SUBSET AnchorRec BY <2>0 DEF Snapshot
      <4>. QED BY <4>1
    <3>. HIDE DEF kept
    <3>. QED BY <2>0, <3>1, <3>2 DEF Snapshot
  <2>3. used' \in [Bounded -> Nat] BY <1>n, <2>1, FaultType
  <2>4. trusted' \in SUBSET Anchor BY <2>1 DEF Shape, SystemOK
  <2>5. /\ UNCHANGED <<table, dns, holders, disk, mem, plan, left, ok, added, op,
                        lost>>
        /\ pc' = "bootsave"
    BY <1>2 DEF BootAnchors
  <2>. QED
    BY <2>2, <2>3, <2>4, <2>5
       DEF Shape, SystemOK, StoreOK, WorkOK, BusyHasSnap, LeftBounded, Working
<1>3. CASE SaveBootAnchors
  <2>0. snap \in Snapshot BY <1>0, <1>3 DEF SaveBootAnchors, Working
  <2>1. used' \in [Bounded -> Nat] BY <1>3, <1>n, FaultType DEF SaveBootAnchors
  <2>. QED
    BY <1>3, <2>0, <2>1
       DEF SaveBootAnchors, system, Shape, SystemOK, StoreOK, WorkOK,
           BusyHasSnap, LeftBounded, Working
<1>4. CASE LeaveRunning
  <2>1. used' \in [Bounded -> Nat] BY <1>4, <1>n, FaultType DEF LeaveRunning
  <2>2. WorkOK' /\ op' = "none" BY <1>4, IdleStep DEF LeaveRunning
  <2>. QED
    BY <1>4, <2>1, <2>2 DEF LeaveRunning, system, Shape, SystemOK, StoreOK
<1>5. CASE RollbackStale
  <2>0. snap \in Snapshot BY <1>0, <1>5 DEF RollbackStale, Working
  <2>1. WorkOK' BY <1>5, <2>0, RollbackStep DEF RollbackStale
  <2>. QED BY <1>5, <2>1 DEF RollbackStale, system, Shape, SystemOK, StoreOK
<1>6. CASE Reconcile
  <2>1. used' \in [Bounded -> Nat] BY <1>6, <1>n, FaultType DEF Reconcile
  <2>2. WorkOK' /\ op' = "none" BY <1>6, IdleStep DEF Reconcile
  <2>3. dns' \in [Service -> SUBSET (Resolver \cup {Sentinel})]
    <3>1. \A s \in Service : Original(disk, s) \in SUBSET Resolver
      BY OriginalType DEF Shape, StoreOK
    <3>. QED BY <1>6, <3>1 DEF Reconcile, Shape, SystemOK
  <2>. QED BY <1>6, <2>1, <2>2, <2>3 DEF Reconcile, Shape, SystemOK, StoreOK
<1>. QED BY <1>1, <1>2, <1>3, <1>4, <1>5, <1>6 DEF Recover

(* The rest of the machine *)
LEMMA ShapeEnvironment == Shape /\ Environment => Shape'
<1>. SUFFICES ASSUME Shape, Environment PROVE Shape'
  OBVIOUS
<1>1. CASE Crash
  <2>1. used' \in [Bounded -> Nat]
    BY <1>1, SpendType DEF Crash, Bounded, Shape, StoreOK
  <2>. QED
    BY <1>1, <2>1, ExitStep, UnwrittenType DEF Crash, Shape, StoreOK
<1>2. CASE AppExit
  <2>1. SystemOK'
    BY <1>2, CloseType, SweepType DEF AppExit, Shape, SystemOK
  <2>. QED
    BY <1>2, <2>1
       DEF AppExit, work, Shape, StoreOK, WorkOK, BusyHasSnap, LeftBounded
<1>3. ASSUME NEW v \in Gateway \cup {NoRoute}, NetworkSwitch(v) PROVE Shape'
  <2>1. used' \in [Bounded -> Nat]
    BY <1>3, SpendType DEF NetworkSwitch, Bounded, Shape, StoreOK
  <2>2. SystemOK' BY <1>3 DEF NetworkSwitch, Shape, SystemOK, Via
  <2>. QED
    BY <1>3, <2>1, <2>2
       DEF NetworkSwitch, work, Shape, StoreOK, WorkOK, BusyHasSnap, LeftBounded
<1>. QED BY <1>1, <1>2, <1>3 DEF Environment

LEMMA ShapeNext == Shape /\ [Next]_vars => Shape'
<1>1. ASSUME Shape, UNCHANGED vars PROVE Shape'
  <2>1. UNCHANGED <<table, dns, trusted, holders>> /\ UNCHANGED <<disk, mem, used, lost>>
        /\ UNCHANGED <<snap, plan, left, ok, added, pc, op>>
    BY <1>1 DEF vars, system, work
  <2>2. SystemOK' /\ StoreOK' BY <1>1, <2>1 DEF Shape, SystemOK, StoreOK
  <2>3. BusyHasSnap' /\ LeftBounded'
    BY <1>1, <2>1 DEF Shape, WorkOK, BusyHasSnap, LeftBounded, Count, Routes
  <2>4. WorkOK' BY <1>1, <2>1, <2>3 DEF Shape, WorkOK
  <2>. QED BY <2>2, <2>4 DEF Shape
<1>. QED
  BY <1>1, ShapeRequest, ShapeApply, ShapeUndo, ShapeRecover, ShapeEnvironment
     DEF Next

(* The variables of every reachable state have their types: for every      *)
(* network, plan and bound, no record ever keeps the sentinel as a user's  *)
(* resolver, and no rollback walks past the records it has.                *)
THEOREM TypeCorrect == Spec => []TypeOK
<1>1. Spec => []Shape BY ShapeInit, ShapeNext, PTL DEF Spec
<1>. QED BY <1>1, ShapeIsTypeOK, PTL

------------------------------------------------------------------------------
(* The records of a session's DNS.  SentinelRecorded alone is not          *)
(* inductive: a save must never drop a record, set_dns must follow the     *)
(* save of its backup, and the file is cleared on what the re-check saw.   *)

Closing == {"anchors", "undo", "restore", "verify", "done", "down",
            "bootanchors", "bootsave", "probe", "reconcile"}

(* A handler that rolls back has given the session up.                     *)
SessionGone == pc \in Closing => mem = NoSnap

(* What the file records, the snapshot a handler would write records too.  *)
RecordsKept ==
    /\ pc \in Working => DnsServices(disk) \subseteq DnsServices(snap)
    /\ pc \in {"idle", "anchorsave"} /\ mem # NoSnap =>
         DnsServices(disk) \subseteq DnsServices(mem)

(* The service about to be pointed at the tunnel is on record.             *)
BackedUpFirst ==
    pc = "setdns" => snap.dns[Len(snap.dns)].svc \in DnsServices(disk)

(* The services the re-check has passed are off the sentinel.              *)
CheckedServices ==
    pc = "verify" /\ ok =>
        \A i \in 1 .. Len(snap.dns) - left : Sentinel \notin dns[snap.dns[i].svc]

DnsOK ==
    /\ SessionGone /\ RecordsKept /\ BackedUpFirst /\ CheckedServices
    /\ SentinelRecorded

LEMMA SameServices ==
    ASSUME NEW s \in Snapshot, NEW t \in Snapshot, s.dns = t.dns
    PROVE  DnsServices(s) = DnsServices(t)
  BY NoSnapAssumption DEF DnsServices

LEMMA ServiceOf ==
    ASSUME NEW s \in Snapshot, NEW i \in 1 .. Len(s.dns)
    PROVE  /\ s.dns[i].svc \in DnsServices(s)
           /\ Sentinel \notin s.dns[i].servers
<1>1. s.dns[i] \in DnsRec BY ElementOfSeq DEF Snapshot
<1>. QED BY <1>1, NoSnapAssumption, SentinelAssumption DEF DnsServices, DnsRec

LEMMA NoServices == DnsServices(NoSnap) = {}
  BY DEF DnsServices

(* Entering a rollback of a snapshot that records what the file does.      *)
LEMMA RollbackDns ==
    ASSUME Shape, DnsOK, NEW s \in Snapshot, Rollback(s),
           DnsServices(disk) \subseteq DnsServices(s),
           mem' = NoSnap, UNCHANGED <<dns, disk, lost>>
    PROVE  DnsOK'
<1>1. snap' = s /\ pc' = "anchors" BY DEF Rollback
<1>. QED
  BY <1>1 DEF DnsOK, SessionGone, RecordsKept, BackedUpFirst, CheckedServices,
              SentinelRecorded

(* Returning to the idle loop without dropping a record.                   *)
LEMMA IdleDns ==
    ASSUME DnsOK, Idle, dns' = dns, lost \subseteq lost',
           DnsServices(disk) \subseteq DnsServices(disk'),
           mem' # NoSnap => DnsServices(disk') \subseteq DnsServices(mem')
    PROVE  DnsOK'
<1>1. pc' = "idle" BY DEF Idle
<1>2. SentinelRecorded' BY DEF DnsOK, SentinelRecorded
<1>. QED
  BY <1>1, <1>2 DEF DnsOK, SessionGone, RecordsKept, BackedUpFirst,
                    CheckedServices, Closing, Working

LEMMA ExitDns ==
    ASSUME DnsOK, Exit, lost \subseteq lost' PROVE DnsOK'
<1>1. pc' = "down" /\ mem' = NoSnap /\ UNCHANGED <<dns, disk>> BY DEF Exit
<1>2. SentinelRecorded' BY <1>1 DEF DnsOK, SentinelRecorded
<1>. QED
  BY <1>1, <1>2 DEF DnsOK, SessionGone, RecordsKept, BackedUpFirst,
                    CheckedServices, Working

(* A step that leaves the DNS, the session and the records alone.          *)
LEMMA QuietDns ==
    ASSUME DnsOK, UNCHANGED <<dns, mem, lost>>,
           DnsServices(disk) \subseteq DnsServices(disk'),
           SessionGone', RecordsKept', BackedUpFirst', CheckedServices'
    PROVE  DnsOK'
<1>1. SentinelRecorded' BY DEF DnsOK, SentinelRecorded
<1>. QED BY <1>1 DEF DnsOK

LEMMA DnsInit == Init => DnsOK
<1>. SUFFICES ASSUME Init PROVE DnsOK
  OBVIOUS
<1>1. SentinelRecorded
  BY InitAssumption, SentinelAssumption DEF Init, SentinelRecorded
<1>. QED
  BY <1>1, NoServices
     DEF Init, DnsOK, SessionGone, RecordsKept, BackedUpFirst, CheckedServices,
         Closing, Working

LEMMA DnsRequest == Shape /\ DnsOK /\ Request => DnsOK'
<1>. SUFFICES ASSUME Shape, DnsOK, Request PROVE DnsOK'
  OBVIOUS
<1>0. mem # NoSnap => mem \in Snapshot BY DEF Shape, StoreOK
<1>k. pc = "idle" /\ mem # NoSnap => DnsServices(disk) \subseteq DnsServices(mem)
  BY DEF DnsOK, RecordsKept
<1>1. ASSUME NEW t \in Tun, NEW defer \in DeferModes, TunUp(t, defer)
      PROVE  DnsOK'
  <2>1. disk' = snap' /\ pc' = "apply" /\ dns' = dns
        /\ lost \cup DnsServices(disk) \subseteq lost'
    BY <1>1 DEF TunUp
  <2>2. SentinelRecorded' BY <2>1 DEF DnsOK, SentinelRecorded
  <2>. QED
    BY <2>1, <2>2 DEF DnsOK, SessionGone, RecordsKept, BackedUpFirst,
                      CheckedServices, Closing
<1>2. CASE CommitRoutes
  <2>1. pc' = "apply" /\ UNCHANGED <<dns, mem, lost, disk>> BY <1>2 DEF CommitRoutes, system
  <2>2. snap' = [mem EXCEPT !.pending = <<>>] /\ mem # NoSnap /\ pc = "idle"
    BY <1>2 DEF CommitRoutes
  <2>3. snap' \in Snapshot BY <1>0, <2>2, EmptySeq DEF Snapshot
  <2>4. DnsServices(snap') = DnsServices(mem)
    BY <1>0, <2>2, <2>3, SameServices DEF Snapshot
  <2>5. RecordsKept' BY <1>k, <2>1, <2>2, <2>4 DEF RecordsKept
  <2>. QED
    BY <2>1, <2>5, QuietDns
       DEF SessionGone, BackedUpFirst, CheckedServices, Closing
<1>3. CASE TakeTunFd
  BY <1>3 DEF TakeTunFd, work, DnsOK, SessionGone, RecordsKept, BackedUpFirst,
              CheckedServices, SentinelRecorded
<1>4. CASE TunDown
  BY <1>4, <1>0, <1>k, RollbackDns DEF TunDown, system
<1>5. CASE Restore
  BY <1>5, <1>0, <1>k, RollbackDns DEF Restore, system, Shape, StoreOK
<1>6. CASE Sigterm
  BY <1>6, RollbackDns, ExitDns DEF Sigterm, system, Shape, StoreOK
<1>s. ASSUME NEW X \in SUBSET AnchorRec, mem # NoSnap, pc = "idle",
             snap' = [mem EXCEPT !.anchors = X], pc' = "anchorsave",
             UNCHANGED <<dns, mem, lost, disk>>
      PROVE  DnsOK'
  <2>1. snap' \in Snapshot /\ snap'.dns = mem.dns
    BY <1>0, <1>s DEF Snapshot
  <2>2. DnsServices(snap') = DnsServices(mem) BY <1>0, <1>s, <2>1, SameServices
  <2>3. RecordsKept' BY <1>k, <1>s, <2>2 DEF RecordsKept
  <2>. QED
    BY <1>s, <2>3, QuietDns
       DEF SessionGone, BackedUpFirst, CheckedServices, Closing
<1>7. ASSUME NEW a \in Anchor, InstallAnchor(a) PROVE DnsOK'
  <2>. DEFINE X == mem.anchors \cup {[fp |-> a, existed |-> a \in trusted]}
  <2>1. X \in SUBSET AnchorRec
    <3>1. mem.anchors \in SUBSET AnchorRec
      BY <1>0, <1>7 DEF InstallAnchor, Snapshot
    <3>. QED BY <3>1, AnchorAdded
  <2>2. mem # NoSnap /\ pc = "idle" /\ snap' = [mem EXCEPT !.anchors = X]
        /\ pc' = "anchorsave" /\ UNCHANGED <<dns, mem, lost, disk>>
    BY <1>7 DEF InstallAnchor
  <2>. HIDE DEF X
  <2>. QED BY <1>s, <2>1, <2>2
<1>8. ASSUME NEW a \in Anchor, RemoveAnchor(a) PROVE DnsOK'
  <2>. DEFINE X == mem.anchors \ {r \in mem.anchors : r.fp = a}
  <2>1. X \in SUBSET AnchorRec
    <3>1. mem.anchors \in SUBSET AnchorRec
      BY <1>0, <1>8 DEF RemoveAnchor, Snapshot
    <3>. QED BY <3>1
  <2>2. mem # NoSnap /\ pc = "idle" /\ snap' = [mem EXCEPT !.anchors = X]
        /\ pc' = "anchorsave" /\ UNCHANGED <<dns, mem, lost, disk>>
    BY <1>8 DEF RemoveAnchor
  <2>. HIDE DEF X
  <2>. QED BY <1>s, <2>1, <2>2
<1>. QED
  BY <1>1, <1>2, <1>3, <1>4, <1>5, <1>6, <1>7, <1>8 DEF Request

LEMMA DnsApply == Shape /\ DnsOK /\ Apply => DnsOK'
<1>. SUFFICES ASSUME Shape, DnsOK, Apply PROVE DnsOK'
  OBVIOUS
<1>0. pc \in Working => snap \in Snapshot /\ DnsServices(disk) \subseteq DnsServices(snap)
  BY DEF Shape, WorkOK, BusyHasSnap, DnsOK, RecordsKept
<1>a. ASSUME Abort, UNCHANGED system, pc \in Working PROVE DnsOK'
  BY <1>0, <1>a, RollbackDns DEF Abort, system
<1>1. CASE InstallRoute
  <2>1. pc = "apply" /\ pc' = "record" /\ UNCHANGED <<dns, mem, lost, disk>>
    BY <1>1 DEF InstallRoute
  <2>2. snap'.dns = snap.dns /\ snap' \in Snapshot
    <3>1. Shape' BY ShapeApply
    <3>2. PICK X : snap' = [snap EXCEPT !.installed = X]
      BY <1>1 DEF InstallRoute
    <3>. QED
      BY <1>0, <2>1, <3>1, <3>2
         DEF Shape, WorkOK, BusyHasSnap, Working, Snapshot
  <2>3. DnsServices(snap') = DnsServices(snap)
    BY <1>0, <2>1, <2>2, SameServices DEF Working
  <2>4. RecordsKept' BY <1>0, <2>1, <2>3 DEF RecordsKept, Working
  <2>. QED
    BY <2>1, <2>4, QuietDns
       DEF SessionGone, BackedUpFirst, CheckedServices, Closing
<1>2. CASE RouteFails
  <2>1. CASE Abort BY <1>2, <1>a, <2>1 DEF RouteFails, Working
  <2>2. CASE ~Abort
    <3>1. pc = "apply" /\ UNCHANGED <<system, disk, mem, snap, ok, pc, lost>>
      BY <1>2, <2>2 DEF RouteFails
    <3>. QED
      BY <3>1 DEF system, DnsOK, SessionGone, RecordsKept, BackedUpFirst,
                  CheckedServices, SentinelRecorded
  <2>. QED BY <2>1, <2>2
<1>3. CASE SaveRoute
  <2>1. /\ pc = "record" /\ pc' = "apply" /\ disk' = snap
        /\ UNCHANGED <<dns, mem, snap, lost>>
    BY <1>3 DEF SaveRoute, system
  <2>. QED
    BY <1>0, <2>1, QuietDns
       DEF SessionGone, RecordsKept, BackedUpFirst, CheckedServices, Closing,
           Working
<1>4. CASE SaveRouteFails
  BY <1>4, <1>a DEF SaveRouteFails, Working
<1>p. ASSUME DeferTurn, Len(snap.pending) < Len(CapturePlan)
      PROVE  Deferred \in Snapshot /\ DnsServices(Deferred) = DnsServices(snap)
  <2>1. snap \in Snapshot BY <1>0, <1>p DEF DeferTurn, Working
  <2>. QED BY <1>p, <2>1, DeferredType, SameServices
<1>5. CASE DeferRoute
  <2>1. /\ pc = "apply" /\ pc' = "apply" /\ snap' = Deferred /\ disk' = Deferred
        /\ UNCHANGED <<dns, mem, lost>>
    BY <1>5 DEF DeferRoute, DeferTurn, system
  <2>2. DnsServices(Deferred) = DnsServices(snap) BY <1>5, <1>p DEF DeferRoute
  <2>. QED
    BY <1>0, <2>1, <2>2, QuietDns
       DEF SessionGone, RecordsKept, BackedUpFirst, CheckedServices, Closing,
           Working
<1>6. CASE DeferRouteFails
  BY <1>0, <1>6, <1>p, RollbackDns DEF DeferRouteFails, DeferTurn, system, Working
<1>15. CASE Prepared
  BY <1>0, <1>15, IdleDns DEF Prepared, DeferTurn, system, Working
<1>16. CASE ConfigureFails
  BY <1>16, <1>a DEF ConfigureFails, Working
<1>b. ASSUME DnsTurn, Len(snap.dns) < Len(DnsPlan)
      PROVE  /\ BackedUp \in Snapshot
             /\ DnsServices(snap) \subseteq DnsServices(BackedUp)
             /\ BackedUp.dns[Len(BackedUp.dns)].svc \in DnsServices(BackedUp)
  <2>. DEFINE svc == DnsPlan[Len(snap.dns) + 1]
              rec == [svc |-> svc, servers |-> Effective(dns[svc])]
  <2>1. snap \in Snapshot BY <1>0, <1>b DEF DnsTurn, Working
  <2>2. snap.dns \in Seq(DnsRec) BY <2>1 DEF Snapshot
  <2>3. svc \in Service BY <1>b, <2>2, PlanAssumption, ElementOfSeq
  <2>4. rec \in DnsRec
    BY <2>3 DEF DnsRec, Effective, Shape, SystemOK
  <2>5. BackedUp = [snap EXCEPT !.dns = Append(snap.dns, rec)] BY DEF BackedUp
  <2>. HIDE DEF rec
  <2>6. Append(snap.dns, rec) \in Seq(DnsRec)
        /\ Len(Append(snap.dns, rec)) = Len(snap.dns) + 1
        /\ \A i \in 1 .. Len(snap.dns) : Append(snap.dns, rec)[i] = snap.dns[i]
    BY <2>2, <2>4, AppendProperties
  <2>7. BackedUp \in Snapshot /\ BackedUp.dns = Append(snap.dns, rec)
    BY <2>1, <2>5, <2>6 DEF Snapshot
  <2>8. Len(snap.dns) \in Nat BY <2>2
  <2>9. DnsServices(snap) \subseteq DnsServices(BackedUp)
    BY <2>1, <2>6, <2>7, <2>8, NoSnapAssumption DEF DnsServices
  <2>10. Len(BackedUp.dns) \in 1 .. Len(BackedUp.dns) BY <2>6, <2>7, <2>8
  <2>. QED BY <2>7, <2>9, <2>10, ServiceOf
<1>7. CASE BackupDns
  <2>1. /\ pc = "apply" /\ pc' = "setdns"
        /\ snap' = BackedUp /\ disk' = BackedUp
        /\ UNCHANGED <<dns, mem, lost>>
    BY <1>7 DEF BackupDns, DnsTurn, system
  <2>2. /\ DnsServices(snap) \subseteq DnsServices(BackedUp)
        /\ BackedUp.dns[Len(BackedUp.dns)].svc \in DnsServices(BackedUp)
    BY <1>7, <1>b DEF BackupDns
  <2>. QED
    BY <1>0, <2>1, <2>2, QuietDns
       DEF SessionGone, RecordsKept, BackedUpFirst, CheckedServices, Closing,
           Working
<1>8. CASE BackupDnsFails
  <2>1. PICK s \in {snap, BackedUp} : Rollback(s) BY <1>8 DEF BackupDnsFails
  <2>2. pc = "apply" BY <1>8 DEF BackupDnsFails, DnsTurn
  <2>3. s \in Snapshot /\ DnsServices(disk) \subseteq DnsServices(s)
    BY <1>0, <1>8, <1>b, <2>2 DEF BackupDnsFails, Working
  <2>. QED BY <1>8, <2>1, <2>3, RollbackDns DEF BackupDnsFails, system
<1>9. CASE SetDns
  <2>1. /\ pc = "setdns" /\ pc' = "apply"
        /\ dns' = [dns EXCEPT ![snap.dns[Len(snap.dns)].svc] = {Sentinel}]
        /\ UNCHANGED <<disk, mem, snap, lost>>
    BY <1>9 DEF SetDns
  <2>2. snap.dns[Len(snap.dns)].svc \in DnsServices(disk)
    BY <2>1 DEF DnsOK, BackedUpFirst
  <2>3. SentinelRecorded'
    BY <2>1, <2>2 DEF DnsOK, SentinelRecorded, Shape, SystemOK
  <2>. QED
    BY <2>1, <2>3 DEF DnsOK, SessionGone, RecordsKept, BackedUpFirst,
                      CheckedServices, Closing, Working
<1>10. CASE SetDnsFails
  BY <1>10, <1>a DEF SetDnsFails, Working
<1>11. CASE MarkUp
  <2>1. /\ pc = "apply" /\ Idle /\ UNCHANGED <<dns, lost>>
        /\ disk' = [snap EXCEPT !.state = "Up"] /\ mem' = disk'
    BY <1>11 DEF MarkUp, DnsTurn, system
  <2>2. snap \in Snapshot BY <1>0, <2>1 DEF Working
  <2>3. disk' \in Snapshot /\ disk'.dns = snap.dns
    BY <2>1, <2>2 DEF Snapshot
  <2>4. DnsServices(disk') = DnsServices(snap) BY <2>2, <2>3, SameServices
  <2>. QED BY <1>0, <2>1, <2>4, IdleDns DEF Working
<1>12. CASE MarkUpFails
  BY <1>12, <1>a, IdleDns DEF MarkUpFails, DnsTurn, Working
<1>13. CASE SaveAnchors
  BY <1>0, <1>13, IdleDns DEF SaveAnchors, system, Working
<1>14. CASE SaveAnchorsFails
  BY <1>0, <1>14, IdleDns DEF SaveAnchorsFails, Working
<1>. QED
  BY <1>1, <1>2, <1>3, <1>4, <1>5, <1>6, <1>7, <1>8, <1>9, <1>10, <1>11, <1>12,
     <1>13, <1>14, <1>15, <1>16 DEF Apply

(* What clear() may rely on when it removes the file.                      *)
LEMMA ClearedServices ==
    ASSUME Shape, DnsOK, pc = "verify", left = 0, ok, NEW s \in DnsServices(disk)
    PROVE  Sentinel \notin dns[s]
<1>1. snap \in Snapshot /\ s \in DnsServices(snap)
  BY DEF Shape, WorkOK, BusyHasSnap, DnsOK, RecordsKept, Working
<1>2. PICK i \in 1 .. Len(snap.dns) : s = snap.dns[i].svc
  BY <1>1, NoSnapAssumption DEF DnsServices
<1>3. i \in 1 .. Len(snap.dns) - left BY <1>1, RoutesType
<1>. QED BY <1>2, <1>3 DEF DnsOK, CheckedServices

LEMMA DnsUndo == Shape /\ DnsOK /\ Undo => DnsOK'
<1>. SUFFICES ASSUME Shape, DnsOK, Undo PROVE DnsOK'
  OBVIOUS
<1>0. pc \in Working => snap \in Snapshot /\ DnsServices(disk) \subseteq DnsServices(snap)
  BY DEF Shape, WorkOK, BusyHasSnap, DnsOK, RecordsKept
<1>n. left \in Nat BY DEF Shape, WorkOK
<1>q. ASSUME pc \in Closing, pc' \in Closing \ {"verify"},
             UNCHANGED <<dns, disk, mem, snap, lost>>,
             pc \in Working \/ pc' \notin Working
      PROVE  DnsOK'
  BY <1>0, <1>q
     DEF DnsOK, SessionGone, RecordsKept, BackedUpFirst, CheckedServices,
         SentinelRecorded, Closing
<1>w. ASSUME pc \in Working \cap Closing, pc' \in {"undo", "verify"},
             NEW b, Sentinel \notin b.servers,
             dns' = [dns EXCEPT ![b.svc] = b.servers],
             UNCHANGED <<disk, mem, snap, lost>>, CheckedServices'
      PROVE  DnsOK'
  <2>1. SentinelRecorded' BY <1>w DEF DnsOK, SentinelRecorded, Shape, SystemOK
  <2>. QED
    BY <1>0, <1>w, <2>1
       DEF DnsOK, SessionGone, RecordsKept, BackedUpFirst
<1>1. CASE UndoAnchors
  BY <1>1, <1>q DEF UndoAnchors, Closing, Working
<1>2. CASE UndoDns
  <2>1. snap \in Snapshot BY <1>0, <1>2 DEF UndoDns, Working
  <2>2. left - Len(Routes(snap)) \in 1 .. Len(snap.dns)
    BY <1>2, <1>n, <2>1, RoutesType
       DEF UndoDns, Shape, WorkOK, LeftBounded, Count
  <2>. DEFINE b == snap.dns[left - Len(Routes(snap))]
  <2>3. Sentinel \notin b.servers BY <2>1, <2>2, ServiceOf
  <2>4. /\ pc = "undo" /\ pc' = "undo" /\ UNCHANGED <<disk, mem, snap, lost>>
        /\ dns' = [dns EXCEPT ![b.svc] = b.servers] \/ dns' = dns
    BY <1>2 DEF UndoDns
  <2>5. CheckedServices' BY <2>4 DEF CheckedServices
  <2>. HIDE DEF b
  <2>. QED BY <1>q, <1>w, <2>3, <2>4, <2>5 DEF Closing, Working
<1>3. CASE DeleteRoute
  BY <1>3, <1>q DEF DeleteRoute, Closing, Working
<1>4. CASE RestoreRoute
  BY <1>4, <1>q DEF RestoreRoute, Closing, Working
<1>5. CASE SkipChecks
  BY <1>5, <1>q DEF SkipChecks, system, Closing, Working
<1>6. CASE CheckRoutes
  <2>1. /\ pc = "undo" /\ pc' = "verify" /\ left' = Len(snap.dns)
        /\ UNCHANGED <<dns, disk, mem, snap, lost>>
    BY <1>6 DEF CheckRoutes
  <2>2. Len(snap.dns) \in Nat BY <1>0, <2>1, RoutesType DEF Working
  <2>3. CheckedServices' BY <2>1, <2>2 DEF CheckedServices
  <2>. QED
    BY <1>0, <2>1, <2>3, QuietDns
       DEF DnsOK, SessionGone, RecordsKept, BackedUpFirst, Closing, Working
<1>7. CASE CheckDns
  <2>1. /\ pc = "verify" /\ pc' = "verify" /\ left > 0 /\ left' = left - 1
        /\ UNCHANGED <<disk, mem, snap, lost>>
    BY <1>7 DEF CheckDns
  <2>2. snap \in Snapshot BY <1>0, <2>1 DEF Working
  <2>. DEFINE n == Len(snap.dns)
              b == snap.dns[n - left + 1]
  <2>3. n \in Nat /\ n - left + 1 \in 1 .. n
    BY <1>n, <2>1, <2>2, RoutesType DEF Shape, WorkOK, LeftBounded
  <2>4. Sentinel \notin b.servers /\ b.svc \in Service
    <3>1. b.svc \in DnsServices(snap) BY <2>2, <2>3, ServiceOf
    <3>2. DnsServices(snap) \subseteq Service BY <2>2, RecordsType
    <3>. QED BY <2>2, <2>3, <3>1, <3>2, ServiceOf
  <2>5. \/ dns' = [dns EXCEPT ![b.svc] = b.servers]
        \/ ok' = FALSE /\ UNCHANGED dns
    <3>1. /\ \/ dns' = [dns EXCEPT ![b.svc] = b.servers]
             \/ dns[b.svc] # b.servers /\ UNCHANGED dns
          /\ dns'[b.svc] = b.servers \/ ok' = FALSE
      BY <1>7 DEF CheckDns
    <3>. QED BY <3>1
  <2>6. CASE ok' = FALSE /\ UNCHANGED dns
    <3>1. CheckedServices' BY <2>6 DEF CheckedServices
    <3>. QED
      BY <1>0, <2>1, <2>6, <3>1, QuietDns
         DEF DnsOK, SessionGone, RecordsKept, BackedUpFirst, Working
  <2>7. CASE dns' = [dns EXCEPT ![b.svc] = b.servers]
    <3>0. ok' => ok BY <1>7 DEF CheckDns
    <3>1. ASSUME ok, NEW i \in 1 .. n - left + 1
          PROVE  Sentinel \notin dns'[snap.dns[i].svc]
      <4>1. CASE i = n - left + 1
        BY <2>4, <2>7, <4>1 DEF Shape, SystemOK
      <4>2. CASE i # n - left + 1
        <5>1. i \in 1 .. n - left BY <1>n, <2>3, <3>1, <4>2
        <5>2. Sentinel \notin dns[snap.dns[i].svc]
          BY <2>1, <3>1, <5>1 DEF DnsOK, CheckedServices
        <5>3. snap.dns[i].svc \in Service
          <6>1. i \in 1 .. n BY <1>n, <2>3, <5>1
          <6>. QED BY <2>2, <6>1, ServiceOf, RecordsType
        <5>. QED BY <2>4, <2>7, <5>2, <5>3 DEF Shape, SystemOK
      <4>. QED BY <4>1, <4>2
    <3>2. n - left' = n - left + 1 BY <1>n, <2>1, <2>3
    <3>3. CheckedServices' BY <2>1, <2>7, <3>0, <3>1, <3>2 DEF CheckedServices
    <3>. HIDE DEF b
    <3>. QED BY <1>w, <2>1, <2>4, <2>7, <3>3 DEF Closing, Working
  <2>. QED BY <2>5, <2>6, <2>7
<1>8. CASE Clear
  <2>1. /\ pc = "verify" /\ left = 0 /\ pc' = "done"
        /\ UNCHANGED <<dns, mem, snap, lost>>
    BY <1>8 DEF Clear, system
  <2>2. CASE UNCHANGED disk
    BY <1>q, <2>1, <2>2 DEF Closing, Working
  <2>3. CASE ok /\ disk' = NoSnap
    <3>1. ASSUME NEW s \in DnsServices(disk) PROVE Sentinel \notin dns[s]
      BY <2>1, <2>3, <3>1, <1>0, ClearedServices
    <3>2. SentinelRecorded' BY <2>1, <3>1 DEF DnsOK, SentinelRecorded
    <3>. QED
      BY <2>1, <2>3, <3>2, NoServices
         DEF DnsOK, SessionGone, RecordsKept, BackedUpFirst, CheckedServices,
             Closing
  <2>. QED BY <1>8, <2>2, <2>3 DEF Clear
<1>9. CASE EndSession
  <2>1. pc = "done" /\ Idle /\ Forget /\ UNCHANGED <<dns, disk, mem>>
    BY <1>9 DEF EndSession
  <2>2. mem = NoSnap BY <2>1 DEF DnsOK, SessionGone, Closing
  <2>. QED BY <2>1, <2>2, IdleDns DEF Forget
<1>10. CASE EndCommit
  <2>1. pc = "done" /\ Idle /\ Forget /\ UNCHANGED <<dns, disk, mem>>
    BY <1>10 DEF EndCommit, system
  <2>2. mem = NoSnap BY <2>1 DEF DnsOK, SessionGone, Closing
  <2>. QED BY <2>1, <2>2, IdleDns DEF Forget
<1>11. CASE EndRestore
  <2>1. pc = "done" /\ UNCHANGED <<dns, disk, mem, lost>>
    BY <1>11 DEF EndRestore
  <2>2. mem = NoSnap BY <2>1 DEF DnsOK, SessionGone, Closing
  <2>3. CASE disk = NoSnap
    BY <1>11, <2>1, <2>2, <2>3, IdleDns DEF EndRestore
  <2>4. CASE disk # NoSnap
    BY <1>11, <2>1, <2>2, <2>4, RollbackDns DEF EndRestore, Shape, StoreOK
  <2>. QED BY <2>3, <2>4
<1>12. CASE EndBoot
  BY <1>12, <1>q DEF EndBoot, system, Closing, Working
<1>13. CASE EndTerm
  BY <1>13, ExitDns DEF EndTerm
<1>. QED
  BY <1>1, <1>2, <1>3, <1>4, <1>5, <1>6, <1>7, <1>8, <1>9, <1>10, <1>11, <1>12,
     <1>13 DEF Undo

LEMMA DnsRecover == Shape /\ DnsOK /\ Recover => DnsOK'
<1>. SUFFICES ASSUME Shape, DnsOK, Recover PROVE DnsOK'
  OBVIOUS
<1>0. pc \in Working => snap \in Snapshot /\ DnsServices(disk) \subseteq DnsServices(snap)
  BY DEF Shape, WorkOK, BusyHasSnap, DnsOK, RecordsKept
<1>m. pc \in Closing => mem = NoSnap BY DEF DnsOK, SessionGone
<1>1. CASE Boot
  <2>1. /\ pc = "down" /\ pc' \in {"reconcile", "probe", "bootanchors"}
        /\ snap' = disk /\ UNCHANGED <<dns, disk, mem, lost>>
    BY <1>1 DEF Boot, system
  <2>. QED
    BY <2>1 DEF DnsOK, SessionGone, RecordsKept, BackedUpFirst, CheckedServices,
                SentinelRecorded, Closing
<1>2. CASE BootAnchors
  <2>1. PICK bad : snap' = [snap EXCEPT !.anchors =
                        {r \in snap.anchors : ~r.existed /\ r.fp \in bad}]
    BY <1>2 DEF BootAnchors
  <2>2. /\ pc = "bootanchors" /\ pc' = "bootsave"
        /\ UNCHANGED <<dns, disk, mem, lost>>
    BY <1>2 DEF BootAnchors
  <2>3. snap \in Snapshot /\ snap' \in Snapshot
    <3>1. Shape' BY ShapeRecover
    <3>. QED BY <1>0, <2>2, <3>1 DEF Shape, WorkOK, BusyHasSnap, Working
  <2>. DEFINE X == {r \in snap.anchors : ~r.existed /\ r.fp \in bad}
  <2>4. snap' = [snap EXCEPT !.anchors = X] BY <2>1
  <2>. HIDE DEF X
  <2>5. snap'.dns = snap.dns BY <2>3, <2>4 DEF Snapshot
  <2>6. DnsServices(snap') = DnsServices(snap) BY <2>3, <2>5, SameServices
  <2>. QED
    BY <1>0, <1>m, <2>2, <2>6, QuietDns
       DEF SessionGone, RecordsKept, BackedUpFirst, CheckedServices, Closing,
           Working
<1>3. CASE SaveBootAnchors
  <2>1. /\ pc = "bootsave" /\ pc' = "probe" /\ disk' \in {disk, snap}
        /\ UNCHANGED <<dns, mem, snap, lost>>
    BY <1>3 DEF SaveBootAnchors, system
  <2>. QED
    BY <1>0, <1>m, <2>1, QuietDns
       DEF SessionGone, RecordsKept, BackedUpFirst, CheckedServices, Closing,
           Working
<1>4. CASE LeaveRunning
  BY <1>m, <1>4, IdleDns DEF LeaveRunning, system, Closing
<1>5. CASE RollbackStale
  BY <1>0, <1>m, <1>5, RollbackDns DEF RollbackStale, system, Closing, Working
<1>6. CASE Reconcile
  <2>1. Idle /\ mem = NoSnap /\ UNCHANGED <<disk, mem, lost>>
    BY <1>m, <1>6 DEF Reconcile, Closing
  <2>2. ASSUME NEW s \in Service, Sentinel \in dns'[s] PROVE Sentinel \in dns[s]
    <3>1. Original(disk, s) \in SUBSET Resolver
      BY OriginalType DEF Shape, StoreOK
    <3>2. \/ dns' = dns
          \/ \E bad : dns' = [x \in Service |->
                          IF Sentinel \in dns[x] /\ x \notin bad
                          THEN Original(disk, x) ELSE dns[x]]
      BY <1>6 DEF Reconcile
    <3>. QED BY <2>2, <3>1, <3>2, SentinelAssumption
  <2>3. SentinelRecorded' BY <2>1, <2>2 DEF DnsOK, SentinelRecorded
  <2>. QED
    BY <2>1, <2>3 DEF Idle, DnsOK, SessionGone, RecordsKept, BackedUpFirst,
                      CheckedServices, Closing, Working
<1>. QED BY <1>1, <1>2, <1>3, <1>4, <1>5, <1>6 DEF Recover

LEMMA DnsEnvironment == Shape /\ DnsOK /\ Environment => DnsOK'
<1>1. ASSUME DnsOK, UNCHANGED <<dns, disk, mem, work, lost>> PROVE DnsOK'
  BY <1>1 DEF work, DnsOK, SessionGone, RecordsKept, BackedUpFirst,
              CheckedServices, SentinelRecorded
<1>2. ASSUME DnsOK, Crash PROVE DnsOK'
  BY <1>2, ExitDns DEF Crash, Forget
<1>. QED BY <1>1, <1>2 DEF Environment, AppExit, NetworkSwitch

LEMMA DnsNext == Shape /\ DnsOK /\ [Next]_vars => DnsOK'
<1>1. DnsOK /\ UNCHANGED vars => DnsOK'
  BY DEF vars, system, work, DnsOK, SessionGone, RecordsKept, BackedUpFirst,
         CheckedServices, SentinelRecorded
<1>. QED
  BY <1>1, DnsRequest, DnsApply, DnsUndo, DnsRecover, DnsEnvironment DEF Next

(* The inductive invariant holds in every reachable state.                 *)
LEMMA Invariance == Spec => [](Shape /\ DnsOK)
<1>1. Init => Shape /\ DnsOK BY ShapeInit, DnsInit
<1>2. Shape /\ DnsOK /\ [Next]_vars => (Shape /\ DnsOK)'
  BY ShapeNext, DnsNext
<1>. QED BY <1>1, <1>2, PTL DEF Spec

(* However the helper is killed and whatever command or write fails, a     *)
(* service on the tunnel's resolver has its original resolvers on disk,    *)
(* unless a later bring_up overwrote that record: apply_dns saves first.   *)
THEOREM SentinelAlwaysRecorded == Spec => []SentinelRecorded
<1>1. Shape /\ DnsOK => SentinelRecorded BY DEF DnsOK
<1>. QED BY <1>1, Invariance, PTL


------------------------------------------------------------------------------
(* Every write of session.json but clear() leaves a snapshot in it.        *)
LEMMA OnlyClearClears ==
    ASSUME Shape, Next, disk # NoSnap, disk' = NoSnap
    PROVE  Clear
<1>0. pc \in Working => snap \in Snapshot /\ snap # NoSnap
  BY NoSnapAssumption DEF Shape, WorkOK, BusyHasSnap
<1>1. ~Request
  <2>1. ASSUME NEW t \in Tun, NEW defer \in DeferModes PROVE ~TunUp(t, defer)
    BY NewSnapshotType, NoSnapAssumption DEF TunUp, Shape, StoreOK
  <2>. QED
    BY <2>1 DEF Request, CommitRoutes, TakeTunFd, TunDown, Restore, Sigterm, Exit,
                InstallAnchor, RemoveAnchor, system
<1>2. ~Apply
  <2>1. ~SaveRoute /\ ~SaveAnchors
    BY <1>0 DEF SaveRoute, SaveAnchors, Working
  <2>2. ~DeferRoute
    BY <1>0, DeferredType, NoSnapAssumption DEF DeferRoute, DeferTurn, Working
  <2>3. ~BackupDns
    <3>1. Shape' BY ShapeNext
    <3>. QED
      BY <3>1, NoSnapAssumption
         DEF BackupDns, Shape, WorkOK, BusyHasSnap, Working
  <2>4. ~MarkUp
    <3>1. ASSUME pc = "apply" PROVE [snap EXCEPT !.state = "Up"] \in Snapshot
      BY <1>0, <3>1 DEF Working, Snapshot
    <3>. QED BY <3>1, NoSnapAssumption DEF MarkUp, DnsTurn
  <2>. QED
    BY <2>1, <2>2, <2>3, <2>4
       DEF Apply, InstallRoute, RouteFails, SaveRouteFails, Abort, ConfigureFails,
           DeferRouteFails, Prepared, BackupDnsFails, SetDns, SetDnsFails, MarkUpFails, SaveAnchorsFails
<1>3. ~Recover
  BY <1>0 DEF Recover, Boot, BootAnchors, SaveBootAnchors, LeaveRunning,
              RollbackStale, Reconcile, Working
<1>4. ~Environment
  BY DEF Environment, Crash, Exit, AppExit, NetworkSwitch
<1>5. Undo => Clear
  BY DEF Undo, UndoAnchors, UndoDns, DeleteRoute, RestoreRoute, SkipChecks,
         CheckRoutes, CheckDns, EndSession, EndCommit, EndRestore, EndBoot,
         EndTerm, Exit
<1>. QED BY <1>1, <1>2, <1>3, <1>4, <1>5 DEF Next

(* rollback removes the snapshot file only when every service the file     *)
(* records is off the tunnel's resolver, also when networksetup reported a *)
(* success that had no effect: verify_dns_is_back comes before clear.      *)
THEOREM ClearedAfterDnsIsBack == Spec => ClearedMeansDnsBack
<1>. DEFINE Cleared == disk # NoSnap /\ disk' = NoSnap =>
                         \A s \in DnsServices(disk) : Sentinel \notin dns'[s]
<1>1. Shape /\ DnsOK /\ [Next]_vars => [Cleared]_vars
  <2>. SUFFICES ASSUME Shape, DnsOK, Next, disk # NoSnap, disk' = NoSnap
                PROVE  \A s \in DnsServices(disk) : Sentinel \notin dns'[s]
    OBVIOUS
  <2>1. Clear BY OnlyClearClears
  <2>2. pc = "verify" /\ left = 0 /\ ok /\ dns' = dns
    BY <2>1 DEF Clear, system
  <2>. QED BY <2>2, ClearedServices
<1>. QED BY <1>1, Invariance, PTL DEF Spec, ClearedMeansDnsBack

------------------------------------------------------------------------------
(* The routes of a session.  NoRoutingLoop alone is not inductive: a       *)
(* bypass is in the table or still to come, with every capture after it;   *)
(* a prepared session keeps nothing but captures back; and a route through *)
(* a utun does not outlive the utun, so a new device starts without any.   *)

Preparing == {"apply", "record", "setdns", "anchorsave"}

LiveRows == \A d \in Dest : Live(holders, table[d])

Held == Serving # NoSnap => "helper" \in holders[Serving.iface]

Captures(recs) == \A i \in 1 .. Len(recs) : recs[i].dest \in Capture

PendingAreCaptures == Serving # NoSnap => Captures(Serving.pending)

NothingPlanned == pc \in {"idle", "anchorsave"} => plan = <<>>

Planned(d) == \E i \in 1 .. Len(plan) : plan[i].dest = d /\ plan[i].critical

BypassedOrPlanned ==
    Serving # NoSnap =>
        \A d \in CriticalKeys : table[d] = Serving.gw \/ Planned(d)

CapturesLast ==
    \A i, j \in 1 .. Len(plan) :
        i < j /\ plan[i].dest \in Capture => plan[j].dest \in Capture

CapturedAfter ==
    Serving # NoSnap /\ (\E c \in Capture : table[c] = Serving.iface) => Captures(plan)

RoutesOK ==
    /\ LiveRows /\ Held /\ PendingAreCaptures /\ NothingPlanned
    /\ BypassedOrPlanned /\ CapturesLast /\ CapturedAfter

(* A critical bypass is neither a capture nor the default route.           *)
LEMMA CriticalKey ==
    ASSUME NEW d \in CriticalKeys
    PROVE  d \in Dest /\ d \notin Capture /\ d # Default
<1>1. PICK i \in 1 .. Len(BypassPlan) : BypassPlan[i].critical /\ d = BypassPlan[i].dest
  BY DEF CriticalKeys
<1>2. BypassPlan[i] \in [dest : Dest \ Capture, critical : BOOLEAN]
  BY PlanAssumption, ElementOfSeq
<1>. QED BY <1>1, <1>2, PlanAssumption

(* The plan of a bring_up has every critical bypass, and captures last.    *)
LEMMA WholePlan ==
    ASSUME NEW p \in {BypassPlan, BypassPlan \o CapturePlan}
    PROVE  /\ \A d \in CriticalKeys :
                \E i \in 1 .. Len(p) : p[i].dest = d /\ p[i].critical
           /\ \A i, j \in 1 .. Len(p) :
                i < j /\ p[i].dest \in Capture => p[j].dest \in Capture
<1>1. /\ BypassPlan \in Seq([dest : Dest \ Capture, critical : BOOLEAN])
      /\ CapturePlan \in Seq([dest : Capture, critical : {TRUE}])
  BY PlanAssumption
<1>. DEFINE n == Len(BypassPlan)
            m == Len(CapturePlan)
<1>2. n \in Nat /\ m \in Nat BY <1>1
<1>3. \A i \in 1 .. n : BypassPlan[i].dest \notin Capture
  <2>1. ASSUME NEW i \in 1 .. n PROVE BypassPlan[i] \in [dest : Dest \ Capture, critical : BOOLEAN]
    BY <1>1, ElementOfSeq
  <2>. QED BY <2>1
<1>4. \A i \in 1 .. m : CapturePlan[i].dest \in Capture
  <2>1. ASSUME NEW i \in 1 .. m PROVE CapturePlan[i] \in [dest : Capture, critical : {TRUE}]
    BY <1>1, ElementOfSeq
  <2>. QED BY <2>1
<1>5. \A d \in CriticalKeys :
        \E i \in 1 .. n : BypassPlan[i].dest = d /\ BypassPlan[i].critical
  BY DEF CriticalKeys
<1>6. CASE p = BypassPlan
  BY <1>3, <1>5, <1>6
<1>7. CASE p = BypassPlan \o CapturePlan
  <2>. DEFINE whole == BypassPlan \o CapturePlan
  <2>1. /\ Len(whole) = n + m
        /\ \A i \in 1 .. n : whole[i] = BypassPlan[i]
        /\ \A i \in n + 1 .. n + m : whole[i] = CapturePlan[i - n]
    BY <1>1, ConcatProperties
  <2>. HIDE DEF whole, n, m
  <2>2. \A i \in 1 .. n + m : whole[i].dest \in Capture <=> i > n
    BY <1>2, <1>3, <1>4, <2>1
  <2>3. \A i \in 1 .. n : i \in 1 .. n + m BY <1>2
  <2>4. p = whole BY <1>7 DEF whole
  <2>. QED BY <1>2, <1>5, <2>1, <2>2, <2>3, <2>4
<1>. QED BY <1>6, <1>7

(* A sweep leaves no route over a utun that is gone.                       *)
LEMMA SweptLive ==
    ASSUME Shape, table' = Sweep(table, holders') PROVE LiveRows'
<1>1. table \in [Dest -> Via] BY DEF Shape, SystemOK
<1>. QED BY <1>1, ViasAssumption DEF Sweep, LiveRows, Live

(* Nor does a route to a gateway, or no route at all.                      *)
LEMMA RowLive ==
    ASSUME Shape, LiveRows, holders' = holders, NEW d \in Dest,
           NEW via \in Via, Live(holders, via),
           table' = [table EXCEPT ![d] = via]
    PROVE  LiveRows'
  BY DEF Shape, SystemOK, LiveRows, Live

(* While no session is served, only the routes over utuns matter.          *)
LEMMA NotServing ==
    ASSUME LiveRows', Serving' = NoSnap, plan' = <<>> PROVE RoutesOK'
  BY DEF RoutesOK, Held, PendingAreCaptures, NothingPlanned, BypassedOrPlanned,
         CapturesLast, CapturedAfter

(* A handler that ends rolls back, or gives up, without a session.         *)
LEMMA RollbackRoutes ==
    ASSUME LiveRows', NEW s, Rollback(s) PROVE RoutesOK'
<1>1. pc' = "anchors" /\ plan' = <<>> BY DEF Rollback
<1>2. Serving' = NoSnap BY <1>1 DEF Serving
<1>. QED BY <1>1, <1>2, NotServing

LEMMA IdleRoutes ==
    ASSUME LiveRows', Idle, mem' = NoSnap PROVE RoutesOK'
<1>1. pc' = "idle" /\ plan' = <<>> BY DEF Idle
<1>2. Serving' = NoSnap BY <1>1 DEF Serving
<1>. QED BY <1>1, <1>2, NotServing

LEMMA ExitRoutes ==
    ASSUME Shape, Exit PROVE RoutesOK'
<1>1. pc' = "down" /\ plan' = <<>> BY DEF Exit
<1>2. Serving' = NoSnap BY <1>1 DEF Serving
<1>3. LiveRows' BY SweptLive DEF Exit, CloseHelper
<1>. QED BY <1>1, <1>2, <1>3, NotServing

LEMMA LiveKept ==
    ASSUME RoutesOK, UNCHANGED <<table, holders>> PROVE LiveRows'
  BY DEF RoutesOK, LiveRows, Live

(* A step that moves the session from hand to hand as it is.               *)
LEMMA ServesOn ==
    ASSUME RoutesOK, UNCHANGED <<table, holders, plan>>, NothingPlanned',
           Serving # NoSnap, Serving' # NoSnap, Serving'.iface = Serving.iface,
           Serving'.gw = Serving.gw, Captures(Serving'.pending)
    PROVE  RoutesOK'
<1>1. LiveRows' BY LiveKept
<1>2. Held' BY DEF RoutesOK, Held
<1>3. PendingAreCaptures' BY DEF PendingAreCaptures, Captures
<1>4. BypassedOrPlanned' BY DEF RoutesOK, BypassedOrPlanned, Planned
<1>5. CapturesLast' BY DEF RoutesOK, CapturesLast
<1>6. CapturedAfter' BY DEF RoutesOK, CapturedAfter, Captures
<1>. QED BY <1>1, <1>2, <1>3, <1>4, <1>5, <1>6 DEF RoutesOK

LEMMA RoutesInit == Init => RoutesOK
<1>. SUFFICES ASSUME Init PROVE RoutesOK
  OBVIOUS
<1>1. Serving = NoSnap /\ plan = <<>> BY DEF Init, Serving
<1>2. LiveRows BY InitAssumption DEF Init, LiveRows, Live
<1>. QED
  BY <1>1, <1>2 DEF RoutesOK, Held, PendingAreCaptures, NothingPlanned,
                    BypassedOrPlanned, CapturesLast, CapturedAfter

LEMMA RoutesRequest == Shape /\ DnsOK /\ RoutesOK /\ Request => RoutesOK'
<1>. SUFFICES ASSUME Shape, DnsOK, RoutesOK, Request PROVE RoutesOK'
  OBVIOUS
<1>0. mem # NoSnap => mem \in Snapshot BY DEF Shape, StoreOK
<1>s. ASSUME pc = "idle", mem # NoSnap
      PROVE  /\ Serving = mem /\ mem \in Snapshot /\ plan = <<>>
             /\ "helper" \in holders[mem.iface] /\ Captures(mem.pending)
             /\ \A d \in CriticalKeys : table[d] = mem.gw
  <2>1. Serving = mem /\ plan = <<>>
    BY <1>s DEF Serving, RoutesOK, NothingPlanned
  <2>. QED
    BY <1>0, <1>s, <2>1
       DEF RoutesOK, Held, PendingAreCaptures, BypassedOrPlanned, Planned
<1>1. ASSUME NEW t \in Tun, NEW defer \in DeferModes, TunUp(t, defer)
      PROVE  RoutesOK'
  <2>1. /\ holders[t] = {} /\ holders' = [holders EXCEPT ![t] = {"helper"}]
        /\ snap' = NewSnapshot(t) /\ table' = table /\ pc' = "apply"
        /\ plan' = IF defer THEN BypassPlan ELSE BypassPlan \o CapturePlan
        /\ table[Default] \in Gateway
    BY <1>1 DEF TunUp
  <2>2. snap' \in Snapshot /\ snap'.iface = t /\ snap'.pending = <<>>
    BY <2>1, NewSnapshotType DEF NewSnapshot, Shape, StoreOK
  <2>3. Serving' = snap' /\ Serving' # NoSnap
    BY <2>1, <2>2, NoSnapAssumption DEF Serving
  <2>4. holders \in [Tun -> SUBSET Holder] /\ table \in [Dest -> Via]
    BY DEF Shape, SystemOK
  <2>5. LiveRows' /\ \A d \in Dest : table[d] # t
    BY <2>1, <2>4 DEF RoutesOK, LiveRows, Live
  <2>6. Held' BY <2>1, <2>2, <2>3, <2>4 DEF Held
  <2>7. PendingAreCaptures' BY <2>2, <2>3 DEF PendingAreCaptures, Captures
  <2>8. plan' \in {BypassPlan, BypassPlan \o CapturePlan} BY <2>1
  <2>9. BypassedOrPlanned' /\ CapturesLast'
    <3>. DEFINE p == plan'
    <3>1. p \in {BypassPlan, BypassPlan \o CapturePlan} BY <2>8
    <3>. HIDE DEF p
    <3>2. /\ \A d \in CriticalKeys : \E i \in 1 .. Len(p) : p[i].dest = d /\ p[i].critical
          /\ \A i, j \in 1 .. Len(p) : i < j /\ p[i].dest \in Capture => p[j].dest \in Capture
      BY <3>1, WholePlan
    <3>3. (\A d \in CriticalKeys : Planned(d)') /\ CapturesLast'
      BY <3>2 DEF p, Planned, CapturesLast
    <3>. QED BY <3>3 DEF BypassedOrPlanned
  <2>10. CapturedAfter'
    BY <2>1, <2>2, <2>3, <2>5, KeysAssumption DEF CapturedAfter
  <2>. QED
    BY <2>1, <2>5, <2>6, <2>7, <2>9, <2>10 DEF RoutesOK, NothingPlanned
<1>2. CASE CommitRoutes
  <2>1. /\ pc = "idle" /\ mem # NoSnap /\ pc' = "apply"
        /\ snap' = [mem EXCEPT !.pending = <<>>]
        /\ plan' = [i \in 1 .. Len(mem.pending) |->
                      [dest |-> mem.pending[i].dest, critical |-> TRUE]]
        /\ UNCHANGED <<table, holders>>
    BY <1>2 DEF CommitRoutes, system
  <2>2. /\ snap' \in Snapshot /\ snap'.iface = mem.iface /\ snap'.gw = mem.gw
        /\ snap'.pending = <<>>
    BY <1>s, <2>1, EmptySeq DEF Snapshot
  <2>3. Serving' = snap' /\ Serving' # NoSnap
    BY <2>1, <2>2, NoSnapAssumption DEF Serving
  <2>4. Captures(plan)'
    <3>1. Len(mem.pending) \in Nat BY <1>s, <2>1 DEF Snapshot
    <3>2. Len(plan') = Len(mem.pending) BY <2>1, <3>1
    <3>. QED BY <1>s, <2>1, <3>2 DEF Captures
  <2>5. LiveRows' BY <2>1, LiveKept
  <2>6. Held' /\ PendingAreCaptures'
    BY <1>s, <2>1, <2>2, <2>3 DEF Held, PendingAreCaptures, Captures
  <2>7. BypassedOrPlanned' BY <1>s, <2>1, <2>2, <2>3 DEF BypassedOrPlanned
  <2>8. CapturesLast' /\ CapturedAfter'
    BY <2>4 DEF CapturesLast, CapturedAfter, Captures
  <2>. QED BY <2>1, <2>5, <2>6, <2>7, <2>8 DEF RoutesOK, NothingPlanned
<1>3. CASE TakeTunFd
  <2>1. /\ pc = "idle" /\ mem # NoSnap
        /\ holders' = [holders EXCEPT ![mem.iface] = @ \cup {"app"}]
        /\ UNCHANGED <<table, mem, pc, plan, snap>>
    BY <1>3 DEF TakeTunFd, work
  <2>2. holders \in [Tun -> SUBSET Holder] BY DEF Shape, SystemOK
  <2>3. \A t \in Tun : holders[t] \subseteq holders'[t] BY <2>1, <2>2
  <2>4. LiveRows' BY <2>1, <2>2, <2>3 DEF RoutesOK, LiveRows, Live
  <2>5. mem.iface \in Tun BY <1>s, <2>1 DEF Snapshot
  <2>6. Serving' = Serving BY <2>1 DEF Serving
  <2>7. Held' BY <1>s, <2>1, <2>3, <2>5, <2>6 DEF Held
  <2>. QED
    BY <2>1, <2>4, <2>6, <2>7
       DEF RoutesOK, PendingAreCaptures, Captures, NothingPlanned,
           BypassedOrPlanned, Planned, CapturesLast, CapturedAfter
<1>4. CASE TunDown \/ Restore
  <2>1. /\ UNCHANGED <<table, holders>>
        /\ Rollback(mem) \/ Rollback(disk)
    BY <1>4 DEF TunDown, Restore, system
  <2>. QED BY <2>1, LiveKept, RollbackRoutes
<1>6. CASE Sigterm
  <2>1. CASE Exit BY <2>1, ExitRoutes
  <2>2. CASE ~Exit
    <3>1. Rollback(disk) /\ UNCHANGED <<table, holders>>
      BY <1>6, <2>2 DEF Sigterm, system
    <3>. QED BY <3>1, LiveKept, RollbackRoutes
  <2>. QED BY <2>1, <2>2
<1>7. ASSUME NEW a \in Anchor, InstallAnchor(a) \/ RemoveAnchor(a) PROVE RoutesOK'
  <2>1. PICK X : /\ pc = "idle" /\ mem # NoSnap /\ pc' = "anchorsave"
                 /\ snap' = [mem EXCEPT !.anchors = X]
                 /\ UNCHANGED <<table, holders, plan>>
    BY <1>7 DEF InstallAnchor, RemoveAnchor
  <2>2. /\ snap'.iface = mem.iface /\ snap'.gw = mem.gw /\ snap'.pending = mem.pending
    BY <1>s, <2>1 DEF Snapshot
  <2>3. snap' \in Snapshot
    BY <1>7, ShapeRequest, <2>1 DEF Request, Shape, WorkOK, BusyHasSnap, Working
  <2>4. Serving' = snap' /\ Serving' # NoSnap
    BY <2>1, <2>3, NoSnapAssumption DEF Serving
  <2>5. NothingPlanned' BY <1>s, <2>1 DEF NothingPlanned
  <2>. QED BY <1>s, <2>1, <2>2, <2>4, <2>5, ServesOn
<1>. QED BY <1>1, <1>2, <1>3, <1>4, <1>6, <1>7 DEF Request

LEMMA RoutesApply == Shape /\ DnsOK /\ RoutesOK /\ Apply => RoutesOK'
<1>. SUFFICES ASSUME Shape, DnsOK, RoutesOK, Apply PROVE RoutesOK'
  OBVIOUS
<1>0. pc \in Preparing => /\ snap \in Snapshot /\ snap # NoSnap /\ Serving = snap
                          /\ Captures(snap.pending)
  <2>1. pc \in Preparing => snap \in Snapshot /\ Serving = snap
    BY DEF Shape, WorkOK, BusyHasSnap, Working, Preparing, Serving
  <2>. QED BY <2>1, NoSnapAssumption DEF RoutesOK, PendingAreCaptures
<1>p. plan \in Seq(PlanRec) BY DEF Shape, WorkOK
<1>a. ASSUME Abort, UNCHANGED system PROVE RoutesOK'
  BY <1>a, LiveKept, RollbackRoutes DEF Abort, system
(* A handler goes on with the same session. *)
<1>c. ASSUME pc \in Preparing, pc' \in {"apply", "record", "setdns"},
             snap' \in Snapshot, snap'.iface = snap.iface, snap'.gw = snap.gw,
             Captures(snap'.pending), UNCHANGED <<table, holders, plan>>
      PROVE  RoutesOK'
  <2>1. Serving' = snap' /\ Serving' # NoSnap
    BY <1>c, NoSnapAssumption DEF Serving
  <2>2. NothingPlanned' BY <1>c DEF NothingPlanned
  <2>. QED BY <1>0, <1>c, <2>1, <2>2, ServesOn
(* A handler leaves its session in memory, with nothing more to install. *)
<1>m. ASSUME pc \in Preparing, plan = <<>>, Idle, mem' \in Snapshot,
             mem'.iface = snap.iface, mem'.gw = snap.gw,
             mem'.pending = snap.pending, UNCHANGED <<table, holders>>
      PROVE  RoutesOK'
  <2>1. pc' = "idle" /\ plan' = <<>> BY <1>m DEF Idle
  <2>2. Serving' = mem' /\ Serving' # NoSnap
    BY <1>m, <2>1, NoSnapAssumption DEF Serving
  <2>. QED BY <1>0, <1>m, <2>1, <2>2, ServesOn DEF NothingPlanned
<1>1. CASE InstallRoute
  <2>. DEFINE d == Head(plan).dest
              via == IF d \in Capture THEN snap.iface ELSE snap.gw
  <2>1. /\ pc = "apply" /\ plan # <<>> /\ pc' = "record" /\ plan' = Tail(plan)
        /\ UNCHANGED holders /\ table' = [table EXCEPT ![d] = via]
        /\ \E r : snap' = [snap EXCEPT !.installed = Append(snap.installed, r)]
    BY <1>1 DEF InstallRoute
  <2>2. snap' \in Snapshot
    BY <1>1, <2>1, ShapeApply DEF Apply, Shape, WorkOK, BusyHasSnap, Working
  <2>3. snap'.iface = snap.iface /\ snap'.gw = snap.gw /\ snap'.pending = snap.pending
    BY <1>0, <2>1 DEF Snapshot, Preparing
  <2>4. Serving = snap /\ Serving # NoSnap /\ Serving' = snap' /\ Serving' # NoSnap
    BY <1>0, <2>1, <2>2, NoSnapAssumption DEF Serving, Preparing
  <2>5. /\ Len(plan) \in Nat /\ Len(plan) > 0 /\ Len(plan') = Len(plan) - 1
        /\ \A i \in 1 .. Len(plan) - 1 : plan'[i] = plan[i + 1]
        /\ plan[1] = Head(plan) /\ d \in Dest
    <3>1. Head(plan) \in PlanRec BY <1>p, <2>1, HeadTailProperties
    <3>2. Len(plan) \in Nat /\ Len(plan) # 0 BY <1>p, <2>1, EmptySeq
    <3>. QED BY <1>p, <2>1, <3>1, <3>2, HeadTailProperties DEF PlanRec
  <2>6. table \in [Dest -> Via] /\ snap \in Snapshot
        /\ snap.iface \in Tun /\ snap.gw \in Gateway
    BY <1>0, <2>1 DEF Shape, SystemOK, Preparing, Snapshot
  <2>. HIDE DEF d
  <2>7. via \in Via /\ Live(holders, via)
    <3>1. "helper" \in holders[snap.iface] BY <2>4 DEF RoutesOK, Held
    <3>. QED BY <2>6, <3>1, ViasAssumption DEF Via, Live
  <2>8. LiveRows'
    <3>. HIDE DEF via
    <3>. QED BY <2>1, <2>5, <2>7, RowLive DEF RoutesOK
  <2>9. Held' /\ PendingAreCaptures' /\ NothingPlanned'
    BY <2>1, <2>3, <2>4 DEF RoutesOK, Held, PendingAreCaptures, NothingPlanned
  <2>10. CapturesLast'
    <3>. SUFFICES ASSUME NEW i \in 1 .. Len(plan'), NEW j \in 1 .. Len(plan'),
                         i < j, plan'[i].dest \in Capture
                  PROVE  plan'[j].dest \in Capture
      BY DEF CapturesLast
    <3>1. i + 1 \in 1 .. Len(plan) /\ j + 1 \in 1 .. Len(plan) /\ i + 1 < j + 1
      BY <2>5
    <3>. QED BY <2>5, <3>1 DEF RoutesOK, CapturesLast
  <2>11. d \in Capture => Captures(plan)'
    <3>. SUFFICES ASSUME d \in Capture, NEW i \in 1 .. Len(plan')
                  PROVE  plan'[i].dest \in Capture
      BY DEF Captures
    <3>1. i + 1 \in 1 .. Len(plan) /\ 1 \in 1 .. Len(plan) /\ 1 < i + 1 BY <2>5
    <3>2. plan[1].dest \in Capture BY <2>5 DEF d
    <3>. QED BY <2>5, <3>1, <3>2 DEF RoutesOK, CapturesLast
  <2>12. CapturedAfter'
    <3>1. CASE d \in Capture BY <2>11, <3>1 DEF CapturedAfter
    <3>2. CASE d \notin Capture
      <4>1. \A c \in Capture : table'[c] = table[c]
        BY <2>1, <2>6, <3>2, KeysAssumption
      <4>2. ~ \E c \in Capture : table[c] = snap.iface
        <5>1. 1 \in 1 .. Len(plan) /\ plan[1].dest \notin Capture
          BY <2>5, <3>2 DEF d
        <5>. QED BY <2>4, <5>1 DEF RoutesOK, CapturedAfter, Captures
      <4>. QED BY <2>3, <2>4, <4>1, <4>2 DEF CapturedAfter
    <3>. QED BY <3>1, <3>2
  <2>13. BypassedOrPlanned'
    <3>. SUFFICES ASSUME NEW k \in CriticalKeys
                  PROVE  table'[k] = snap.gw \/ Planned(k)'
      BY <2>3, <2>4 DEF BypassedOrPlanned
    <3>0. k \in Dest /\ k \notin Capture BY CriticalKey
    <3>1. CASE k = d BY <2>1, <2>6, <3>0, <3>1
    <3>2. CASE k # d
      <4>1. table'[k] = table[k] BY <2>1, <2>6, <3>0, <3>2
      <4>2. CASE Planned(k)
        <5>1. PICK i \in 1 .. Len(plan) : plan[i].dest = k /\ plan[i].critical
          BY <4>2 DEF Planned
        <5>2. i # 1 BY <2>5, <3>2, <5>1 DEF d
        <5>3. i - 1 \in 1 .. Len(plan') /\ plan'[i - 1] = plan[i] BY <2>5, <5>2
        <5>. QED BY <5>1, <5>3 DEF Planned
      <4>. QED BY <2>4, <4>1, <4>2 DEF RoutesOK, BypassedOrPlanned
    <3>. QED BY <3>1, <3>2
  <2>. QED
    BY <2>8, <2>9, <2>10, <2>12, <2>13 DEF RoutesOK
<1>2. CASE RouteFails
  <2>1. CASE Abort BY <1>2, <1>a, <2>1 DEF RouteFails
  <2>2. CASE ~Abort
    <3>1. /\ pc = "apply" /\ plan # <<>> /\ ~Head(plan).critical /\ plan' = Tail(plan)
          /\ UNCHANGED <<table, holders, snap, mem, pc>>
      BY <1>2, <2>2 DEF RouteFails, system
    <3>2. /\ Len(plan) \in Nat /\ Len(plan) > 0 /\ Len(plan') = Len(plan) - 1
          /\ \A i \in 1 .. Len(plan) - 1 : plan'[i] = plan[i + 1]
          /\ plan[1] = Head(plan)
      <4>1. Len(plan) \in Nat /\ Len(plan) # 0 BY <1>p, <3>1, EmptySeq
      <4>. QED BY <1>p, <3>1, <4>1, HeadTailProperties
    <3>3. Serving' = Serving BY <3>1 DEF Serving
    <3>4. LiveRows' BY <3>1, LiveKept
    <3>5. CapturesLast'
      <4>. SUFFICES ASSUME NEW i \in 1 .. Len(plan'), NEW j \in 1 .. Len(plan'),
                           i < j, plan'[i].dest \in Capture
                    PROVE  plan'[j].dest \in Capture
        BY DEF CapturesLast
      <4>1. i + 1 \in 1 .. Len(plan) /\ j + 1 \in 1 .. Len(plan) /\ i + 1 < j + 1
        BY <3>2
      <4>. QED BY <3>2, <4>1 DEF RoutesOK, CapturesLast
    <3>6. Captures(plan) => Captures(plan)'
      <4>. SUFFICES ASSUME Captures(plan), NEW i \in 1 .. Len(plan')
                    PROVE  plan'[i].dest \in Capture
        BY DEF Captures
      <4>1. i + 1 \in 1 .. Len(plan) BY <3>2
      <4>. QED BY <3>2, <4>1 DEF Captures
    <3>7. CapturedAfter' BY <3>1, <3>3, <3>6 DEF RoutesOK, CapturedAfter
    <3>8. ASSUME NEW k, Planned(k) PROVE Planned(k)'
      <4>1. PICK i \in 1 .. Len(plan) : plan[i].dest = k /\ plan[i].critical
        BY <3>8 DEF Planned
      <4>2. i # 1 BY <3>1, <3>2, <4>1
      <4>3. i - 1 \in 1 .. Len(plan') /\ plan'[i - 1] = plan[i] BY <3>2, <4>2
      <4>. QED BY <4>1, <4>3 DEF Planned
    <3>9. BypassedOrPlanned' BY <3>1, <3>3, <3>8 DEF RoutesOK, BypassedOrPlanned
    <3>10. Held' /\ PendingAreCaptures' /\ NothingPlanned'
      BY <3>1, <3>3
         DEF RoutesOK, Held, PendingAreCaptures, Captures, NothingPlanned
    <3>. QED BY <3>4, <3>5, <3>7, <3>9, <3>10 DEF RoutesOK
  <2>. QED BY <2>1, <2>2
<1>3. CASE SaveRoute
  BY <1>0, <1>3, <1>c DEF SaveRoute, Preparing, system
<1>4. CASE SaveRouteFails \/ ConfigureFails \/ SetDnsFails
  BY <1>4, <1>a DEF SaveRouteFails, ConfigureFails, SetDnsFails
<1>d. ASSUME DeferTurn, Len(snap.pending) < Len(CapturePlan)
      PROVE  /\ Deferred \in Snapshot /\ Deferred.iface = snap.iface
             /\ Deferred.gw = snap.gw /\ Captures(Deferred.pending)
  <2>. DEFINE n == Len(snap.pending)
              r == [dest |-> CapturePlan[n + 1].dest, via |-> snap.iface,
                    replaced |-> NoRoute]
  <2>1. /\ snap \in Snapshot /\ Captures(snap.pending) /\ Deferred \in Snapshot
    BY <1>0, <1>d, DeferredType DEF DeferTurn, Preparing
  <2>2. snap.pending \in Seq(RouteRec) /\ n \in Nat BY <2>1 DEF Snapshot
  <2>3. Deferred = [snap EXCEPT !.pending = Append(snap.pending, r)]
    BY DEF Deferred
  <2>4. r.dest \in Capture
    <3>1. CapturePlan \in Seq([dest : Capture, critical : {TRUE}]) BY PlanAssumption
    <3>2. n + 1 \in 1 .. Len(CapturePlan) BY <1>d, <2>2, <3>1
    <3>3. CapturePlan[n + 1] \in [dest : Capture, critical : {TRUE}]
      BY <3>1, <3>2, ElementOfSeq
    <3>. QED BY <3>3
  <2>. HIDE DEF r
  <2>5. /\ Deferred.iface = snap.iface /\ Deferred.gw = snap.gw
        /\ Deferred.pending = Append(snap.pending, r)
    BY <2>1, <2>3 DEF Snapshot
  <2>6. /\ Len(Append(snap.pending, r)) = n + 1
        /\ Append(snap.pending, r)[n + 1] = r
        /\ \A i \in 1 .. n : Append(snap.pending, r)[i] = snap.pending[i]
    BY <2>2
  <2>. QED BY <2>1, <2>2, <2>4, <2>5, <2>6 DEF Captures
<1>5. CASE DeferRoute
  BY <1>5, <1>c, <1>d DEF DeferRoute, DeferTurn, Preparing, system
<1>6. CASE DeferRouteFails
  BY <1>6, LiveKept, RollbackRoutes DEF DeferRouteFails, system
<1>7. CASE Prepared
  BY <1>0, <1>7, <1>m DEF Prepared, DeferTurn, Preparing, system
<1>b. ASSUME pc = "apply" PROVE /\ BackedUp.iface = snap.iface /\ BackedUp.gw = snap.gw
                                /\ BackedUp.pending = snap.pending
  BY <1>0, <1>b DEF BackedUp, Preparing, Snapshot
<1>8. CASE BackupDns
  <2>1. /\ pc = "apply" /\ pc' = "setdns" /\ snap' = BackedUp
        /\ UNCHANGED <<table, holders, plan>>
    BY <1>8 DEF BackupDns, DnsTurn, system
  <2>2. snap' \in Snapshot
    BY <1>8, <2>1, ShapeApply DEF Apply, Shape, WorkOK, BusyHasSnap, Working
  <2>. QED BY <1>0, <1>b, <1>c, <2>1, <2>2 DEF Preparing
<1>9. CASE BackupDnsFails
  BY <1>9, LiveKept, RollbackRoutes DEF BackupDnsFails, system
<1>10. CASE SetDns
  BY <1>0, <1>10, <1>c DEF SetDns, Preparing
<1>11. CASE MarkUp
  <2>1. /\ pc = "apply" /\ plan = <<>> /\ Idle /\ mem' = [snap EXCEPT !.state = "Up"]
        /\ UNCHANGED <<table, holders>>
    BY <1>11 DEF MarkUp, DnsTurn, system
  <2>2. mem' \in Snapshot /\ mem'.iface = snap.iface /\ mem'.gw = snap.gw
        /\ mem'.pending = snap.pending
    BY <1>0, <2>1 DEF Preparing, Snapshot
  <2>. QED BY <1>m, <2>1, <2>2 DEF Preparing
<1>12. CASE MarkUpFails
  <2>1. CASE Abort /\ UNCHANGED system BY <1>a, <2>1
  <2>2. CASE CloseHelper({snap.iface}) /\ Idle /\ mem' = NoSnap
    BY <2>2, SweptLive, IdleRoutes DEF CloseHelper
  <2>. QED BY <1>12, <2>1, <2>2 DEF MarkUpFails
<1>13. CASE SaveAnchors \/ SaveAnchorsFails
  <2>1. pc = "anchorsave" /\ Idle /\ mem' = snap /\ UNCHANGED <<table, holders>>
    BY <1>13 DEF SaveAnchors, SaveAnchorsFails, system
  <2>2. plan = <<>> BY <2>1 DEF RoutesOK, NothingPlanned
  <2>. QED BY <1>0, <1>m, <2>1, <2>2 DEF Preparing
<1>. QED
  BY <1>1, <1>2, <1>3, <1>4, <1>5, <1>6, <1>7, <1>8, <1>9, <1>10, <1>11, <1>12,
     <1>13 DEF Apply

LEMMA RoutesUndo == Shape /\ DnsOK /\ RoutesOK /\ Undo => RoutesOK'
<1>. SUFFICES ASSUME Shape, DnsOK, RoutesOK, Undo PROVE RoutesOK'
  OBVIOUS
<1>g. pc \in Closing => mem = NoSnap BY DEF DnsOK, SessionGone
<1>0. pc \in Closing => Serving = NoSnap BY DEF Closing, Serving
<1>t. table \in [Dest -> Via] BY DEF Shape, SystemOK
(* A step of the rollback that leaves the plan alone. *)
<1>u. ASSUME pc \in Closing, pc' \in Closing, LiveRows', plan' = plan PROVE RoutesOK'
  <2>1. Serving' = NoSnap BY <1>u DEF Closing, Serving
  <2>. QED
    BY <1>u, <2>1
       DEF RoutesOK, Held, PendingAreCaptures, NothingPlanned, BypassedOrPlanned,
           CapturesLast, CapturedAfter, Closing
<1>q. ASSUME pc \in Closing, pc' \in Closing, UNCHANGED <<table, holders, plan>>
      PROVE  RoutesOK'
  BY <1>q, <1>u, LiveKept
<1>1. CASE UndoAnchors \/ UndoDns \/ SkipChecks \/ CheckDns \/ Clear \/ EndBoot
  BY <1>1, <1>q DEF UndoAnchors, UndoDns, SkipChecks, CheckDns, Clear, EndBoot,
                    Closing, system
<1>r. ASSUME pc = "undo" \/ pc = "restore", left \in 1 .. Len(Routes(snap))
      PROVE  Routes(snap)[left] \in RouteRec
  <2>1. snap \in Snapshot
    BY <1>r DEF Shape, WorkOK, BusyHasSnap, Working
  <2>. QED BY <1>r, <2>1, RoutesType, ElementOfSeq
<1>2. CASE DeleteRoute
  <2>. DEFINE r == Routes(snap)[left]
  <2>1. /\ pc = "undo" /\ pc' \in {"undo", "restore"} /\ plan' = plan /\ holders' = holders
        /\ r \in RouteRec
        /\ table' = Delete(table, r.dest, r.via) \/ table' = table
    BY <1>2, <1>r DEF DeleteRoute
  <2>. HIDE DEF r
  <2>2. r.dest \in Dest /\ NoRoute \in Via /\ Live(holders, NoRoute)
    BY <2>1, ViasAssumption DEF RouteRec, Via, Live
  <2>3. table' = [table EXCEPT ![r.dest] = NoRoute] \/ table' = table
    BY <2>1 DEF Delete
  <2>4. LiveRows' BY <2>1, <2>2, <2>3, RowLive, LiveKept DEF RoutesOK
  <2>. QED BY <1>u, <2>1, <2>4 DEF Closing
<1>3. CASE RestoreRoute
  <2>. DEFINE r == Routes(snap)[left]
  <2>1. pc = "restore" /\ pc' = "undo" /\ plan' = plan /\ holders' = holders
    BY <1>3 DEF RestoreRoute
  <2>2. r \in RouteRec BY <1>r, <2>1 DEF Shape, WorkOK, LeftBounded
  <2>3. \/ /\ Live(holders, r.replaced)
           /\ table' = [table EXCEPT ![PrefixRow(r.dest)] = r.replaced]
        \/ table' = table
    BY <1>3 DEF RestoreRoute
  <2>. HIDE DEF r
  <2>4. PrefixRow(r.dest) \in Dest /\ r.replaced \in Via
    BY <2>2, KeysAssumption DEF PrefixRow, RouteRec
  <2>5. LiveRows' BY <2>1, <2>3, <2>4, RowLive, LiveKept DEF RoutesOK
  <2>. QED BY <1>u, <2>1, <2>5 DEF Closing
<1>4. CASE CheckRoutes
  <2>1. /\ pc = "undo" /\ pc' = "verify" /\ plan' = plan /\ holders' = holders
        /\ table' = [table EXCEPT ![Default] = snap.gw] \/ table' = table
    BY <1>4 DEF CheckRoutes
  <2>2. snap.gw \in Gateway
    BY <2>1 DEF Shape, WorkOK, BusyHasSnap, Working, Snapshot
  <2>3. Default \in Dest /\ snap.gw \in Via /\ Live(holders, snap.gw)
    BY <2>2, KeysAssumption, ViasAssumption DEF Via, Live
  <2>4. LiveRows' BY <2>1, <2>3, RowLive, LiveKept DEF RoutesOK
  <2>. QED BY <1>u, <2>1, <2>4 DEF Closing
<1>5. CASE EndSession \/ EndCommit
  <2>1. /\ pc = "done" /\ Idle /\ mem' = mem
        /\ CloseHelper({snap.iface}) \/ UNCHANGED <<table, holders>>
    BY <1>5 DEF EndSession, EndCommit, system
  <2>2. LiveRows' BY <2>1, SweptLive, LiveKept DEF CloseHelper
  <2>. QED BY <1>g, <2>1, <2>2, IdleRoutes DEF Closing
<1>6. CASE EndRestore
  <2>1. /\ pc = "done" /\ mem' = mem /\ CloseHelper({snap.iface})
        /\ Idle \/ Rollback(disk)
    BY <1>6 DEF EndRestore
  <2>2. LiveRows' BY <2>1, SweptLive DEF CloseHelper
  <2>. QED BY <1>g, <2>1, <2>2, IdleRoutes, RollbackRoutes DEF Closing
<1>7. CASE EndTerm
  BY <1>7, ExitRoutes DEF EndTerm
<1>. QED BY <1>1, <1>2, <1>3, <1>4, <1>5, <1>6, <1>7 DEF Undo

LEMMA RoutesRecover == Shape /\ DnsOK /\ RoutesOK /\ Recover => RoutesOK'
<1>. SUFFICES ASSUME Shape, DnsOK, RoutesOK, Recover PROVE RoutesOK'
  OBVIOUS
<1>g. pc \in Closing => mem = NoSnap BY DEF DnsOK, SessionGone
<1>1. pc \in Closing /\ UNCHANGED <<table, holders, mem>>
  BY DEF Recover, Boot, BootAnchors, SaveBootAnchors, LeaveRunning, RollbackStale,
         Reconcile, Closing, system
<1>2. CASE Boot \/ BootAnchors \/ SaveBootAnchors
  <2>1. pc' \in Closing /\ plan' = plan
    BY <1>2 DEF Boot, BootAnchors, SaveBootAnchors, Closing
  <2>2. Serving' = NoSnap BY <2>1 DEF Closing, Serving
  <2>3. LiveRows' BY <1>1, LiveKept
  <2>. QED
    BY <2>1, <2>2, <2>3
       DEF RoutesOK, Held, PendingAreCaptures, NothingPlanned, BypassedOrPlanned,
           CapturesLast, CapturedAfter, Closing
<1>3. CASE LeaveRunning \/ Reconcile
  BY <1>1, <1>3, <1>g, LiveKept, IdleRoutes DEF LeaveRunning, Reconcile
<1>4. CASE RollbackStale
  BY <1>1, <1>4, LiveKept, RollbackRoutes DEF RollbackStale
<1>. QED BY <1>2, <1>3, <1>4 DEF Recover

LEMMA RoutesEnvironment == Shape /\ DnsOK /\ RoutesOK /\ Environment => RoutesOK'
<1>. SUFFICES ASSUME Shape, DnsOK, RoutesOK, Environment PROVE RoutesOK'
  OBVIOUS
<1>t. table \in [Dest -> Via] /\ holders \in [Tun -> SUBSET Holder]
  BY DEF Shape, SystemOK
<1>s. Serving # NoSnap =>
        Serving \in Snapshot /\ Serving.iface \in Tun /\ Serving.gw \in Gateway
  BY DEF Serving, Shape, StoreOK, WorkOK, BusyHasSnap, Working, Snapshot
<1>k. \A d \in CriticalKeys : d \in Dest /\ d # Default BY CriticalKey
<1>1. CASE Crash
  BY <1>1, ExitRoutes DEF Crash
(* The routes of the session that may go are captures. *)
<1>e. ASSUME UNCHANGED <<mem, work>>, LiveRows',
             "helper" \in holders[Serving.iface] => "helper" \in holders'[Serving.iface],
             \A d \in CriticalKeys : table[d] \in Gateway => table'[d] = table[d],
             \A c \in Capture : table'[c] \in {table[c], NoRoute}
      PROVE  RoutesOK'
  <2>1. Serving' = Serving /\ UNCHANGED <<pc, plan>> BY <1>e DEF Serving, work
  <2>2. Held' /\ PendingAreCaptures' /\ NothingPlanned' /\ CapturesLast'
    BY <1>e, <2>1
       DEF RoutesOK, Held, PendingAreCaptures, Captures, NothingPlanned, CapturesLast
  <2>3. BypassedOrPlanned'
    BY <1>e, <1>s, <2>1 DEF RoutesOK, BypassedOrPlanned, Planned
  <2>4. CapturedAfter'
    BY <1>e, <1>s, <2>1, ViasAssumption DEF RoutesOK, CapturedAfter, Captures
  <2>. QED BY <1>e, <2>2, <2>3, <2>4 DEF RoutesOK
<1>2. CASE AppExit
  <2>1. /\ holders' = Close(holders, "app", Tun) /\ table' = Sweep(table, holders')
        /\ UNCHANGED <<mem, work>>
    BY <1>2 DEF AppExit
  <2>2. LiveRows' BY <2>1, SweptLive
  <2>3. \A t \in Tun : "helper" \in holders[t] => "helper" \in holders'[t]
    BY <2>1, <1>t DEF Close
  <2>4. \A d \in Dest : table'[d] \in {table[d], NoRoute}
                        /\ (table[d] \in Gateway => table'[d] = table[d])
    BY <2>1, ViasAssumption DEF Sweep, Live
  <2>5. Serving # NoSnap => "helper" \in holders'[Serving.iface]
    BY <1>s, <2>3 DEF RoutesOK, Held
  <2>6. CASE Serving # NoSnap
    BY <1>e, <1>k, <2>1, <2>2, <2>4, <2>5, <2>6, KeysAssumption
  <2>7. CASE Serving = NoSnap
    <3>1. Serving' = NoSnap /\ UNCHANGED <<pc, plan>> BY <2>1, <2>7 DEF Serving, work
    <3>. QED
      BY <2>2, <3>1
         DEF RoutesOK, Held, PendingAreCaptures, NothingPlanned, BypassedOrPlanned,
             CapturesLast, CapturedAfter
  <2>. QED BY <2>6, <2>7
<1>3. ASSUME NEW v \in Gateway \cup {NoRoute}, NetworkSwitch(v) PROVE RoutesOK'
  <2>1. /\ table' = [table EXCEPT ![Default] = v] /\ holders' = holders
        /\ UNCHANGED <<mem, work>>
    BY <1>3 DEF NetworkSwitch
  <2>2. Default \in Dest /\ v \in Via /\ Live(holders, v)
    BY KeysAssumption, ViasAssumption DEF Via, Live
  <2>3. LiveRows' BY <2>1, <2>2, RowLive DEF RoutesOK
  <2>4. \A d \in Dest : d # Default => table'[d] = table[d] BY <1>t, <2>1
  <2>5. \A c \in Capture : c \in Dest /\ c # Default BY KeysAssumption
  <2>. QED BY <1>e, <1>k, <2>1, <2>3, <2>4, <2>5
<1>. QED BY <1>1, <1>2, <1>3 DEF Environment

LEMMA RoutesNext == Shape /\ DnsOK /\ RoutesOK /\ [Next]_vars => RoutesOK'
<1>1. RoutesOK /\ UNCHANGED vars => RoutesOK'
  BY DEF vars, system, work, RoutesOK, LiveRows, Live, Held, PendingAreCaptures,
         Captures, NothingPlanned, BypassedOrPlanned, Planned, CapturesLast,
         CapturedAfter, Serving
<1>. QED
  BY <1>1, RoutesRequest, RoutesApply, RoutesUndo, RoutesRecover, RoutesEnvironment
     DEF Next

(* Whatever fails on the way, is skipped, is cut off by a crash or happens *)
(* to the network: a session that has taken over the default route has a   *)
(* route around the tunnel to each of its proxy servers.                   *)
THEOREM NeverLoops == Spec => []NoRoutingLoop
<1>1. Shape /\ RoutesOK => NoRoutingLoop
  <2>. SUFFICES ASSUME Shape, RoutesOK, Serving # NoSnap, NEW c \in Capture,
                       NEW d \in CriticalKeys, table[c] = Serving.iface
                PROVE  table[d] = Serving.gw
    BY DEF NoRoutingLoop
  <2>1. Captures(plan) BY DEF RoutesOK, CapturedAfter
  <2>2. d \notin Capture BY CriticalKey
  <2>3. ~Planned(d) BY <2>1, <2>2 DEF Captures, Planned
  <2>. QED BY <2>3 DEF RoutesOK, BypassedOrPlanned
<1>. QED BY <1>1, RoutesInit, RoutesNext, Invariance, PTL DEF Spec

------------------------------------------------------------------------------
(* The root certificates.  The file alone does not carry AnchorsRecorded:  *)
(* a rollback clears it, and the next session copies from it, on the       *)
(* strength of the snapshot a handler works on.                            *)

Owed == trusted \ (InitTrusted \cup lost \cup added)

(* What the helper would write, or roll back, next.                        *)
Current == IF pc = "idle" THEN mem ELSE snap

Carrying == Preparing \cup {"idle", "anchors", "bootanchors", "bootsave", "probe"}

InFile == Owed \subseteq Ours(Anchors(disk))

InHand == pc \in Carrying /\ Current # NoSnap => Owed \subseteq Ours(Current.anchors)

(* A rollback that has reported no failure owes nothing any more.          *)
PaidBack == pc \in {"undo", "restore", "verify"} /\ ok => Owed = {}

(* Only an install adds, and what it adds is on the snapshot it will save. *)
AddedOnce ==
    IF pc = "anchorsave" THEN added \subseteq Ours(snap.anchors) ELSE added = {}

AnchorsOK ==
    /\ used["silent"] = 0 => InFile /\ InHand /\ PaidBack
    /\ AddedOnce

(* A step that owes nothing new, keeps the file's anchors and the anchors   *)
(* in hand.                                                                *)
LEMMA OwesNoMore ==
    ASSUME AnchorsOK, used["silent"] = 0, Owed' \subseteq Owed,
           Ours(Anchors(disk)) \cap Owed' \subseteq Ours(Anchors(disk'))
    PROVE  InFile'
  BY DEF AnchorsOK, InFile

(* No step takes an event back, or forgets that a record was dropped.      *)
LEMMA CountsGrow ==
    ASSUME Shape, [Next]_vars, NEW b \in Bounded, used'[b] = 0
    PROVE  used[b] = 0 /\ ~Spend(b)
<1>0. used \in [Bounded -> Nat] BY DEF Shape, StoreOK
<1>1. ASSUME NEW k \in Bounded, Spend(k)
      PROVE  used'[b] >= used[b] /\ (k = b => used'[b] > 0)
  BY <1>0, <1>1, SMT DEF Spend
<1>2. used' = used \/ \E k \in Bounded : Spend(k)
  <2>1. CASE Request
    BY <2>1 DEF Request, TunUp, CommitRoutes, TakeTunFd, TunDown, Restore, Sigterm,
                InstallAnchor, RemoveAnchor, Bounded
  <2>2. CASE Apply
    BY <2>2 DEF Apply, InstallRoute, RouteFails, SaveRoute, SaveRouteFails,
                ConfigureFails, DeferRoute, DeferRouteFails, Prepared, BackupDns,
                BackupDnsFails, SetDns, SetDnsFails, MarkUp, MarkUpFails, SaveAnchors,
                SaveAnchorsFails, Fault, Silent, Bounded
  <2>3. CASE Undo
    BY <2>3 DEF Undo, UndoAnchors, UndoDns, DeleteRoute, RestoreRoute, SkipChecks,
                CheckRoutes, CheckDns, Clear, EndSession, EndCommit, EndRestore,
                EndBoot, EndTerm, Missed, Fault, Silent, Bounded
  <2>4. CASE Recover
    BY <2>4 DEF Recover, Boot, BootAnchors, SaveBootAnchors, LeaveRunning,
                RollbackStale, Reconcile, Fault, Bounded
  <2>5. CASE Environment
    BY <2>5 DEF Environment, Crash, AppExit, NetworkSwitch, Bounded
  <2>6. CASE UNCHANGED vars BY <2>6 DEF vars
  <2>. QED BY <2>1, <2>2, <2>3, <2>4, <2>5, <2>6 DEF Next
<1>3. used[b] \in Nat BY <1>0
<1>. QED BY <1>1, <1>2, <1>3

LEMMA SilentGrows ==
    ASSUME Shape, [Next]_vars, used'["silent"] = 0
    PROVE  used["silent"] = 0 /\ ~Silent
  BY CountsGrow DEF Silent, Bounded

LEMMA OursGrows ==
    ASSUME NEW S, NEW T, S \subseteq T PROVE Ours(S) \subseteq Ours(T)
  BY DEF Ours

LEMMA AnchorsOf ==
    ASSUME NEW s \in Snapshot PROVE Anchors(s) = s.anchors /\ s # NoSnap
  BY NoSnapAssumption DEF Anchors

(* Most steps hand the same anchors on, from the file or from the handler. *)
LEMMA HandOn ==
    ASSUME AnchorsOK, used'["silent"] = 0 => used["silent"] = 0,
           UNCHANGED <<trusted, added>>, lost \subseteq lost', AddedOnce',
           \/ Anchors(disk') = Anchors(disk)
           \/ pc \in Carrying /\ Current # NoSnap /\ Anchors(disk') = Current.anchors,
           pc' \in Carrying /\ Current' # NoSnap =>
             \/ Current'.anchors = Anchors(disk)
             \/ pc \in Carrying /\ Current # NoSnap /\ Current'.anchors = Current.anchors,
           pc' \in {"undo", "restore", "verify"} /\ ok' =>
             pc \in {"undo", "restore", "verify"} /\ ok
    PROVE  AnchorsOK'
<1>. SUFFICES ASSUME used'["silent"] = 0 PROVE InFile' /\ InHand' /\ PaidBack'
  BY DEF AnchorsOK
<1>1. InFile /\ InHand /\ PaidBack BY DEF AnchorsOK
<1>2. Owed' \subseteq Owed BY DEF Owed
<1>3. InFile' BY <1>1, <1>2 DEF InFile, InHand
<1>4. InHand' BY <1>1, <1>2 DEF InFile, InHand
<1>5. PaidBack' BY <1>1, <1>2 DEF PaidBack
<1>. QED BY <1>3, <1>4, <1>5

(* A rollback begins with the anchors of the file or those in hand.        *)
LEMMA RollbackAnchors ==
    ASSUME AnchorsOK, used'["silent"] = 0 => used["silent"] = 0,
           pc # "anchorsave", NEW s \in Snapshot, Rollback(s),
           UNCHANGED <<trusted, disk>>, lost \subseteq lost',
           \/ s.anchors = Anchors(disk)
           \/ pc \in Carrying /\ Current # NoSnap /\ s.anchors = Current.anchors
    PROVE  AnchorsOK'
<1>1. pc' = "anchors" /\ snap' = s /\ added' = added BY DEF Rollback
<1>2. Current' = s BY <1>1 DEF Current
<1>3. AddedOnce' BY <1>1 DEF AnchorsOK, AddedOnce
<1>. QED BY <1>1, <1>2, <1>3, HandOn DEF Carrying

(* A handler that ends leaves its session, or none.                        *)
LEMMA IdleAnchors ==
    ASSUME AnchorsOK, used'["silent"] = 0 => used["silent"] = 0,
           pc # "anchorsave", Idle, trusted' = trusted, lost \subseteq lost',
           \/ Anchors(disk') = Anchors(disk)
           \/ pc \in Carrying /\ Current # NoSnap /\ Anchors(disk') = Current.anchors,
           \/ mem' = NoSnap
           \/ pc \in Carrying /\ Current # NoSnap /\ mem'.anchors = Current.anchors
    PROVE  AnchorsOK'
<1>1. pc' = "idle" /\ added' = {} BY DEF Idle
<1>2. Current' = mem' BY <1>1 DEF Current
<1>3. added = {} BY DEF AnchorsOK, AddedOnce
<1>4. AddedOnce' BY <1>1 DEF AddedOnce
<1>. QED BY <1>1, <1>2, <1>3, <1>4, HandOn

(* What the helper has not written down when it exits counts as lost.      *)
LEMMA ExitAnchors ==
    ASSUME AnchorsOK, used'["silent"] = 0 => used["silent"] = 0,
           Exit, lost \cup added \subseteq lost'
    PROVE  AnchorsOK'
<1>1. /\ pc' = "down" /\ added' = {} /\ UNCHANGED <<disk, trusted>>
  BY DEF Exit
<1>2. Owed' \subseteq Owed BY <1>1 DEF Owed
<1>3. used'["silent"] = 0 => InFile' BY <1>1, <1>2, OwesNoMore
<1>. QED
  BY <1>1, <1>3 DEF AnchorsOK, InHand, PaidBack, AddedOnce, Carrying, Preparing

LEMMA AnchorsInit == Init => AnchorsOK
  BY DEF Init, AnchorsOK, InFile, InHand, PaidBack, AddedOnce, Owed, Current

LEMMA AnchorsRequest ==
    Shape /\ DnsOK /\ AnchorsOK /\ Request => AnchorsOK'
<1>. SUFFICES ASSUME Shape, DnsOK, AnchorsOK, Request PROVE AnchorsOK'
  OBVIOUS
<1>u. used'["silent"] = 0 => used["silent"] = 0
  BY SilentGrows DEF Next
<1>0. /\ pc = "idle" => Current = mem /\ added = {}
      /\ mem # NoSnap => mem \in Snapshot
      /\ disk # NoSnap => disk \in Snapshot
  BY DEF Current, AnchorsOK, AddedOnce, Shape, StoreOK
<1>1. ASSUME NEW t \in Tun, NEW defer \in DeferModes, TunUp(t, defer)
      PROVE  AnchorsOK'
  <2>1. /\ pc = "idle" /\ pc' = "apply" /\ snap' = NewSnapshot(t) /\ disk' = snap'
        /\ UNCHANGED <<trusted, added>> /\ lost \subseteq lost'
        /\ table[Default] \in Gateway
    BY <1>1 DEF TunUp
  <2>2. snap' \in Snapshot /\ snap'.anchors = Anchors(disk)
    BY <2>1, NewSnapshotType DEF NewSnapshot, Shape, StoreOK
  <2>3. Anchors(disk') = Anchors(disk)
    BY <2>1, <2>2, NoSnapAssumption DEF Anchors
  <2>4. Current' = snap' BY <2>1 DEF Current
  <2>5. AddedOnce' BY <1>0, <2>1 DEF AddedOnce
  <2>. QED BY <1>u, <2>1, <2>2, <2>3, <2>4, <2>5, HandOn
<1>2. CASE CommitRoutes
  <2>1. /\ pc = "idle" /\ mem # NoSnap /\ pc' = "apply"
        /\ snap' = [mem EXCEPT !.pending = <<>>]
        /\ UNCHANGED <<trusted, added, lost, disk>>
    BY <1>2 DEF CommitRoutes, system
  <2>2. snap'.anchors = mem.anchors BY <1>0, <2>1 DEF Snapshot
  <2>3. Current' = snap' BY <2>1 DEF Current
  <2>4. AddedOnce' BY <1>0, <2>1 DEF AddedOnce
  <2>. QED BY <1>0, <1>u, <2>1, <2>2, <2>3, <2>4, HandOn DEF Carrying
<1>3. CASE TakeTunFd
  <2>1. pc = "idle" /\ UNCHANGED <<trusted, added, lost, disk, mem, pc, snap, ok>>
    BY <1>3 DEF TakeTunFd, work
  <2>. QED
    BY <1>u, <2>1, HandOn DEF AnchorsOK, AddedOnce, Current, Carrying
<1>4. CASE TunDown \/ Restore \/ (Sigterm /\ ~Exit)
  <2>1. /\ pc = "idle" /\ UNCHANGED <<trusted, lost, disk>>
        /\ \/ mem # NoSnap /\ Rollback(mem)
           \/ disk # NoSnap /\ Rollback(disk)
    BY <1>4 DEF TunDown, Restore, Sigterm, system
  <2>. QED
    BY <1>0, <1>u, <2>1, RollbackAnchors, AnchorsOf DEF Carrying
<1>5. CASE Sigterm /\ Exit
  BY <1>0, <1>5, <1>u, ExitAnchors DEF Sigterm
<1>6. ASSUME NEW a \in Anchor, InstallAnchor(a) PROVE AnchorsOK'
  <2>. DEFINE X == mem.anchors \cup {[fp |-> a, existed |-> a \in trusted]}
  <2>1. /\ pc = "idle" /\ mem # NoSnap /\ pc' = "anchorsave"
        /\ snap' = [mem EXCEPT !.anchors = X]
        /\ trusted' = trusted \cup {a} /\ added' = {a} \ trusted
        /\ UNCHANGED <<disk, lost>>
    BY <1>6 DEF InstallAnchor
  <2>2. X \subseteq snap'.anchors /\ mem.anchors \subseteq X
    <3>. HIDE DEF X
    <3>1. snap'.anchors = X BY <1>0, <2>1 DEF Snapshot
    <3>. QED BY <3>1 DEF X
  <2>3. Owed' \subseteq Owed BY <1>0, <2>1 DEF Owed
  <2>4. used'["silent"] = 0 => InFile' BY <1>u, <2>1, <2>3, OwesNoMore
  <2>5. Ours(mem.anchors) \subseteq Ours(snap'.anchors) BY <2>2, OursGrows
  <2>6. Current' = snap' BY <2>1 DEF Current
  <2>7. used'["silent"] = 0 => InHand'
    BY <1>0, <1>u, <2>1, <2>3, <2>5, <2>6 DEF AnchorsOK, InHand, Carrying
  <2>8. added' \subseteq Ours(snap'.anchors)
    <3>1. ASSUME a \notin trusted PROVE a \in Ours(snap'.anchors)
      <4>1. PICK r \in snap'.anchors : r = [fp |-> a, existed |-> a \in trusted]
        BY <2>2
      <4>2. r.fp = a /\ ~r.existed BY <3>1, <4>1
      <4>. QED BY <4>2 DEF Ours
    <3>. QED BY <2>1, <3>1
  <2>. QED BY <2>1, <2>4, <2>7, <2>8 DEF AnchorsOK, PaidBack, AddedOnce
<1>7. ASSUME NEW a \in Anchor, RemoveAnchor(a) PROVE AnchorsOK'
  <2>. DEFINE recs == {r \in mem.anchors : r.fp = a}
              X == mem.anchors \ recs
  <2>1. /\ pc = "idle" /\ mem # NoSnap /\ pc' = "anchorsave"
        /\ snap' = [mem EXCEPT !.anchors = X]
        /\ trusted' = IF recs # {} /\ Ours(recs) = {} THEN trusted ELSE trusted \ {a}
        /\ UNCHANGED <<disk, lost, added>>
    BY <1>7 DEF RemoveAnchor
  <2>2. snap'.anchors = X
    <3>. HIDE DEF X
    <3>. QED BY <1>0, <2>1 DEF Snapshot
  <2>3. Owed' \subseteq Owed BY <2>1 DEF Owed
  <2>4. used'["silent"] = 0 => InFile' BY <1>u, <2>1, <2>3, OwesNoMore
  <2>5. Owed' \cap Ours(mem.anchors) \subseteq Ours(snap'.anchors)
    BY <2>1, <2>2 DEF Ours, Owed
  <2>6. Current' = snap' BY <2>1 DEF Current
  <2>7. used'["silent"] = 0 => InHand'
    BY <1>0, <1>u, <2>1, <2>3, <2>5, <2>6 DEF AnchorsOK, InHand, Carrying
  <2>. QED BY <1>0, <2>1, <2>4, <2>7 DEF AnchorsOK, PaidBack, AddedOnce
<1>. QED BY <1>1, <1>2, <1>3, <1>4, <1>5, <1>6, <1>7 DEF Request

LEMMA AnchorsApply ==
    Shape /\ DnsOK /\ AnchorsOK /\ Apply => AnchorsOK'
<1>. SUFFICES ASSUME Shape, DnsOK, AnchorsOK, Apply PROVE AnchorsOK'
  OBVIOUS
<1>u. used'["silent"] = 0 => used["silent"] = 0
  BY SilentGrows DEF Next
<1>0. /\ pc \in Preparing =>
           pc \in Carrying /\ Current = snap /\ snap \in Snapshot /\ snap # NoSnap
      /\ pc # "anchorsave" => added = {}
  <2>1. pc \in Preparing => pc \in Carrying /\ Current = snap /\ snap \in Snapshot
    BY DEF Preparing, Carrying, Current, Shape, WorkOK, BusyHasSnap, Working
  <2>. QED BY <2>1, NoSnapAssumption DEF AnchorsOK, AddedOnce
(* A step of the same handler; what it saves is what it holds. *)
<1>c. ASSUME pc \in {"apply", "record", "setdns"}, pc' \in {"apply", "record", "setdns"},
             snap' \in Snapshot, snap'.anchors = snap.anchors,
             disk' \in {disk, snap'},
             UNCHANGED <<trusted, added, lost>>
      PROVE  AnchorsOK'
  <2>1. Current' = snap' /\ AddedOnce' BY <1>0, <1>c DEF Current, AddedOnce
  <2>2. Anchors(disk') \in {Anchors(disk), snap.anchors} BY <1>c, AnchorsOf
  <2>. QED BY <1>0, <1>c, <1>u, <2>1, <2>2, HandOn DEF Preparing
<1>r. ASSUME pc \in {"apply", "record", "setdns"}, NEW s \in Snapshot, Rollback(s),
             s.anchors = snap.anchors, UNCHANGED <<trusted, disk, lost>>
      PROVE  AnchorsOK'
  BY <1>0, <1>r, <1>u, RollbackAnchors DEF Preparing
<1>a. ASSUME pc \in {"apply", "record", "setdns"}, Abort, UNCHANGED system PROVE AnchorsOK'
  BY <1>0, <1>a, <1>r DEF Abort, system, Preparing
<1>s. pc \in {"apply", "record"} /\ pc' \in Working => snap' \in Snapshot
  BY ShapeApply DEF Shape, WorkOK, BusyHasSnap
<1>1. CASE InstallRoute
  <2>1. /\ pc = "apply" /\ pc' = "record" /\ UNCHANGED <<trusted, added, lost, disk>>
        /\ \E r : snap' = [snap EXCEPT !.installed = Append(snap.installed, r)]
    BY <1>1 DEF InstallRoute
  <2>2. snap'.anchors = snap.anchors BY <1>0, <2>1 DEF Snapshot, Preparing
  <2>. QED BY <1>c, <1>s, <2>1, <2>2 DEF Working
<1>2. CASE RouteFails
  <2>1. CASE Abort BY <1>2, <1>a, <2>1 DEF RouteFails
  <2>2. CASE ~Abort
    <3>1. /\ pc = "apply" /\ UNCHANGED <<trusted, added, lost, disk, snap, pc>>
      BY <1>2, <2>2 DEF RouteFails, system
    <3>. QED BY <1>0, <1>c, <3>1 DEF Preparing
  <2>. QED BY <2>1, <2>2
<1>3. CASE SaveRoute
  BY <1>0, <1>3, <1>c DEF SaveRoute, system, Preparing
<1>4. CASE SaveRouteFails \/ ConfigureFails \/ SetDnsFails
  BY <1>4, <1>a DEF SaveRouteFails, ConfigureFails, SetDnsFails
<1>d. pc = "apply" => /\ Deferred.anchors = snap.anchors
                      /\ BackedUp.anchors = snap.anchors
  <2>. SUFFICES ASSUME snap \in Snapshot PROVE /\ Deferred.anchors = snap.anchors
                                               /\ BackedUp.anchors = snap.anchors
    BY <1>0 DEF Preparing
  <2>1. ASSUME NEW X, NEW Y PROVE /\ [snap EXCEPT !.pending = X].anchors = snap.anchors
                                  /\ [snap EXCEPT !.dns = Y].anchors = snap.anchors
    BY DEF Snapshot
  <2>. QED BY <2>1 DEF Deferred, BackedUp
<1>5. CASE DeferRoute
  <2>1. Deferred \in Snapshot
    BY <1>0, <1>5, DeferredType DEF DeferRoute, DeferTurn, Preparing
  <2>. QED BY <1>5, <1>c, <1>d, <2>1 DEF DeferRoute, DeferTurn, system
<1>6. CASE DeferRouteFails
  <2>1. Deferred \in Snapshot
    BY <1>0, <1>6, DeferredType DEF DeferRouteFails, DeferTurn, Preparing
  <2>. QED BY <1>6, <1>d, <1>r, <2>1 DEF DeferRouteFails, DeferTurn, system
<1>7. CASE Prepared
  BY <1>0, <1>7, <1>u, IdleAnchors DEF Prepared, DeferTurn, Preparing, system
<1>8. CASE BackupDns
  <2>1. /\ pc = "apply" /\ pc' = "setdns" /\ snap' = BackedUp /\ disk' = snap'
        /\ UNCHANGED <<trusted, added, lost>>
    BY <1>8 DEF BackupDns, DnsTurn, system
  <2>. QED BY <1>c, <1>d, <1>s, <2>1 DEF Working
<1>9. CASE BackupDnsFails
  <2>1. PICK s \in {snap, BackedUp} :
          /\ pc = "apply" /\ Rollback(s) /\ UNCHANGED <<trusted, disk, lost>>
    BY <1>9 DEF BackupDnsFails, DnsTurn, system
  <2>2. s \in Snapshot
    <3>1. pc' = "anchors" /\ snap' = s BY <2>1 DEF Rollback
    <3>. QED BY <1>s, <2>1, <3>1 DEF Working
  <2>. QED BY <1>d, <1>r, <2>1, <2>2
<1>10. CASE SetDns
  BY <1>0, <1>10, <1>c DEF SetDns, Preparing
<1>11. CASE MarkUp
  <2>1. /\ pc = "apply" /\ Idle /\ disk' = [snap EXCEPT !.state = "Up"] /\ mem' = disk'
        /\ UNCHANGED <<trusted, lost>>
    BY <1>11 DEF MarkUp, DnsTurn, system
  <2>2. disk' \in Snapshot /\ disk'.anchors = snap.anchors
    BY <1>0, <2>1 DEF Preparing, Snapshot
  <2>. QED BY <1>0, <1>u, <2>1, <2>2, AnchorsOf, IdleAnchors DEF Preparing
<1>12. CASE MarkUpFails
  <2>1. CASE op = "commit"
    BY <1>12, <1>a, <2>1 DEF MarkUpFails, DnsTurn
  <2>2. CASE op # "commit"
    BY <1>12, <1>u, <2>2, IdleAnchors DEF MarkUpFails, DnsTurn
  <2>. QED BY <2>1, <2>2
<1>13. CASE SaveAnchors
  <2>1. /\ pc = "anchorsave" /\ pc' = "idle" /\ added' = {} /\ mem' = snap /\ disk' = snap
        /\ UNCHANGED <<trusted, lost>>
    BY <1>13 DEF SaveAnchors, Idle, system
  <2>2. Anchors(disk') = snap.anchors /\ Current' = snap
    BY <1>0, <2>1, AnchorsOf DEF Current, Preparing
  <2>3. used["silent"] = 0 => Owed' \subseteq Ours(snap.anchors)
    <3>1. Owed' \subseteq Owed \cup added BY <2>1 DEF Owed
    <3>2. used["silent"] = 0 => Owed \subseteq Ours(snap.anchors)
      BY <1>0, <2>1 DEF AnchorsOK, InHand, Preparing
    <3>. QED BY <2>1, <3>1, <3>2 DEF AnchorsOK, AddedOnce
  <2>. QED
    BY <1>u, <2>1, <2>2, <2>3 DEF AnchorsOK, InFile, InHand, PaidBack, AddedOnce
<1>14. CASE SaveAnchorsFails
  <2>1. /\ pc = "anchorsave" /\ pc' = "idle" /\ added' = {} /\ mem' = snap
        /\ trusted' = trusted \ added /\ UNCHANGED <<disk, lost>>
    BY <1>14 DEF SaveAnchorsFails, Idle
  <2>2. Owed' \subseteq Owed BY <2>1 DEF Owed
  <2>3. used'["silent"] = 0 => InFile' BY <1>u, <2>1, <2>2, OwesNoMore
  <2>4. Current' = snap BY <2>1 DEF Current
  <2>5. used'["silent"] = 0 => InHand'
    BY <1>0, <1>u, <2>1, <2>2, <2>4 DEF AnchorsOK, InHand, Preparing
  <2>. QED BY <2>1, <2>3, <2>5 DEF AnchorsOK, PaidBack, AddedOnce
<1>. QED
  BY <1>1, <1>2, <1>3, <1>4, <1>5, <1>6, <1>7, <1>8, <1>9, <1>10, <1>11, <1>12,
     <1>13, <1>14 DEF Apply

LEMMA AnchorsUndo ==
    Shape /\ DnsOK /\ AnchorsOK /\ Undo => AnchorsOK'
<1>. SUFFICES ASSUME Shape, DnsOK, AnchorsOK, Undo PROVE AnchorsOK'
  OBVIOUS
<1>u. used'["silent"] = 0 => used["silent"] = 0 /\ ~Silent
  BY SilentGrows DEF Next
<1>0. /\ pc \in Closing => added = {} /\ mem = NoSnap
      /\ disk # NoSnap => disk \in Snapshot
  BY DEF Closing, AnchorsOK, AddedOnce, DnsOK, SessionGone, Shape, StoreOK
(* The rollback goes on; a failure it has seen stays seen. *)
<1>q. ASSUME pc \in {"undo", "restore", "verify", "done"},
             pc' \in {"undo", "restore", "verify", "done", "reconcile"},
             ok' => ok, UNCHANGED <<trusted, added, lost, disk>>,
             pc' \in {"undo", "restore", "verify"} => pc # "done"
      PROVE  AnchorsOK'
  <2>1. AddedOnce' /\ pc' \notin Carrying
    BY <1>0, <1>q DEF AddedOnce, Closing, Carrying, Preparing
  <2>. QED BY <1>q, <1>u, <2>1, HandOn
<1>k. ok \in BOOLEAN BY DEF Shape, WorkOK
<1>1. CASE UndoAnchors
  <2>1. PICK bad \in SUBSET Ours(snap.anchors) :
          /\ bad = {} \/ (bad # {} /\ Missed)
          /\ trusted' = trusted \ (Ours(snap.anchors) \ bad)
    BY <1>1 DEF UndoAnchors
  <2>2. pc = "anchors" /\ pc' = "undo" /\ UNCHANGED <<disk, added, lost>>
    BY <1>1 DEF UndoAnchors
  <2>3. snap # NoSnap
    BY <2>2, NoSnapAssumption DEF Shape, WorkOK, BusyHasSnap, Working
  <2>4. Owed' \subseteq Owed BY <2>1, <2>2 DEF Owed
  <2>5. used'["silent"] = 0 => InFile' BY <1>u, <2>2, <2>4, OwesNoMore
  <2>6. used'["silent"] = 0 /\ ok' => Owed' = {}
    <3>. SUFFICES ASSUME used'["silent"] = 0, ok' PROVE Owed' = {}
      OBVIOUS
    <3>1. bad = {} BY <1>u, <2>1 DEF Missed
    <3>2. Current = snap /\ pc \in Carrying
      BY <2>2 DEF Current, Carrying
    <3>3. Owed \subseteq Ours(snap.anchors)
      BY <1>u, <2>3, <3>2 DEF AnchorsOK, InHand
    <3>. QED BY <2>1, <2>2, <2>4, <3>1, <3>3 DEF Owed
  <2>. QED
    BY <1>0, <2>2, <2>5, <2>6
       DEF AnchorsOK, InHand, PaidBack, AddedOnce, Carrying, Preparing, Closing
<1>2. CASE UndoDns \/ SkipChecks \/ EndBoot
  BY <1>2, <1>q DEF UndoDns, SkipChecks, EndBoot, Missed, system
<1>3. CASE DeleteRoute \/ RestoreRoute
  BY <1>3, <1>q DEF DeleteRoute, RestoreRoute, Missed, system
<1>4. CASE CheckRoutes
  BY <1>4, <1>q DEF CheckRoutes
<1>5. CASE CheckDns
  BY <1>5, <1>q DEF CheckDns
<1>6. CASE Clear
  <2>1. /\ pc = "verify" /\ pc' = "done" /\ UNCHANGED <<trusted, added, lost>>
        /\ disk' = disk \/ (ok /\ disk' = NoSnap)
    BY <1>6 DEF Clear, system
  <2>2. Owed' = Owed BY <2>1 DEF Owed
  <2>3. used'["silent"] = 0 => InFile'
    BY <1>u, <2>1, <2>2 DEF AnchorsOK, InFile, PaidBack
  <2>. QED
    BY <1>0, <2>1, <2>3
       DEF AnchorsOK, InHand, PaidBack, AddedOnce, Carrying, Preparing, Closing
<1>7. CASE EndSession \/ EndCommit
  <2>1. pc = "done" /\ Idle /\ mem' = mem /\ UNCHANGED <<trusted, disk>> /\ lost \subseteq lost'
    BY <1>7 DEF EndSession, EndCommit, Forget, system
  <2>. QED BY <1>0, <1>u, <2>1, IdleAnchors DEF Closing
<1>8. CASE EndRestore
  <2>1. /\ pc = "done" /\ mem' = mem /\ UNCHANGED <<trusted, disk, lost>>
        /\ Idle \/ (disk # NoSnap /\ Rollback(disk))
    BY <1>8 DEF EndRestore
  <2>. QED BY <1>0, <1>u, <2>1, AnchorsOf, IdleAnchors, RollbackAnchors DEF Closing
<1>9. CASE EndTerm
  <2>1. pc = "done" /\ Exit /\ lost' = lost BY <1>9 DEF EndTerm
  <2>. QED BY <1>0, <1>u, <2>1, ExitAnchors DEF Closing
<1>. QED BY <1>1, <1>2, <1>3, <1>4, <1>5, <1>6, <1>7, <1>8, <1>9 DEF Undo

LEMMA AnchorsRecover ==
    Shape /\ DnsOK /\ AnchorsOK /\ Recover => AnchorsOK'
<1>. SUFFICES ASSUME Shape, DnsOK, AnchorsOK, Recover PROVE AnchorsOK'
  OBVIOUS
<1>u. used'["silent"] = 0 => used["silent"] = 0
  BY SilentGrows DEF Next
<1>0. /\ pc \in Closing => added = {} /\ mem = NoSnap
      /\ pc \in {"bootanchors", "bootsave", "probe"} =>
           /\ pc \in Carrying /\ Current = snap /\ snap # NoSnap /\ snap \in Snapshot
      /\ disk # NoSnap => disk \in Snapshot
  BY NoSnapAssumption
     DEF Closing, AnchorsOK, AddedOnce, DnsOK, SessionGone, Carrying, Current,
         Shape, StoreOK, WorkOK, BusyHasSnap, Working
<1>1. CASE Boot
  <2>1. /\ pc = "down" /\ snap' = disk /\ UNCHANGED <<trusted, added, lost, disk>>
        /\ pc' \in {"reconcile", "probe", "bootanchors"}
    BY <1>1 DEF Boot, system
  <2>2. Current' = disk /\ AddedOnce'
    BY <1>0, <2>1 DEF Current, AddedOnce, Closing
  <2>. QED BY <1>0, <1>u, <2>1, <2>2, AnchorsOf, HandOn
<1>2. CASE BootAnchors
  <2>1. PICK bad \in SUBSET Ours(snap.anchors) :
          /\ trusted' = trusted \ (Ours(snap.anchors) \ bad)
          /\ snap' = [snap EXCEPT !.anchors =
                        {r \in snap.anchors : ~r.existed /\ r.fp \in bad}]
    BY <1>2 DEF BootAnchors
  <2>2. /\ pc = "bootanchors" /\ pc' = "bootsave" /\ UNCHANGED <<disk, added, lost>>
    BY <1>2 DEF BootAnchors
  <2>3. Owed' \subseteq Owed BY <2>1, <2>2 DEF Owed
  <2>4. used'["silent"] = 0 => InFile' BY <1>u, <2>2, <2>3, OwesNoMore
  <2>. DEFINE X == {r \in snap.anchors : ~r.existed /\ r.fp \in bad}
  <2>5. snap'.anchors = X
    <3>1. snap' = [snap EXCEPT !.anchors = X] BY <2>1
    <3>. HIDE DEF X
    <3>. QED BY <1>0, <2>2, <3>1 DEF Snapshot
  <2>6. Owed' \cap Ours(snap.anchors) \subseteq Ours(snap'.anchors)
    BY <2>1, <2>5 DEF Owed, Ours
  <2>7. Current' = snap' BY <2>2 DEF Current
  <2>8. used'["silent"] = 0 => InHand'
    BY <1>0, <1>u, <2>2, <2>3, <2>6, <2>7 DEF AnchorsOK, InHand
  <2>. QED BY <1>0, <2>2, <2>4, <2>8 DEF AnchorsOK, PaidBack, AddedOnce, Closing
<1>3. CASE SaveBootAnchors
  <2>1. /\ pc = "bootsave" /\ pc' = "probe" /\ disk' \in {disk, snap}
        /\ UNCHANGED <<trusted, added, lost, snap>>
    BY <1>3 DEF SaveBootAnchors, system
  <2>2. Current' = snap /\ AddedOnce'
    BY <1>0, <2>1 DEF Current, AddedOnce, Closing
  <2>3. Anchors(disk') \in {Anchors(disk), snap.anchors}
    BY <1>0, <2>1, AnchorsOf
  <2>. QED BY <1>0, <1>u, <2>1, <2>2, <2>3, HandOn
<1>4. CASE LeaveRunning
  BY <1>0, <1>4, <1>u, IdleAnchors DEF LeaveRunning, Closing, system
<1>5. CASE RollbackStale
  BY <1>0, <1>5, <1>u, RollbackAnchors DEF RollbackStale, system
<1>6. CASE Reconcile
  BY <1>0, <1>6, <1>u, IdleAnchors DEF Reconcile, Closing
<1>. QED BY <1>1, <1>2, <1>3, <1>4, <1>5, <1>6 DEF Recover

LEMMA AnchorsNext == Shape /\ DnsOK /\ AnchorsOK /\ [Next]_vars => AnchorsOK'
<1>. SUFFICES ASSUME Shape, DnsOK, AnchorsOK, [Next]_vars PROVE AnchorsOK'
  OBVIOUS
<1>u. used'["silent"] = 0 => used["silent"] = 0
  BY SilentGrows
<1>1. CASE Crash
  BY <1>1, <1>u, ExitAnchors DEF Crash, Forget, Unwritten
<1>2. CASE UNCHANGED <<trusted, disk, mem, work, lost>>
  <2>1. UNCHANGED <<added, pc, snap, ok>> BY <1>2 DEF work
  <2>. QED
    BY <1>2, <1>u, <2>1
       DEF AnchorsOK, InFile, InHand, PaidBack, AddedOnce, Owed, Current
<1>3. Environment \/ UNCHANGED vars => Crash \/ UNCHANGED <<trusted, disk, mem, work, lost>>
  BY DEF Environment, AppExit, NetworkSwitch, vars, system
<1>. QED
  BY <1>1, <1>2, <1>3, AnchorsRequest, AnchorsApply, AnchorsUndo, AnchorsRecover
     DEF Next

(* Unless a command lies: a root certificate the helper has put into the   *)
(* keychain is on disk until it is out again, or its record was dropped by *)
(* a crash between the two, whatever else fails, crashes or starts again.  *)
THEOREM AnchorsAlwaysRecorded == Spec => []AnchorsRecorded
<1>1. AnchorsOK => AnchorsRecorded
  BY DEF AnchorsOK, InFile, Owed, AnchorsRecorded
<1>. QED BY <1>1, AnchorsInit, AnchorsNext, Invariance, PTL DEF Spec

------------------------------------------------------------------------------
(* The tunnel's resolver stays reachable.  DnsInsideTunnel speaks of the   *)
(* session on disk; what makes it so are the handler's snapshot, which is  *)
(* of the same device, the captures it has in, has to come or holds back,  *)
(* and the services a rollback has already taken off the sentinel.         *)

Installing == {"apply", "record", "setdns"}

(* The handler and the session in memory work on the device in the file.   *)
SameDevice ==
    /\ pc \in Preparing \cup {"bootanchors", "bootsave"} =>
         disk # NoSnap /\ disk.iface = snap.iface
    /\ pc = "idle" /\ mem # NoSnap => disk # NoSnap /\ disk.iface = mem.iface

(* Captures are held back only while preparing, after the last bypass, and *)
(* the DNS comes after the last route.                                     *)
InHandler ==
    /\ pc \in Installing => op \in {"prepare", "up", "commit"}
    /\ pc \in {"idle", "anchorsave"} => op # "prepare"
    /\ pc \in Installing /\ (op # "prepare" \/ plan # <<>>) => snap.pending = <<>>
    /\ pc = "setdns" => plan = <<>> /\ op # "prepare"

SessionOK == SameDevice /\ InHandler

Among(recs, d) == \E i \in 1 .. Len(recs) : recs[i].dest = d

(* While nothing has failed, every capture of the plan is in the table,    *)
(* still to come, or held back -- or still to be held back.                *)
OnTheWay ==
    NoFailure /\ Serving # NoSnap =>
        \A i \in 1 .. Len(CapturePlan) :
            \/ table[CapturePlan[i].dest] = Serving.iface
            \/ Among(plan, CapturePlan[i].dest)
            \/ Among(Serving.pending, CapturePlan[i].dest)
            \/ op = "prepare" /\ i > Len(Serving.pending)

(* A rollback starts with every record; while nothing has failed, the      *)
(* services it has passed are off the sentinel.                            *)
UndoneServices ==
    /\ pc = "anchors" => left = Count(snap)
    /\ NoFailure /\ pc \in {"undo", "restore"} =>
         \A j \in 1 .. Len(snap.dns) :
             j > left - Len(Routes(snap)) => Sentinel \notin dns[snap.dns[j].svc]

LEMMA NoFailureYet ==
    ASSUME Shape, [Next]_vars, NoFailure'
    PROVE  NoFailure /\ ~Fault /\ ~Silent /\ ~Missed
  BY CountsGrow DEF NoFailure, Fault, Silent, Missed, Bounded

LEMMA LostGrows == [Next]_vars => lost \subseteq lost'
<1>1. CASE Request
  BY <1>1 DEF Request, TunUp, CommitRoutes, TakeTunFd, TunDown, Restore, Sigterm,
              InstallAnchor, RemoveAnchor
<1>2. CASE Apply
  BY <1>2 DEF Apply, InstallRoute, RouteFails, SaveRoute, SaveRouteFails, Abort,
              ConfigureFails, DeferRoute, DeferRouteFails, Prepared, BackupDns,
              BackupDnsFails, SetDns, SetDnsFails, MarkUp, MarkUpFails, SaveAnchors,
              SaveAnchorsFails
<1>3. CASE Undo
  BY <1>3 DEF Undo, UndoAnchors, UndoDns, DeleteRoute, RestoreRoute, SkipChecks,
              CheckRoutes, CheckDns, Clear, EndSession, EndCommit, EndRestore,
              EndBoot, EndTerm, Forget
<1>4. CASE Recover
  BY <1>4 DEF Recover, Boot, BootAnchors, SaveBootAnchors, LeaveRunning,
              RollbackStale, Reconcile
<1>5. CASE Environment
  BY <1>5 DEF Environment, Crash, AppExit, NetworkSwitch, Forget
<1>6. CASE UNCHANGED vars BY <1>6 DEF vars
<1>. QED BY <1>1, <1>2, <1>3, <1>4, <1>5, <1>6 DEF Next

(* Rollback and recovery never leave a session to serve.                   *)
LEMMA NothingToServe ==
    ASSUME Shape, DnsOK, Undo \/ Recover
    PROVE  (pc' \in Closing \/ pc' = "idle") /\ mem' = NoSnap /\ Serving' = NoSnap
<1>1. pc \in Closing => mem = NoSnap BY DEF DnsOK, SessionGone
<1>2. pc \in Closing /\ mem' \in {mem, NoSnap} /\ (pc' \in Closing \/ pc' = "idle")
  BY DEF Undo, UndoAnchors, UndoDns, DeleteRoute, RestoreRoute, SkipChecks,
         CheckRoutes, CheckDns, Clear, EndSession, EndCommit, EndRestore, EndBoot,
         EndTerm, Exit, Idle, Rollback, Recover, Boot, BootAnchors,
         SaveBootAnchors, LeaveRunning, RollbackStale, Reconcile, Closing, system
<1>. QED BY <1>1, <1>2 DEF Serving, Closing

LEMMA SessionInit == Init => SessionOK
  BY DEF Init, SessionOK, SameDevice, InHandler, Preparing, Installing

(* A handler that gives up, or ends without a session, claims nothing.     *)
LEMMA SessionOver ==
    ASSUME pc' \in Closing \ {"bootanchors", "bootsave"}
           \/ (Idle /\ mem' = NoSnap)
    PROVE  SessionOK'
  BY DEF SessionOK, SameDevice, InHandler, Preparing, Installing, Closing, Idle

LEMMA SessionRequest == Shape /\ DnsOK /\ SessionOK /\ Request => SessionOK'
<1>. SUFFICES ASSUME Shape, DnsOK, SessionOK, Request PROVE SessionOK'
  OBVIOUS
<1>0. mem # NoSnap => mem \in Snapshot BY DEF Shape, StoreOK
<1>1. ASSUME NEW t \in Tun, NEW defer \in DeferModes, TunUp(t, defer)
      PROVE  SessionOK'
  <2>1. /\ snap' = NewSnapshot(t) /\ disk' = NewSnapshot(t) /\ pc' = "apply"
        /\ op' \in {"prepare", "up"} /\ table[Default] \in Gateway
    BY <1>1 DEF TunUp
  <2>2. NewSnapshot(t) \in Snapshot /\ NewSnapshot(t).pending = <<>>
    BY <2>1, NewSnapshotType DEF NewSnapshot, Shape, StoreOK
  <2>. QED
    BY <2>1, <2>2, NoSnapAssumption
       DEF SessionOK, SameDevice, InHandler, Preparing, Installing
<1>2. CASE CommitRoutes
  <2>1. /\ pc = "idle" /\ mem # NoSnap /\ pc' = "apply" /\ op' = "commit"
        /\ snap' = [mem EXCEPT !.pending = <<>>] /\ disk' = disk
    BY <1>2 DEF CommitRoutes
  <2>2. snap'.iface = mem.iface /\ snap'.pending = <<>>
    BY <1>0, <2>1 DEF Snapshot
  <2>. QED
    BY <2>1, <2>2 DEF SessionOK, SameDevice, InHandler, Preparing, Installing
<1>3. CASE TakeTunFd
  BY <1>3 DEF TakeTunFd, work, SessionOK, SameDevice, InHandler
<1>4. CASE TunDown \/ Restore \/ Sigterm
  <2>1. pc' \in {"anchors", "down"}
    BY <1>4 DEF TunDown, Restore, Sigterm, Rollback, Exit
  <2>. QED BY <2>1, SessionOver DEF Closing
<1>5. ASSUME NEW a \in Anchor, InstallAnchor(a) \/ RemoveAnchor(a)
      PROVE  SessionOK'
  <2>1. /\ pc = "idle" /\ mem # NoSnap /\ pc' = "anchorsave"
        /\ op' \in {"install", "remove"} /\ disk' = disk
        /\ \E X : snap' = [mem EXCEPT !.anchors = X]
    BY <1>5 DEF InstallAnchor, RemoveAnchor
  <2>2. snap'.iface = mem.iface BY <1>0, <2>1 DEF Snapshot
  <2>. QED
    BY <2>1, <2>2 DEF SessionOK, SameDevice, InHandler, Preparing, Installing
<1>. QED BY <1>1, <1>2, <1>3, <1>4, <1>5 DEF Request

LEMMA SessionApply == Shape /\ DnsOK /\ SessionOK /\ Apply => SessionOK'
<1>. SUFFICES ASSUME Shape, DnsOK, SessionOK, Apply PROVE SessionOK'
  OBVIOUS
<1>0. pc \in Preparing => /\ snap \in Snapshot /\ snap # NoSnap
                          /\ disk # NoSnap /\ disk.iface = snap.iface
  BY NoSnapAssumption
     DEF Shape, WorkOK, BusyHasSnap, Working, Preparing, SessionOK, SameDevice
<1>p. plan \in Seq(PlanRec) BY DEF Shape, WorkOK
<1>a. ASSUME Abort PROVE SessionOK'
  BY <1>a, SessionOver DEF Abort, Rollback, Closing
(* A handler goes on with the same session. *)
<1>c. ASSUME pc \in Installing, pc' \in Installing, op' = op,
             snap'.iface = snap.iface, disk' \in {disk, snap'}, snap' \in Snapshot,
             op # "prepare" \/ plan' # <<>> => snap'.pending = <<>>,
             pc' = "setdns" => plan' = <<>> /\ op # "prepare"
      PROVE  SessionOK'
  BY <1>0, <1>c, NoSnapAssumption
     DEF SessionOK, SameDevice, InHandler, Preparing, Installing
(* A handler leaves its session in memory. *)
<1>m. ASSUME pc \in Preparing, Idle, disk' \in {disk, mem'},
             mem'.iface = snap.iface, mem' # NoSnap
      PROVE  SessionOK'
  BY <1>0, <1>m DEF SessionOK, SameDevice, InHandler, Preparing, Installing, Idle
<1>1. CASE InstallRoute
  <2>1. /\ pc = "apply" /\ plan # <<>> /\ pc' = "record" /\ op' = op /\ disk' = disk
        /\ \E r : snap' = [snap EXCEPT !.installed = Append(snap.installed, r)]
    BY <1>1 DEF InstallRoute
  <2>2. snap' \in Snapshot
    BY <1>1, <2>1, ShapeApply DEF Apply, Shape, WorkOK, BusyHasSnap, Working
  <2>3. snap'.iface = snap.iface /\ snap'.pending = snap.pending
    BY <1>0, <2>1 DEF Snapshot, Preparing
  <2>. QED BY <1>c, <2>1, <2>2, <2>3 DEF SessionOK, InHandler, Installing
<1>2. CASE RouteFails
  <2>1. CASE Abort BY <1>a, <2>1
  <2>2. CASE ~Abort
    <3>1. pc = "apply" /\ plan # <<>> /\ UNCHANGED <<disk, snap, pc, op>>
      BY <1>2, <2>2 DEF RouteFails
    <3>. QED
      BY <1>0, <1>c, <3>1 DEF SessionOK, InHandler, Installing, Preparing
  <2>. QED BY <2>1, <2>2
<1>3. CASE SaveRoute
  BY <1>0, <1>c, <1>3 DEF SaveRoute, SessionOK, InHandler, Installing, Preparing
<1>4. CASE SaveRouteFails \/ ConfigureFails \/ SetDnsFails
  BY <1>4, <1>a DEF SaveRouteFails, ConfigureFails, SetDnsFails
<1>5. CASE DeferRoute
  <2>1. /\ pc = "apply" /\ pc' = "apply" /\ plan = <<>> /\ op = "prepare"
        /\ Len(snap.pending) < Len(CapturePlan)
        /\ snap' = Deferred /\ disk' = Deferred /\ UNCHANGED <<plan, op>>
    BY <1>5 DEF DeferRoute, DeferTurn
  <2>2. Deferred \in Snapshot /\ Deferred.iface = snap.iface
    BY <1>0, <2>1, DeferredType DEF Deferred, Preparing, Snapshot
  <2>. QED BY <1>c, <2>1, <2>2 DEF Installing
<1>6. CASE DeferRouteFails \/ BackupDnsFails
  BY <1>6, SessionOver DEF DeferRouteFails, BackupDnsFails, Rollback, Closing
<1>7. CASE Prepared
  BY <1>0, <1>7, <1>m DEF Prepared, DeferTurn, Preparing
<1>8. CASE BackupDns
  <2>1. /\ pc = "apply" /\ pc' = "setdns" /\ plan = <<>> /\ op \in {"up", "commit"}
        /\ snap' = BackedUp /\ disk' = BackedUp /\ UNCHANGED <<plan, op>>
    BY <1>8 DEF BackupDns, DnsTurn
  <2>2. snap' \in Snapshot
    BY <1>8, <2>1, ShapeApply DEF Apply, Shape, WorkOK, BusyHasSnap, Working
  <2>3. BackedUp.iface = snap.iface /\ BackedUp.pending = snap.pending
    BY <1>0, <2>1 DEF BackedUp, Preparing, Snapshot
  <2>. QED BY <1>c, <2>1, <2>2, <2>3 DEF SessionOK, InHandler, Installing
<1>9. CASE SetDns
  BY <1>0, <1>c, <1>9 DEF SetDns, SessionOK, InHandler, Installing, Preparing
<1>10. CASE MarkUp
  <2>1. /\ pc = "apply" /\ Idle /\ mem' = [snap EXCEPT !.state = "Up"]
        /\ disk' = mem'
    BY <1>10 DEF MarkUp, DnsTurn
  <2>2. mem'.iface = snap.iface /\ mem' \in Snapshot
    BY <1>0, <2>1 DEF Preparing, Snapshot
  <2>. QED BY <1>m, <2>1, <2>2, NoSnapAssumption DEF Preparing
<1>11. CASE MarkUpFails
  BY <1>11, <1>a, SessionOver DEF MarkUpFails
<1>12. CASE SaveAnchors \/ SaveAnchorsFails
  BY <1>0, <1>12, <1>m DEF SaveAnchors, SaveAnchorsFails, Preparing
<1>. QED
  BY <1>1, <1>2, <1>3, <1>4, <1>5, <1>6, <1>7, <1>8, <1>9, <1>10, <1>11, <1>12
     DEF Apply

LEMMA SessionNext == Shape /\ DnsOK /\ SessionOK /\ [Next]_vars => SessionOK'
<1>. SUFFICES ASSUME Shape, DnsOK, SessionOK, [Next]_vars PROVE SessionOK'
  OBVIOUS
<1>1. CASE Undo
  <2>1. pc' \notin {"bootanchors", "bootsave"}
    BY <1>1 DEF Undo, UndoAnchors, UndoDns, DeleteRoute, RestoreRoute, SkipChecks,
                CheckRoutes, CheckDns, Clear, EndSession, EndCommit, EndRestore,
                EndBoot, EndTerm, Exit, Idle, Rollback
  <2>2. pc' = "idle" => Idle
    BY <1>1 DEF Undo, UndoAnchors, UndoDns, DeleteRoute, RestoreRoute, SkipChecks,
                CheckRoutes, CheckDns, Clear, EndSession, EndCommit, EndRestore,
                EndBoot, EndTerm, Exit, Rollback
  <2>. QED BY <1>1, <2>1, <2>2, NothingToServe, SessionOver DEF Closing
<1>2. CASE Recover
  <2>1. CASE Boot
    <3>1. snap' = disk /\ disk' = disk /\ pc' \in {"reconcile", "probe", "bootanchors"}
          /\ (pc' = "bootanchors" => disk # NoSnap)
      BY <2>1 DEF Boot
    <3>. QED
      BY <3>1 DEF SessionOK, SameDevice, InHandler, Preparing, Installing
  <2>2. CASE BootAnchors
    <3>1. pc = "bootanchors" /\ pc' = "bootsave" /\ disk' = disk
          /\ \E X : snap' = [snap EXCEPT !.anchors = X]
      BY <2>2 DEF BootAnchors
    <3>2. snap \in Snapshot BY <3>1 DEF Shape, WorkOK, BusyHasSnap, Working
    <3>3. snap'.iface = snap.iface BY <3>1, <3>2 DEF Snapshot
    <3>. QED
      BY <3>1, <3>3 DEF SessionOK, SameDevice, InHandler, Preparing, Installing
  <2>3. CASE SaveBootAnchors \/ RollbackStale
    BY <2>3, SessionOver DEF SaveBootAnchors, RollbackStale, Rollback, Closing
  <2>4. CASE LeaveRunning \/ Reconcile
    <3>1. Idle BY <2>4 DEF LeaveRunning, Reconcile
    <3>. QED BY <1>2, <3>1, NothingToServe, SessionOver
  <2>. QED BY <1>2, <2>1, <2>2, <2>3, <2>4 DEF Recover
<1>3. CASE Crash
  BY <1>3, SessionOver DEF Crash, Exit, Closing
<1>4. CASE UNCHANGED <<disk, mem, work>>
  BY <1>4 DEF work, SessionOK, SameDevice, InHandler
<1>5. Environment \/ UNCHANGED vars => Crash \/ UNCHANGED <<disk, mem, work>>
  BY DEF Environment, AppExit, NetworkSwitch, vars, system
<1>. QED BY <1>1, <1>2, <1>3, <1>4, <1>5, SessionRequest, SessionApply DEF Next

(* A capture of the plan is a capture.                                     *)
LEMMA CaptureKey ==
    ASSUME NEW i \in 1 .. Len(CapturePlan)
    PROVE  /\ CapturePlan[i].dest \in Capture /\ CapturePlan[i].dest \in Dest
           /\ CapturePlan[i].dest # Default /\ CapturePlan[i].dest # Scoped
<1>1. CapturePlan \in Seq([dest : Capture, critical : {TRUE}]) BY PlanAssumption
<1>2. CapturePlan[i] \in [dest : Capture, critical : {TRUE}] BY <1>1, ElementOfSeq
<1>. QED BY <1>2, KeysAssumption

(* Installing or dropping the head leaves the rest to come.                *)
LEMMA RestOfPlan ==
    ASSUME plan \in Seq(PlanRec), plan # <<>>, plan' = Tail(plan)
    PROVE  /\ Len(plan) \in Nat \ {0} /\ Len(plan') = Len(plan) - 1
           /\ \A i \in 1 .. Len(plan') : plan'[i] = plan[i + 1] /\ i + 1 \in 1 .. Len(plan)
           /\ plan[1] = Head(plan) /\ 1 \in 1 .. Len(plan) /\ Head(plan).dest \in Dest
           /\ \A d : Among(plan, d) /\ d # Head(plan).dest => Among(plan', d)
           /\ \A d : Among(plan', d) => Among(plan, d)
<1>1. /\ Len(plan) \in Nat \ {0} /\ plan[1] = Head(plan) /\ Head(plan) \in PlanRec
      /\ Len(plan') = Len(plan) - 1
      /\ \A i \in 1 .. Len(plan) - 1 : plan'[i] = plan[i + 1]
  BY EmptySeq, HeadTailProperties
<1>2. \A i \in 1 .. Len(plan') : plan'[i] = plan[i + 1] /\ i + 1 \in 1 .. Len(plan)
  BY <1>1
<1>3. ASSUME NEW d, Among(plan, d), d # Head(plan).dest PROVE Among(plan', d)
  <2>1. PICK i \in 1 .. Len(plan) : plan[i].dest = d BY <1>3 DEF Among
  <2>2. i # 1 BY <1>1, <1>3, <2>1
  <2>3. i - 1 \in 1 .. Len(plan') /\ plan'[i - 1] = plan[i] BY <1>1, <2>2
  <2>. QED BY <2>1, <2>3 DEF Among
<1>4. ASSUME NEW d, Among(plan', d) PROVE Among(plan, d)
  <2>1. PICK i \in 1 .. Len(plan') : plan'[i].dest = d BY <1>4 DEF Among
  <2>. QED BY <1>2, <2>1 DEF Among
<1>5. 1 \in 1 .. Len(plan) BY <1>1
<1>. QED BY <1>1, <1>2, <1>3, <1>4, <1>5 DEF PlanRec

(* A step that keeps the session, its captures and the plan.               *)
LEMMA WayKept ==
    ASSUME OnTheWay, NoFailure' => NoFailure, plan' = plan,
           Serving # NoSnap, Serving'.iface = Serving.iface,
           Serving'.pending = Serving.pending,
           \A c \in Capture : table[c] = Serving.iface => table'[c] = table[c],
           op = "prepare" =>
             op' = "prepare" \/ ~(Len(Serving.pending) < Len(CapturePlan))
    PROVE  OnTheWay'
<1>. SUFFICES ASSUME NoFailure', NEW i \in 1 .. Len(CapturePlan)
              PROVE  \/ table'[CapturePlan[i].dest] = Serving'.iface
                     \/ Among(plan', CapturePlan[i].dest)
                     \/ Among(Serving'.pending, CapturePlan[i].dest)
                     \/ op' = "prepare" /\ i > Len(Serving'.pending)
  BY DEF OnTheWay
<1>1. CapturePlan[i].dest \in Capture BY CaptureKey
<1>2. \/ table[CapturePlan[i].dest] = Serving.iface
      \/ Among(plan, CapturePlan[i].dest)
      \/ Among(Serving.pending, CapturePlan[i].dest)
      \/ op = "prepare" /\ i > Len(Serving.pending)
  BY DEF OnTheWay
<1>3. Len(CapturePlan) \in Nat
  <2>1. CapturePlan \in Seq([dest : Capture, critical : {TRUE}]) BY PlanAssumption
  <2>. QED BY <2>1
<1>4. i > Len(Serving.pending) => Len(Serving.pending) < Len(CapturePlan)
  BY <1>3
<1>. QED BY <1>1, <1>2, <1>4

LEMMA WayRequest ==
    Shape /\ DnsOK /\ RoutesOK /\ SessionOK /\ OnTheWay /\ Request => OnTheWay'
<1>. SUFFICES ASSUME Shape, DnsOK, RoutesOK, SessionOK, OnTheWay, Request
              PROVE  OnTheWay'
  OBVIOUS
<1>0. mem # NoSnap => mem \in Snapshot BY DEF Shape, StoreOK
<1>f. NoFailure' => NoFailure BY NoFailureYet DEF Next
<1>s. ASSUME pc = "idle", mem # NoSnap
      PROVE  /\ Serving = mem /\ mem \in Snapshot /\ plan = <<>> /\ op # "prepare"
  BY <1>0, <1>s DEF Serving, RoutesOK, NothingPlanned, SessionOK, InHandler
<1>1. ASSUME NEW t \in Tun, NEW defer \in DeferModes, TunUp(t, defer)
      PROVE  OnTheWay'
  <2>1. /\ pc' = "apply" /\ snap' = NewSnapshot(t) /\ table[Default] \in Gateway
        /\ \/ op' = "prepare"
           \/ op' = "up" /\ plan' = BypassPlan \o CapturePlan
    BY <1>1 DEF TunUp
  <2>2. NewSnapshot(t).pending = <<>> BY <2>1, NewSnapshotType DEF NewSnapshot, Shape, StoreOK
  <2>3. Serving' = snap' BY <2>1 DEF Serving
  <2>4. CASE op' = "prepare"
    <3>1. \A i \in 1 .. Len(CapturePlan) : i > Len(<<>>) OBVIOUS
    <3>. QED BY <2>1, <2>2, <2>3, <2>4, <3>1 DEF OnTheWay
  <2>5. CASE plan' = BypassPlan \o CapturePlan
    <3>1. /\ BypassPlan \in Seq([dest : Dest \ Capture, critical : BOOLEAN])
          /\ CapturePlan \in Seq([dest : Capture, critical : {TRUE}])
      BY PlanAssumption
    <3>. DEFINE n == Len(BypassPlan)
                m == Len(CapturePlan)
                whole == BypassPlan \o CapturePlan
    <3>2. n \in Nat /\ m \in Nat BY <3>1
    <3>3. Len(whole) = n + m /\ \A i \in n + 1 .. n + m : whole[i] = CapturePlan[i - n]
      BY <3>1, ConcatProperties
    <3>4. ASSUME NEW i \in 1 .. m PROVE Among(plan', CapturePlan[i].dest)
      <4>. HIDE DEF whole, n, m
      <4>1. i + n \in n + 1 .. n + m /\ i + n \in 1 .. n + m /\ (i + n) - n = i
        BY <3>2
      <4>2. whole[i + n] = CapturePlan[i] BY <3>3, <4>1
      <4>3. plan' = whole BY <2>5 DEF whole
      <4>. QED BY <3>3, <4>1, <4>2, <4>3 DEF Among
    <3>. QED BY <3>4 DEF OnTheWay
  <2>. QED BY <2>1, <2>4, <2>5
<1>2. CASE CommitRoutes
  <2>1. /\ pc = "idle" /\ mem # NoSnap /\ pc' = "apply"
        /\ snap' = [mem EXCEPT !.pending = <<>>] /\ table' = table
        /\ plan' = [i \in 1 .. Len(mem.pending) |->
                      [dest |-> mem.pending[i].dest, critical |-> TRUE]]
    BY <1>2 DEF CommitRoutes, system
  <2>2. Serving' = snap' /\ snap'.iface = mem.iface /\ Len(mem.pending) \in Nat
    BY <1>s, <2>1 DEF Serving, Snapshot
  <2>3. ASSUME NEW d, Among(mem.pending, d) PROVE Among(plan', d)
    BY <2>1, <2>2, <2>3 DEF Among
  <2>4. \A d : ~Among(plan, d) BY <1>s, <2>1 DEF Among
  <2>5. ASSUME NoFailure, NEW i \in 1 .. Len(CapturePlan)
        PROVE  table[CapturePlan[i].dest] = mem.iface \/ Among(mem.pending, CapturePlan[i].dest)
    BY <1>s, <2>1, <2>4, <2>5 DEF OnTheWay
  <2>. QED BY <1>f, <2>1, <2>2, <2>3, <2>5 DEF OnTheWay
<1>3. CASE TakeTunFd
  <2>1. pc = "idle" /\ mem # NoSnap /\ UNCHANGED <<table, mem, snap, pc, plan, op>>
    BY <1>3 DEF TakeTunFd, work
  <2>2. Serving' = Serving BY <2>1 DEF Serving
  <2>. QED BY <1>f, <1>s, <2>1, <2>2, WayKept
<1>4. CASE TunDown \/ Restore \/ Sigterm
  <2>1. pc' \in {"anchors", "down"}
    BY <1>4 DEF TunDown, Restore, Sigterm, Rollback, Exit
  <2>. QED BY <2>1 DEF OnTheWay, Serving
<1>5. ASSUME NEW a \in Anchor, InstallAnchor(a) \/ RemoveAnchor(a)
      PROVE  OnTheWay'
  <2>1. /\ pc = "idle" /\ mem # NoSnap /\ pc' = "anchorsave" /\ UNCHANGED <<table, plan>>
        /\ \E X : snap' = [mem EXCEPT !.anchors = X]
    BY <1>5 DEF InstallAnchor, RemoveAnchor
  <2>2. snap'.iface = mem.iface /\ snap'.pending = mem.pending
    BY <1>0, <2>1 DEF Snapshot
  <2>3. Serving' = snap' BY <2>1 DEF Serving
  <2>. QED BY <1>f, <1>s, <2>1, <2>2, <2>3, WayKept
<1>. QED BY <1>1, <1>2, <1>3, <1>4, <1>5 DEF Request

LEMMA WayApply ==
    Shape /\ DnsOK /\ RoutesOK /\ SessionOK /\ OnTheWay /\ Apply => OnTheWay'
<1>. SUFFICES ASSUME Shape, DnsOK, RoutesOK, SessionOK, OnTheWay, Apply, NoFailure'
              PROVE  OnTheWay'
  BY DEF OnTheWay
<1>0. pc \in Preparing => snap \in Snapshot /\ Serving = snap /\ Serving # NoSnap
  BY NoSnapAssumption
     DEF Shape, WorkOK, BusyHasSnap, Working, Preparing, Serving
<1>f. NoFailure /\ ~Fault BY NoFailureYet DEF Next
<1>p. plan \in Seq(PlanRec) BY DEF Shape, WorkOK
<1>t. table \in [Dest -> Via] BY DEF Shape, SystemOK
(* A handler goes on with the same session, or leaves it in memory. *)
<1>k. ASSUME pc \in Preparing, NEW s, s.iface = snap.iface, s.pending = snap.pending,
             Serving' = s, UNCHANGED <<table, plan>>,
             op = "prepare" =>
               op' = "prepare" \/ ~(Len(snap.pending) < Len(CapturePlan))
      PROVE  OnTheWay'
  BY <1>0, <1>f, <1>k, WayKept
<1>1. CASE InstallRoute
  <2>. DEFINE d == Head(plan).dest
              via == IF d \in Capture THEN snap.iface ELSE snap.gw
  <2>1. /\ pc = "apply" /\ plan # <<>> /\ pc' = "record" /\ plan' = Tail(plan)
        /\ op' = op /\ table' = [table EXCEPT ![d] = via]
        /\ \E r : snap' = [snap EXCEPT !.installed = Append(snap.installed, r)]
    BY <1>1 DEF InstallRoute
  <2>2. snap'.iface = snap.iface /\ snap'.pending = snap.pending
    BY <1>0, <2>1 DEF Snapshot, Preparing
  <2>3. Serving = snap /\ Serving' = snap' /\ Serving # NoSnap
    BY <1>0, <2>1 DEF Serving, Preparing
  <2>. SUFFICES ASSUME NEW i \in 1 .. Len(CapturePlan)
                PROVE  \/ table'[CapturePlan[i].dest] = snap.iface
                       \/ Among(plan', CapturePlan[i].dest)
                       \/ Among(snap.pending, CapturePlan[i].dest)
                       \/ op = "prepare" /\ i > Len(snap.pending)
    BY <2>1, <2>2, <2>3 DEF OnTheWay
  <2>4. CapturePlan[i].dest \in Capture /\ CapturePlan[i].dest \in Dest BY CaptureKey
  <2>5. \/ table[CapturePlan[i].dest] = snap.iface
        \/ Among(plan, CapturePlan[i].dest)
        \/ Among(snap.pending, CapturePlan[i].dest)
        \/ op = "prepare" /\ i > Len(snap.pending)
    BY <1>f, <2>3 DEF OnTheWay
  <2>6. CASE CapturePlan[i].dest = d BY <1>t, <2>1, <2>4, <2>6
  <2>7. CASE CapturePlan[i].dest # d
    <3>1. table'[CapturePlan[i].dest] = table[CapturePlan[i].dest]
      BY <1>t, <2>1, <2>4, <2>7
    <3>2. Among(plan, CapturePlan[i].dest) => Among(plan', CapturePlan[i].dest)
      BY <1>p, <2>1, <2>7, RestOfPlan
    <3>. QED BY <2>5, <3>1, <3>2
  <2>. QED BY <2>6, <2>7
<1>2. CASE RouteFails \/ SaveRouteFails \/ ConfigureFails \/ SetDnsFails \/ DeferRouteFails
           \/ BackupDnsFails \/ MarkUpFails \/ SaveAnchorsFails
  BY <1>2, <1>f DEF RouteFails, SaveRouteFails, ConfigureFails, SetDnsFails,
                    DeferRouteFails, BackupDnsFails, MarkUpFails, SaveAnchorsFails
<1>3. CASE SaveRoute
  <2>1. pc = "record" /\ pc' = "apply" /\ UNCHANGED <<table, snap, plan, op>>
    BY <1>3 DEF SaveRoute, system
  <2>2. Serving' = snap BY <2>1 DEF Serving
  <2>. QED BY <1>k, <2>1, <2>2 DEF Preparing
<1>5. CASE DeferRoute
  <2>. DEFINE n == Len(snap.pending)
              r == [dest |-> CapturePlan[n + 1].dest, via |-> snap.iface,
                    replaced |-> NoRoute]
  <2>1. /\ pc = "apply" /\ pc' = "apply" /\ op = "prepare" /\ n < Len(CapturePlan)
        /\ snap' = Deferred /\ UNCHANGED <<table, plan, op>>
    BY <1>5 DEF DeferRoute, DeferTurn, system
  <2>2. snap \in Snapshot /\ Serving = snap /\ Serving # NoSnap /\ Serving' = Deferred
    BY <1>0, <2>1 DEF Serving, Preparing
  <2>3. snap.pending \in Seq(RouteRec) /\ n \in Nat BY <2>2 DEF Snapshot
  <2>4. Deferred = [snap EXCEPT !.pending = Append(snap.pending, r)]
    BY DEF Deferred
  <2>5. r.dest = CapturePlan[n + 1].dest OBVIOUS
  <2>. HIDE DEF r
  <2>6. Deferred.iface = snap.iface /\ Deferred.pending = Append(snap.pending, r)
    BY <2>2, <2>4 DEF Snapshot
  <2>7. /\ Len(Append(snap.pending, r)) = n + 1
        /\ Append(snap.pending, r)[n + 1] = r
        /\ \A i \in 1 .. n : Append(snap.pending, r)[i] = snap.pending[i]
    BY <2>3
  <2>. HIDE DEF n
  <2>. SUFFICES ASSUME NEW i \in 1 .. Len(CapturePlan)
                PROVE  \/ table[CapturePlan[i].dest] = snap.iface
                       \/ Among(plan, CapturePlan[i].dest)
                       \/ Among(Deferred.pending, CapturePlan[i].dest)
                       \/ i > Len(Deferred.pending)
    BY <2>1, <2>2, <2>6 DEF OnTheWay
  <2>8. \/ table[CapturePlan[i].dest] = snap.iface
        \/ Among(plan, CapturePlan[i].dest)
        \/ Among(snap.pending, CapturePlan[i].dest)
        \/ i > n
    BY <1>f, <2>2 DEF OnTheWay, n
  <2>9. Among(snap.pending, CapturePlan[i].dest) => Among(Deferred.pending, CapturePlan[i].dest)
    BY <2>3, <2>6, <2>7 DEF Among, n
  <2>10. CASE i = n + 1
    <3>1. n + 1 \in 1 .. n + 1 BY <2>3
    <3>. QED BY <2>5, <2>6, <2>7, <2>10, <3>1 DEF Among
  <2>11. i > n /\ i # n + 1 => i > Len(Deferred.pending) BY <2>3, <2>6, <2>7
  <2>. QED BY <2>8, <2>9, <2>10, <2>11
<1>7. CASE Prepared
  <2>1. /\ pc = "apply" /\ plan = <<>> /\ ~(Len(snap.pending) < Len(CapturePlan))
        /\ mem' = snap /\ pc' = "idle" /\ plan' = <<>> /\ table' = table
    <3>1. Len(snap.pending) \in Nat /\ Len(CapturePlan) \in Nat
      <4>1. CapturePlan \in Seq([dest : Capture, critical : {TRUE}]) BY PlanAssumption
      <4>2. snap \in Snapshot BY <1>0, <1>7 DEF Prepared, DeferTurn, Preparing
      <4>. QED BY <4>1, <4>2 DEF Snapshot
    <3>. QED BY <1>7, <3>1 DEF Prepared, DeferTurn, Idle, system
  <2>2. Serving' = snap BY <2>1 DEF Serving
  <2>. QED BY <1>k, <2>1, <2>2 DEF Preparing
<1>8. CASE BackupDns
  <2>1. /\ pc = "apply" /\ pc' = "setdns" /\ snap' = BackedUp
        /\ UNCHANGED <<table, plan, op>>
    BY <1>8 DEF BackupDns, DnsTurn, system
  <2>2. BackedUp.iface = snap.iface /\ BackedUp.pending = snap.pending
    BY <1>0, <2>1 DEF BackedUp, Preparing, Snapshot
  <2>3. Serving' = snap' BY <2>1 DEF Serving
  <2>. QED BY <1>k, <2>1, <2>2, <2>3 DEF Preparing
<1>9. CASE SetDns
  <2>1. pc = "setdns" /\ pc' = "apply" /\ UNCHANGED <<table, snap, plan, op>>
    BY <1>9 DEF SetDns
  <2>2. Serving' = snap BY <2>1 DEF Serving
  <2>. QED BY <1>k, <2>1, <2>2 DEF Preparing
<1>10. CASE MarkUp
  <2>1. /\ pc = "apply" /\ plan = <<>> /\ op # "prepare" /\ pc' = "idle" /\ plan' = <<>>
        /\ mem' = [snap EXCEPT !.state = "Up"] /\ table' = table
    BY <1>10 DEF MarkUp, DnsTurn, Idle, system
  <2>2. mem'.iface = snap.iface /\ mem'.pending = snap.pending
    BY <1>0, <2>1 DEF Preparing, Snapshot
  <2>3. Serving' = mem' BY <2>1 DEF Serving
  <2>. QED BY <1>k, <2>1, <2>2, <2>3 DEF Preparing
<1>12. CASE SaveAnchors
  <2>1. /\ pc = "anchorsave" /\ pc' = "idle" /\ mem' = snap /\ table' = table
        /\ plan' = <<>>
    BY <1>12 DEF SaveAnchors, Idle, system
  <2>2. plan = <<>> /\ op # "prepare"
    BY <2>1 DEF RoutesOK, NothingPlanned, SessionOK, InHandler
  <2>3. Serving' = snap BY <2>1 DEF Serving
  <2>. QED BY <1>k, <2>1, <2>2, <2>3 DEF Preparing
<1>. QED
  BY <1>1, <1>2, <1>3, <1>5, <1>7, <1>8, <1>9, <1>10, <1>12 DEF Apply

(* What the rest of the machine does to the routes of a session: those     *)
(* over its device stay while the helper holds the device.                 *)
LEMMA RoutesStay ==
    ASSUME Shape, RoutesOK, AppExit \/ \E v \in Gateway \cup {NoRoute} : NetworkSwitch(v),
           NEW c \in Capture, NEW t \in Tun, table[c] = t, holders'[t] # {}
    PROVE  table'[c] = table[c]
<1>t. table \in [Dest -> Via] /\ c \in Dest /\ c # Default
  BY KeysAssumption DEF Shape, SystemOK
<1>1. CASE AppExit
  BY <1>1, <1>t DEF AppExit, Sweep, Live
<1>2. ASSUME NEW v \in Gateway \cup {NoRoute}, NetworkSwitch(v)
      PROVE  table'[c] = table[c]
  BY <1>2, <1>t DEF NetworkSwitch
<1>. QED BY <1>1, <1>2

LEMMA WayNext ==
    Shape /\ DnsOK /\ RoutesOK /\ SessionOK /\ OnTheWay /\ [Next]_vars => OnTheWay'
<1>. SUFFICES ASSUME Shape, DnsOK, RoutesOK, SessionOK, OnTheWay, [Next]_vars
              PROVE  OnTheWay'
  OBVIOUS
<1>f. NoFailure' => NoFailure BY NoFailureYet
<1>1. CASE Undo \/ Recover
  BY <1>1, NothingToServe DEF OnTheWay
<1>2. CASE Crash
  <2>1. pc' = "down" BY <1>2 DEF Crash, Exit
  <2>. QED BY <2>1 DEF OnTheWay, Serving
<1>3. CASE AppExit \/ \E v \in Gateway \cup {NoRoute} : NetworkSwitch(v)
  <2>1. UNCHANGED <<mem, work>> BY <1>3 DEF AppExit, NetworkSwitch
  <2>2. Serving' = Serving /\ plan' = plan /\ op' = op BY <2>1 DEF work, Serving
  <2>3. CASE Serving # NoSnap
    <3>1. Serving \in Snapshot /\ Serving.iface \in Tun
      BY <2>3 DEF Serving, Shape, StoreOK, WorkOK, BusyHasSnap, Working, Snapshot
    <3>2. "helper" \in holders'[Serving.iface]
      BY <1>3, <2>2, <2>3, RoutesEnvironment DEF Environment, RoutesOK, Held
    <3>3. \A c \in Capture : table[c] = Serving.iface => table'[c] = table[c]
      BY <1>3, <3>1, <3>2, RoutesStay
    <3>. QED BY <1>f, <2>2, <2>3, <3>3, WayKept
  <2>4. CASE Serving = NoSnap BY <2>2, <2>4 DEF OnTheWay
  <2>. QED BY <2>3, <2>4
<1>4. CASE UNCHANGED vars
  BY <1>4 DEF vars, system, work, OnTheWay, Serving, NoFailure, Among
<1>. QED
  BY <1>1, <1>2, <1>3, <1>4, WayRequest, WayApply DEF Next, Environment

(* Undoing a record takes its service off the sentinel.                    *)
LEMMA UndoneService ==
    ASSUME Shape, pc = "undo", left > Len(Routes(snap)), NoFailure', Next, UndoDns
    PROVE  /\ left - Len(Routes(snap)) \in 1 .. Len(snap.dns)
           /\ Sentinel \notin dns'[snap.dns[left - Len(Routes(snap))].svc]
           /\ \A s \in Service : Sentinel \in dns'[s] => Sentinel \in dns[s]
<1>0. snap \in Snapshot BY DEF Shape, WorkOK, BusyHasSnap, Working
<1>1. left - Len(Routes(snap)) \in 1 .. Len(snap.dns)
  BY <1>0, RoutesType DEF Shape, WorkOK, LeftBounded, Count
<1>. DEFINE b == snap.dns[left - Len(Routes(snap))]
<1>2. Sentinel \notin b.servers /\ b.svc \in Service
  BY <1>0, <1>1, ServiceOf, RecordsType
<1>3. dns' = [dns EXCEPT ![b.svc] = b.servers] BY NoFailureYet DEF UndoDns
<1>. HIDE DEF b
<1>4. Sentinel \notin dns'[b.svc] /\ \A s \in Service : Sentinel \in dns'[s] => Sentinel \in dns[s]
  BY <1>2, <1>3 DEF Shape, SystemOK
<1>. QED BY <1>1, <1>4 DEF b

(* With every service off, the sentinel is nobody's resolver.              *)
LEMMA NobodyOnTunnel ==
    ASSUME Shape, DnsOK, UndoneServices, NoFailure, lost = {},
           pc \in {"undo", "restore"}, ~(left > Len(Routes(snap))), NEW s \in Service
    PROVE  Sentinel \notin dns[s]
<1>0. snap \in Snapshot /\ DnsServices(disk) \subseteq DnsServices(snap)
  BY DEF Shape, WorkOK, BusyHasSnap, Working, DnsOK, RecordsKept
<1>1. SUFFICES ASSUME s \in DnsServices(snap) PROVE Sentinel \notin dns[s]
  BY <1>0 DEF DnsOK, SentinelRecorded
<1>2. PICK j \in 1 .. Len(snap.dns) : s = snap.dns[j].svc
  BY <1>0, <1>1, NoSnapAssumption DEF DnsServices
<1>3. j > left - Len(Routes(snap))
  BY <1>0, RoutesType DEF Shape, WorkOK
<1>. QED BY <1>2, <1>3 DEF UndoneServices

(* Only set_dns points a service at the tunnel.                            *)
LEMMA OnlySetDnsLends ==
    ASSUME Shape, [Next]_vars, ~SetDns, NEW s \in Service, Sentinel \in dns'[s]
    PROVE  Sentinel \in dns[s]
<1>1. CASE dns' = dns BY <1>1
<1>w. ASSUME NEW b \in DnsRec, dns' = [dns EXCEPT ![b.svc] = b.servers] \/ dns' = dns
      PROVE  Sentinel \in dns[s]
  BY <1>w, SentinelAssumption DEF DnsRec, Shape, SystemOK
<1>2. CASE UndoDns
  <2>0. snap \in Snapshot BY <1>2 DEF UndoDns, Shape, WorkOK, BusyHasSnap, Working
  <2>1. left - Len(Routes(snap)) \in 1 .. Len(snap.dns)
    BY <1>2, <2>0, RoutesType DEF UndoDns, Shape, WorkOK, LeftBounded, Count
  <2>2. snap.dns[left - Len(Routes(snap))] \in DnsRec
    BY <2>0, <2>1, ElementOfSeq DEF Snapshot
  <2>. QED BY <1>2, <1>w, <2>2 DEF UndoDns
<1>3. CASE CheckDns
  <2>0. snap \in Snapshot BY <1>3 DEF CheckDns, Shape, WorkOK, BusyHasSnap, Working
  <2>1. Len(snap.dns) - left + 1 \in 1 .. Len(snap.dns)
    BY <1>3, <2>0, RoutesType DEF CheckDns, Shape, WorkOK, LeftBounded
  <2>2. snap.dns[Len(snap.dns) - left + 1] \in DnsRec
    BY <2>0, <2>1, ElementOfSeq DEF Snapshot
  <2>. DEFINE b == snap.dns[Len(snap.dns) - left + 1]
  <2>3. dns' = [dns EXCEPT ![b.svc] = b.servers] \/ dns' = dns
    BY <1>3 DEF CheckDns
  <2>. QED BY <1>w, <2>2, <2>3
<1>4. CASE Reconcile
  <2>1. Original(disk, s) \in SUBSET Resolver
    BY OriginalType DEF Shape, StoreOK
  <2>2. \/ dns' = dns
        \/ \E bad : dns' = [x \in Service |->
                        IF Sentinel \in dns[x] /\ x \notin bad
                        THEN Original(disk, x) ELSE dns[x]]
    BY <1>4 DEF Reconcile
  <2>. QED BY <2>1, <2>2, SentinelAssumption
<1>5. Request => dns' = dns
  BY DEF Request, TunUp, CommitRoutes, TakeTunFd, TunDown, Restore, Sigterm, Exit,
         InstallAnchor, RemoveAnchor, system
<1>6. Apply => dns' = dns
  BY DEF Apply, InstallRoute, RouteFails, SaveRoute, SaveRouteFails, ConfigureFails,
         DeferRoute, DeferRouteFails, Prepared, BackupDns, BackupDnsFails,
         SetDnsFails, MarkUp, MarkUpFails, SaveAnchors, SaveAnchorsFails, system
<1>7. Undo => dns' = dns \/ UndoDns \/ CheckDns
  BY DEF Undo, UndoAnchors, DeleteRoute, RestoreRoute, SkipChecks, CheckRoutes,
         Clear, EndSession, EndCommit, EndRestore, EndBoot, EndTerm, Exit, system
<1>8. Recover => dns' = dns \/ Reconcile
  BY DEF Recover, Boot, BootAnchors, SaveBootAnchors, LeaveRunning, RollbackStale,
         system
<1>9. Environment \/ UNCHANGED vars => dns' = dns
  BY DEF Environment, Crash, Exit, AppExit, NetworkSwitch, vars, system
<1>. QED
  BY <1>1, <1>2, <1>3, <1>4, <1>5, <1>6, <1>7, <1>8, <1>9 DEF Next

LEMMA UndoneNext ==
    Shape /\ DnsOK /\ UndoneServices /\ [Next]_vars => UndoneServices'
<1>. SUFFICES ASSUME Shape, DnsOK, UndoneServices, [Next]_vars
              PROVE  UndoneServices'
  OBVIOUS
<1>f. NoFailure' => NoFailure BY NoFailureYet
<1>0. pc \in {"anchors", "undo", "restore"} =>
        snap \in Snapshot /\ Len(Routes(snap)) \in Nat /\ Len(snap.dns) \in Nat
  BY RoutesType DEF Shape, WorkOK, BusyHasSnap, Working
<1>n. left \in Nat BY DEF Shape, WorkOK
<1>r. ASSUME NEW s, Rollback(s) PROVE UndoneServices'
  BY <1>r DEF Rollback, UndoneServices
<1>q. ASSUME pc' \notin {"anchors", "undo", "restore"} PROVE UndoneServices'
  BY <1>q DEF UndoneServices
<1>1. CASE UndoAnchors
  <2>1. pc = "anchors" /\ pc' = "undo" /\ UNCHANGED <<snap, left>>
    BY <1>1 DEF UndoAnchors
  <2>2. \A j \in 1 .. Len(snap.dns) : ~(j > left - Len(Routes(snap)))
    BY <1>0, <2>1 DEF UndoneServices, Count
  <2>3. Routes(snap') = Routes(snap) BY <2>1
  <2>. QED BY <2>1, <2>2, <2>3 DEF UndoneServices, Routes
<1>2. CASE UndoDns
  <2>1. /\ pc = "undo" /\ pc' = "undo" /\ snap' = snap /\ left' = left - 1
        /\ left > Len(Routes(snap))
    BY <1>2 DEF UndoDns
  <2>. DEFINE k == left - Len(Routes(snap))
  <2>2. ASSUME NoFailure', NEW j \in 1 .. Len(snap.dns), j > left' - Len(Routes(snap))
        PROVE  Sentinel \notin dns'[snap.dns[j].svc]
    <3>1. /\ Sentinel \notin dns'[snap.dns[k].svc]
          /\ \A s \in Service : Sentinel \in dns'[s] => Sentinel \in dns[s]
      BY <1>2, <2>1, <2>2, UndoneService DEF Next, Undo
    <3>2. snap.dns[j].svc \in Service
      BY <1>0, <2>1, ServiceOf, RecordsType
    <3>3. j = k \/ j > left - Len(Routes(snap)) BY <1>0, <1>n, <2>1, <2>2
    <3>. QED BY <1>f, <2>1, <2>2, <3>1, <3>2, <3>3 DEF UndoneServices
  <2>3. Routes(snap') = Routes(snap) BY <2>1
  <2>. QED BY <2>1, <2>2, <2>3 DEF UndoneServices, Routes
<1>3. CASE DeleteRoute \/ RestoreRoute
  <2>1. /\ pc' \in {"undo", "restore"} /\ UNCHANGED <<dns, snap>>
        /\ pc \in {"undo", "restore"}
        /\ pc = "undo" => left \in 1 .. Len(Routes(snap))
    BY <1>3 DEF DeleteRoute, RestoreRoute
  <2>2. left \in 1 .. Len(Routes(snap)) BY <2>1 DEF Shape, WorkOK, LeftBounded
  <2>3. \A j \in 1 .. Len(snap.dns) : j > left - Len(Routes(snap))
    BY <1>0, <2>1, <2>2
  <2>. QED BY <1>f, <2>1, <2>3 DEF UndoneServices
<1>4. CASE SkipChecks \/ CheckRoutes \/ CheckDns \/ Clear \/ EndBoot
  BY <1>4, <1>q DEF SkipChecks, CheckRoutes, CheckDns, Clear, EndBoot
<1>5. CASE EndSession \/ EndCommit \/ EndRestore \/ EndTerm
  BY <1>5, <1>q, <1>r DEF EndSession, EndCommit, EndRestore, EndTerm, Idle, Exit
<1>6. CASE Recover
  BY <1>6, <1>q, <1>r DEF Recover, Boot, BootAnchors, SaveBootAnchors, LeaveRunning,
                          RollbackStale, Reconcile, Idle
<1>7. CASE Request
  <2>1. CASE TakeTunFd
    BY <1>f, <2>1 DEF TakeTunFd, work, UndoneServices, Count, Routes
  <2>2. CASE ~TakeTunFd
    BY <1>7, <1>q, <1>r, <2>2
       DEF Request, TunUp, CommitRoutes, TunDown, Restore, Sigterm, Exit,
           InstallAnchor, RemoveAnchor
  <2>. QED BY <2>1, <2>2
<1>8. CASE Apply
  <2>1. CASE RouteFails /\ ~Abort
    BY <2>1, <1>q DEF RouteFails
  <2>2. CASE ~(RouteFails /\ ~Abort)
    BY <1>8, <1>q, <1>r, <2>2
       DEF Apply, InstallRoute, RouteFails, SaveRoute, SaveRouteFails, ConfigureFails,
           DeferRoute, DeferRouteFails, Prepared, BackupDns, BackupDnsFails, SetDns,
           SetDnsFails, MarkUp, MarkUpFails, SaveAnchors, SaveAnchorsFails, Abort,
           Idle, DeferTurn, DnsTurn
  <2>. QED BY <2>1, <2>2
<1>9. CASE Environment
  <2>1. CASE Crash BY <1>q, <2>1 DEF Crash, Exit
  <2>2. CASE AppExit \/ \E v \in Gateway \cup {NoRoute} : NetworkSwitch(v)
    BY <1>f, <2>2 DEF AppExit, NetworkSwitch, work, UndoneServices, Count, Routes
  <2>. QED BY <1>9, <2>1, <2>2 DEF Environment
<1>10. CASE UNCHANGED vars
  BY <1>10, <1>f DEF vars, system, work, UndoneServices, Count, Routes
<1>. QED
  BY <1>1, <1>2, <1>3, <1>4, <1>5, <1>6, <1>7, <1>8, <1>9, <1>10 DEF Next, Undo

(* A step under which the tunnel's users, its file and its captures stay.  *)
LEMMA InsideKept ==
    ASSUME Shape, [Next]_vars, DnsInsideTunnel, ~SetDns,
           disk' # NoSnap => disk # NoSnap /\ disk'.iface = disk.iface,
           disk' # NoSnap /\ holders'[disk'.iface] # {} =>
             /\ holders[disk.iface] # {}
             /\ \A c \in Capture : table[c] = disk.iface => table'[c] = disk.iface
    PROVE  DnsInsideTunnel'
<1>. SUFFICES ASSUME NoFailure', lost' = {}, disk' # NoSnap, holders'[disk'.iface] # {},
                     NEW s \in Service, Sentinel \in dns'[s],
                     NEW i \in 1 .. Len(CapturePlan)
              PROVE  table'[CapturePlan[i].dest] = disk'.iface
  BY DEF DnsInsideTunnel
<1>1. NoFailure /\ lost = {} BY NoFailureYet, LostGrows
<1>2. Sentinel \in dns[s] BY OnlySetDnsLends
<1>3. table[CapturePlan[i].dest] = disk.iface BY <1>1, <1>2 DEF DnsInsideTunnel
<1>. QED BY <1>3, CaptureKey

(* The helper closes its descriptors: a device others hold keeps its rows.  *)
LEMMA ClosedRows ==
    ASSUME Shape, NEW units, CloseHelper(units), NEW t \in Tun, holders'[t] # {}
    PROVE  holders[t] # {} /\ \A c \in Capture : table[c] = t => table'[c] = t
<1>1. holders \in [Tun -> SUBSET Holder] /\ Capture \subseteq Dest
  BY KeysAssumption DEF Shape, SystemOK
<1>2. holders[t] # {} BY <1>1 DEF CloseHelper, Close
<1>3. \A c \in Capture : table[c] = t => table'[c] = t
  BY <1>1 DEF CloseHelper, Sweep, Live
<1>. QED BY <1>2, <1>3

LEMMA InsideRequest ==
    ASSUME Shape, DnsOK, RoutesOK, SessionOK, DnsInsideTunnel, Request
    PROVE  DnsInsideTunnel'
<1>n. [Next]_vars BY DEF Next
<1>d. disk # NoSnap => disk \in Snapshot /\ disk.iface \in Tun
  BY DEF Shape, StoreOK, Snapshot
<1>q. ASSUME ~SetDns, UNCHANGED <<table, holders, disk>> PROVE DnsInsideTunnel'
  BY <1>n, <1>q, InsideKept
<1>1. ASSUME NEW t \in Tun, NEW defer \in DeferModes, TunUp(t, defer)
      PROVE  DnsInsideTunnel'
  <2>. SUFFICES ASSUME lost' = {}, NEW s \in Service, Sentinel \in dns'[s] PROVE FALSE
    BY DEF DnsInsideTunnel
  <2>1. dns' = dns /\ lost = {} /\ DnsServices(disk) = {} BY <1>1 DEF TunUp
  <2>. QED BY <2>1 DEF DnsOK, SentinelRecorded
<1>2. CASE CommitRoutes \/ TunDown \/ Restore
  BY <1>2, <1>q DEF CommitRoutes, TunDown, Restore, SetDns, system
<1>3. CASE TakeTunFd
  <2>1. /\ pc = "idle" /\ mem # NoSnap /\ UNCHANGED <<table, disk>>
        /\ holders' = [holders EXCEPT ![mem.iface] = @ \cup {"app"}]
    BY <1>3 DEF TakeTunFd
  <2>2. "helper" \in holders[mem.iface] /\ disk # NoSnap /\ disk.iface = mem.iface
    BY <2>1 DEF RoutesOK, Held, Serving, SessionOK, SameDevice
  <2>. QED BY <1>n, <2>1, <2>2, InsideKept DEF SetDns
<1>4. CASE Sigterm
  <2>1. CASE Exit
    <3>1. pc = "idle" /\ disk' = disk /\ CloseHelper(Tun) BY <1>4, <2>1 DEF Sigterm, Exit
    <3>. QED BY <1>d, <1>n, <3>1, ClosedRows, InsideKept DEF SetDns
  <2>2. CASE ~Exit BY <1>4, <1>q, <2>2 DEF Sigterm, SetDns, system
  <2>. QED BY <2>1, <2>2
<1>5. ASSUME NEW a \in Anchor, InstallAnchor(a) \/ RemoveAnchor(a)
      PROVE  DnsInsideTunnel'
  BY <1>5, <1>q DEF InstallAnchor, RemoveAnchor, SetDns
<1>. QED BY <1>1, <1>2, <1>3, <1>4, <1>5 DEF Request

LEMMA InsideApply ==
    ASSUME Shape, DnsOK, RoutesOK, SessionOK, OnTheWay, DnsInsideTunnel, Apply
    PROVE  DnsInsideTunnel'
<1>. SUFFICES ASSUME NoFailure' PROVE DnsInsideTunnel'
  BY DEF DnsInsideTunnel
<1>n. [Next]_vars BY DEF Next
<1>f. NoFailure /\ ~Fault BY <1>n, NoFailureYet
<1>0. pc \in Preparing => /\ snap \in Snapshot /\ snap # NoSnap
                          /\ disk # NoSnap /\ disk.iface = snap.iface
  BY NoSnapAssumption
     DEF Shape, WorkOK, BusyHasSnap, Working, Preparing, SessionOK, SameDevice
<1>s. ASSUME ~SetDns, UNCHANGED <<table, holders>>,
             disk' = disk \/ (disk'.iface = disk.iface /\ disk # NoSnap)
      PROVE  DnsInsideTunnel'
  BY <1>n, <1>s, InsideKept
<1>1. CASE InstallRoute
  <2>. DEFINE d == Head(plan).dest
  <2>1. /\ pc = "apply" /\ UNCHANGED <<disk, holders>>
        /\ table' = [table EXCEPT ![d] = IF d \in Capture THEN snap.iface ELSE snap.gw]
    BY <1>1 DEF InstallRoute
  <2>2. \A c \in Capture : table[c] = disk.iface => table'[c] = disk.iface
    BY <1>0, <2>1 DEF Preparing, Shape, SystemOK
  <2>. QED BY <1>n, <2>1, <2>2, InsideKept DEF SetDns
<1>2. CASE RouteFails \/ SaveRouteFails \/ ConfigureFails \/ SetDnsFails \/ DeferRouteFails
           \/ BackupDnsFails \/ MarkUpFails \/ SaveAnchorsFails
  BY <1>2, <1>f DEF RouteFails, SaveRouteFails, ConfigureFails, SetDnsFails,
                    DeferRouteFails, BackupDnsFails, MarkUpFails, SaveAnchorsFails
<1>3. CASE SaveRoute
  BY <1>0, <1>3, <1>s DEF SaveRoute, SetDns, Preparing, system
<1>4. CASE DeferRoute
  <2>1. pc = "apply" /\ disk' = Deferred /\ UNCHANGED <<table, holders>>
    BY <1>4 DEF DeferRoute, DeferTurn, system
  <2>2. Deferred.iface = snap.iface BY <1>0, <2>1 DEF Deferred, Preparing, Snapshot
  <2>. QED BY <1>0, <1>s, <2>1, <2>2 DEF SetDns, Preparing
<1>5. CASE Prepared
  <2>1. pc = "apply" /\ UNCHANGED <<table, holders, disk>>
    BY <1>5 DEF Prepared, DeferTurn, system
  <2>2. ~SetDns BY <2>1 DEF SetDns
  <2>. QED BY <1>s, <2>1, <2>2
<1>6. CASE BackupDns
  <2>1. pc = "apply" /\ disk' = BackedUp /\ UNCHANGED <<table, holders>>
    BY <1>6 DEF BackupDns, DnsTurn, system
  <2>2. BackedUp.iface = snap.iface BY <1>0, <2>1 DEF BackedUp, Preparing, Snapshot
  <2>. QED BY <1>0, <1>s, <2>1, <2>2 DEF SetDns, Preparing
<1>7. CASE SetDns
  <2>1. pc = "setdns" /\ UNCHANGED <<table, disk>> BY <1>7 DEF SetDns
  <2>2. Serving = snap /\ Serving # NoSnap /\ disk.iface = snap.iface
    BY <1>0, <2>1 DEF Serving, Preparing
  <2>3. plan = <<>> /\ op # "prepare" /\ snap.pending = <<>>
    BY <2>1 DEF SessionOK, InHandler, Installing
  <2>4. \A i \in 1 .. Len(CapturePlan) : table[CapturePlan[i].dest] = snap.iface
    BY <1>f, <2>2, <2>3 DEF OnTheWay, Among
  <2>. QED BY <2>1, <2>2, <2>4 DEF DnsInsideTunnel
<1>8. CASE MarkUp
  <2>1. /\ pc = "apply" /\ disk' = [snap EXCEPT !.state = "Up"]
        /\ UNCHANGED <<table, holders>>
    BY <1>8 DEF MarkUp, DnsTurn, system
  <2>2. disk'.iface = snap.iface BY <1>0, <2>1 DEF Preparing, Snapshot
  <2>. QED BY <1>0, <1>s, <2>1, <2>2 DEF SetDns, Preparing
<1>9. CASE SaveAnchors
  BY <1>0, <1>9, <1>s DEF SaveAnchors, SetDns, Preparing, system
<1>. QED
  BY <1>1, <1>2, <1>3, <1>4, <1>5, <1>6, <1>7, <1>8, <1>9 DEF Apply

LEMMA InsideUndo ==
    ASSUME Shape, DnsOK, UndoneServices, DnsInsideTunnel, Undo
    PROVE  DnsInsideTunnel'
<1>. SUFFICES ASSUME NoFailure', lost' = {} PROVE DnsInsideTunnel'
  BY DEF DnsInsideTunnel
<1>n. [Next]_vars BY DEF Next
<1>f. NoFailure /\ lost = {} BY <1>n, NoFailureYet, LostGrows
<1>d. disk # NoSnap => disk \in Snapshot /\ disk.iface \in Tun
  BY DEF Shape, StoreOK, Snapshot
<1>t. Default \notin Capture /\ table \in [Dest -> Via]
  BY KeysAssumption DEF Shape, SystemOK
<1>1. CASE UndoAnchors \/ UndoDns \/ SkipChecks \/ CheckDns \/ Clear \/ EndCommit \/ EndBoot
  <2>1. ~SetDns /\ UNCHANGED <<table, holders>> /\ disk' \in {disk, NoSnap}
    BY <1>1 DEF UndoAnchors, UndoDns, SkipChecks, CheckDns, Clear, EndCommit,
                EndBoot, SetDns, system
  <2>. QED BY <1>n, <2>1, InsideKept
<1>2. CASE DeleteRoute \/ RestoreRoute
  <2>1. pc \in {"undo", "restore"} /\ left \in 1 .. Len(Routes(snap)) /\ dns' = dns
    BY <1>2 DEF DeleteRoute, RestoreRoute, Shape, WorkOK, LeftBounded
  <2>2. ~(left > Len(Routes(snap)))
    <3>1. Len(Routes(snap)) \in Nat
      BY <2>1, RoutesType DEF Shape, WorkOK, BusyHasSnap, Working
    <3>. QED BY <2>1, <3>1
  <2>3. \A s \in Service : Sentinel \notin dns'[s]
    BY <1>f, <2>1, <2>2, NobodyOnTunnel
  <2>. QED BY <2>3 DEF DnsInsideTunnel
<1>3. CASE CheckRoutes
  <2>1. /\ ~SetDns /\ UNCHANGED <<disk, holders>>
        /\ table' = [table EXCEPT ![Default] = snap.gw] \/ table' = table
    BY <1>3 DEF CheckRoutes, SetDns
  <2>2. \A c \in Capture : table'[c] = table[c] BY <1>t, <2>1, KeysAssumption
  <2>. QED BY <1>n, <2>1, <2>2, InsideKept
<1>4. CASE EndSession \/ EndRestore \/ EndTerm
  <2>1. ~SetDns /\ disk' = disk /\ \E units : CloseHelper(units)
    BY <1>4 DEF EndSession, EndRestore, EndTerm, Exit, SetDns
  <2>. QED BY <1>d, <1>n, <2>1, ClosedRows, InsideKept
<1>. QED BY <1>1, <1>2, <1>3, <1>4 DEF Undo

LEMMA InsideRest ==
    ASSUME Shape, RoutesOK, SessionOK, DnsInsideTunnel,
           Recover \/ Environment \/ UNCHANGED vars
    PROVE  DnsInsideTunnel'
<1>n. [Next]_vars BY DEF Next
<1>d. disk # NoSnap => disk \in Snapshot /\ disk.iface \in Tun
  BY DEF Shape, StoreOK, Snapshot
<1>1. CASE Recover
  <2>1. /\ pc # "setdns" /\ UNCHANGED <<table, holders>>
        /\ disk' = disk \/ (pc = "bootsave" /\ disk' = snap)
    BY <1>1 DEF Recover, Boot, BootAnchors, SaveBootAnchors, LeaveRunning,
                RollbackStale, Reconcile, system
  <2>2. disk' # NoSnap => disk # NoSnap /\ disk'.iface = disk.iface
    BY <2>1 DEF SessionOK, SameDevice
  <2>3. ~SetDns BY <2>1 DEF SetDns
  <2>. QED BY <1>n, <2>1, <2>2, <2>3, InsideKept
<1>2. CASE Crash
  <2>1. ~SetDns /\ disk' = disk /\ CloseHelper(Tun) BY <1>2 DEF Crash, Exit, SetDns
  <2>. QED BY <1>d, <1>n, <2>1, ClosedRows, InsideKept
<1>3. CASE AppExit \/ \E v \in Gateway \cup {NoRoute} : NetworkSwitch(v)
  <2>1. disk' = disk /\ (SetDns => dns' = dns)
    BY <1>3 DEF AppExit, NetworkSwitch
  <2>2. \A t \in Tun : holders'[t] # {} => holders[t] # {}
    BY <1>3 DEF AppExit, NetworkSwitch, Close, Shape, SystemOK
  <2>3. disk # NoSnap /\ holders'[disk.iface] # {} =>
          \A c \in Capture : table[c] = disk.iface => table'[c] = disk.iface
    BY <1>3, <1>d, RoutesStay
  <2>4. ~SetDns
    <3>1. UNCHANGED pc BY <1>3 DEF AppExit, NetworkSwitch, work
    <3>. QED BY <3>1 DEF SetDns
  <2>. QED BY <1>d, <1>n, <2>1, <2>2, <2>3, <2>4, InsideKept
<1>4. CASE UNCHANGED vars
  BY <1>4 DEF vars, system, DnsInsideTunnel, NoFailure
<1>. QED BY <1>1, <1>2, <1>3, <1>4 DEF Environment

TunnelOK == SessionOK /\ OnTheWay /\ UndoneServices /\ DnsInsideTunnel

LEMMA TunnelInvariance == Spec => [](Shape /\ DnsOK /\ RoutesOK /\ TunnelOK)
<1>1. Init => TunnelOK
  <2>. SUFFICES ASSUME Init PROVE TunnelOK
    OBVIOUS
  <2>1. disk = NoSnap /\ Serving = NoSnap /\ pc = "idle" BY DEF Init, Serving
  <2>. QED
    BY <2>1, SessionInit DEF TunnelOK, OnTheWay, UndoneServices, DnsInsideTunnel
<1>2. Shape /\ DnsOK /\ RoutesOK /\ TunnelOK /\ [Next]_vars => TunnelOK'
  BY SessionNext, WayNext, UndoneNext, InsideRequest, InsideApply, InsideUndo,
     InsideRest DEF Next, TunnelOK
<1>. QED BY <1>1, <1>2, RoutesInit, RoutesNext, Invariance, PTL DEF Spec

(* Unless a command fails or a record was dropped: while a service         *)
(* resolves through the tunnel and the tunnel exists, every capture route  *)
(* leads into it -- the routes come before the DNS on the way up, and the  *)
(* DNS goes before the routes on the way down, across crashes, restarts    *)
(* and the app's exit.                                                     *)
THEOREM ResolvesInside == Spec => []DnsInsideTunnel
<1>1. TunnelOK => DnsInsideTunnel BY DEF TunnelOK
<1>. QED BY <1>1, TunnelInvariance, PTL

------------------------------------------------------------------------------
(* The captures go first.  Of a capture that is in the table there is a    *)
(* record, at every place of the code where one is wanted: behind what the *)
(* handler works on, in memory, in the file, and in front of a rollback's  *)
(* cursor.  Records of captures follow all others, so that undoing them in *)
(* reverse never reaches a bypass while a capture is left.  A session that *)
(* holds captures back has none in the table.                              *)

Clean == NoFailure /\ lost = {}

Captured == {c \in Capture : table[c] \in Tun}

(* One of the first n records is of a route of c through via.              *)
Has(recs, n, c, via) ==
    \E i \in 1 .. Len(recs) : i <= n /\ recs[i].dest = c /\ recs[i].via = via

LastIn(recs) ==
    \A i, j \in 1 .. Len(recs) :
        i < j /\ recs[i].dest \in Capture => recs[j].dest \in Capture

(* No record would put a route into a tunnel back.                         *)
Outside(recs) == \A i \in 1 .. Len(recs) : recs[i].replaced \notin Tun

Good(s) == s # NoSnap => LastIn(Routes(s)) /\ Outside(Routes(s))

GoodRecords == Good(disk) /\ Good(mem) /\ Good(snap)

On(s, c) == s # NoSnap /\ Has(Routes(s), Len(Routes(s)), c, table[c])

OnRecord ==
    \A c \in Captured :
        /\ pc \in Preparing \cup {"anchors", "bootanchors", "bootsave", "probe"} =>
             On(snap, c)
        /\ pc = "idle" /\ mem # NoSnap => On(mem, c)
        /\ pc \notin Preparing => On(disk, c)
        /\ pc = "undo" => Has(Routes(snap), left, c, table[c])
        /\ pc = "restore" => Has(Routes(snap), left - 1, c, table[c])
        /\ pc \notin {"verify", "done"}

(* A capture still to come is not there yet, and comes once.               *)
FreshPlan ==
    pc \in Installing =>
        /\ \A i \in 1 .. Len(plan) :
             plan[i].dest \in Capture => plan[i].dest \notin Captured /\ op # "prepare"
        /\ \A i, j \in 1 .. Len(plan) :
             i < j /\ plan[i].dest \in Capture => plan[i].dest # plan[j].dest

InstalledFirst ==
    pc \in Installing
    /\ (\E i \in 1 .. Len(Routes(snap)) : Routes(snap)[i].dest \in Capture)
    => Captures(plan)

HeldBack ==
    Serving # NoSnap =>
        /\ op = "prepare" \/ Serving.pending # <<>> => Captured = {}
        /\ Len(Serving.pending) <= Len(CapturePlan)
        /\ \A i \in 1 .. Len(Serving.pending) :
             Serving.pending[i].dest = CapturePlan[i].dest

OthersOutside == \A d \in Dest \ Capture : table[d] \notin Tun

RecordsOK == GoodRecords /\ OnRecord /\ FreshPlan /\ InstalledFirst /\ HeldBack

CapturesOK == Clean => RecordsOK /\ OthersOutside /\ CaptureGoesFirst

(* An unclean past stays.                                                  *)
LEMMA CleanBefore ==
    ASSUME Shape, [Next]_vars, Clean'
    PROVE  Clean /\ ~Fault /\ ~Silent /\ ~Missed
  BY NoFailureYet, LostGrows DEF Clean

(* The steps that touch the route table.                                   *)
LEMMA TableSteps ==
    ASSUME [Next]_vars
    PROVE  \/ table' = table \/ table' = Sweep(table, holders')
           \/ InstallRoute \/ DeleteRoute \/ RestoreRoute \/ CheckRoutes
           \/ \E v \in Gateway \cup {NoRoute} : NetworkSwitch(v)
<1>1. CASE Request
  BY <1>1 DEF Request, TunUp, CommitRoutes, TakeTunFd, TunDown, Restore, Sigterm,
              InstallAnchor, RemoveAnchor, Exit, CloseHelper, system
<1>2. CASE Apply
  BY <1>2 DEF Apply, RouteFails, SaveRoute, SaveRouteFails, ConfigureFails, DeferRoute,
              DeferRouteFails, Prepared, BackupDns, BackupDnsFails, SetDns,
              SetDnsFails, MarkUp, MarkUpFails, SaveAnchors, SaveAnchorsFails,
              CloseHelper, system
<1>3. CASE Undo
  BY <1>3 DEF Undo, UndoAnchors, UndoDns, SkipChecks, CheckDns, Clear, EndSession,
              EndCommit, EndRestore, EndBoot, EndTerm, Exit, CloseHelper, system
<1>4. CASE Recover
  BY <1>4 DEF Recover, Boot, BootAnchors, SaveBootAnchors, LeaveRunning,
              RollbackStale, Reconcile, system
<1>5. CASE Environment
  BY <1>5 DEF Environment, Crash, AppExit, Exit, CloseHelper
<1>6. CASE UNCHANGED vars BY <1>6 DEF vars, system
<1>. QED BY <1>1, <1>2, <1>3, <1>4, <1>5, <1>6 DEF Next

(* What a rollback may still undo is a route; its key is what it deletes.  *)
LEMMA RecordUndone ==
    ASSUME Shape, pc \in {"undo", "restore"}, left \in 1 .. Len(Routes(snap))
    PROVE  Routes(snap)[left] \in RouteRec /\ snap \in Snapshot /\ snap # NoSnap
<1>1. snap \in Snapshot BY DEF Shape, WorkOK, BusyHasSnap, Working
<1>2. Routes(snap) \in Seq(RouteRec) BY <1>1, RoutesType
<1>. QED BY <1>1, <1>2, ElementOfSeq, NoSnapAssumption

(* Only an install brings a capture into the table.                        *)
LEMMA OnlyInstallCaptures ==
    ASSUME Shape, CapturesOK, Clean', [Next]_vars, ~InstallRoute
    PROVE  \A c \in Captured' : c \in Captured /\ table'[c] = table[c]
<1>t. table \in [Dest -> Via] /\ Capture \subseteq Dest /\ Default \notin Capture
      /\ NoRoute \notin Tun
  BY KeysAssumption, ViasAssumption DEF Shape, SystemOK
<1>c. Clean /\ ~Missed BY CleanBefore
<1>1. CASE table' = table BY <1>1 DEF Captured
<1>2. CASE table' = Sweep(table, holders')
  BY <1>2, <1>t DEF Sweep, Captured
<1>3. CASE DeleteRoute
  <2>. DEFINE r == Routes(snap)[left]
  <2>1. table' = Delete(table, r.dest, r.via) BY <1>3, <1>c DEF DeleteRoute
  <2>. HIDE DEF r
  <2>. QED BY <2>1, <1>t DEF Delete, Captured
<1>4. CASE RestoreRoute
  <2>. DEFINE r == Routes(snap)[left]
              k == PrefixRow(r.dest)
  <2>1. table' = table \/ table' = [table EXCEPT ![k] = r.replaced]
    BY <1>4, <1>c DEF RestoreRoute
  <2>2. pc = "restore" /\ left \in 1 .. Len(Routes(snap))
    BY <1>4 DEF RestoreRoute, Shape, WorkOK, LeftBounded
  <2>3. snap # NoSnap BY <2>2, RecordUndone
  <2>4. r.replaced \notin Tun
    BY <1>c, <2>2, <2>3 DEF CapturesOK, RecordsOK, GoodRecords, Good, Outside
  <2>. HIDE DEF r, k
  <2>. QED BY <2>1, <2>4, <1>t DEF Captured
<1>5. CASE CheckRoutes
  <2>1. table' = table \/ table' = [table EXCEPT ![Default] = snap.gw]
    BY <1>5 DEF CheckRoutes
  <2>. QED BY <2>1, <1>t DEF Captured
<1>6. ASSUME NEW v \in Gateway \cup {NoRoute}, NetworkSwitch(v)
      PROVE  \A c \in Captured' : c \in Captured /\ table'[c] = table[c]
  <2>1. table' = [table EXCEPT ![Default] = v] BY <1>6 DEF NetworkSwitch
  <2>. QED BY <2>1, <1>t DEF Captured
<1>. QED BY <1>1, <1>2, <1>3, <1>4, <1>5, <1>6, TableSteps

(* Nothing but a capture ever leads into a tunnel.                         *)
LEMMA StayOutside ==
    ASSUME Shape, CapturesOK, Clean', [Next]_vars PROVE OthersOutside'
<1>t. table \in [Dest -> Via] /\ Capture \subseteq Dest /\ Default \notin Capture
      /\ NoRoute \notin Tun /\ Gateway \cap Tun = {}
  BY KeysAssumption, ViasAssumption DEF Shape, SystemOK
<1>c. Clean /\ ~Missed BY CleanBefore
<1>o. OthersOutside BY <1>c DEF CapturesOK
<1>1. CASE table' = table BY <1>1, <1>o DEF OthersOutside
<1>2. CASE table' = Sweep(table, holders')
  BY <1>2, <1>o, <1>t DEF Sweep, OthersOutside
<1>3. CASE DeleteRoute
  <2>. DEFINE r == Routes(snap)[left]
  <2>1. table' = Delete(table, r.dest, r.via) BY <1>3, <1>c DEF DeleteRoute
  <2>. HIDE DEF r
  <2>. QED BY <2>1, <1>o, <1>t DEF Delete, OthersOutside
<1>4. CASE RestoreRoute
  <2>. DEFINE r == Routes(snap)[left]
              k == PrefixRow(r.dest)
  <2>1. table' = table \/ table' = [table EXCEPT ![k] = r.replaced]
    BY <1>4, <1>c DEF RestoreRoute
  <2>2. pc = "restore" /\ left \in 1 .. Len(Routes(snap))
    BY <1>4 DEF RestoreRoute, Shape, WorkOK, LeftBounded
  <2>3. snap # NoSnap BY <2>2, RecordUndone
  <2>4. r.replaced \notin Tun
    BY <1>c, <2>2, <2>3 DEF CapturesOK, RecordsOK, GoodRecords, Good, Outside
  <2>. HIDE DEF r, k
  <2>. QED BY <2>1, <2>4, <1>o, <1>t DEF OthersOutside
<1>5. CASE CheckRoutes
  <2>1. table' = table \/ table' = [table EXCEPT ![Default] = snap.gw]
    BY <1>5 DEF CheckRoutes
  <2>2. snap.gw \in Gateway
    BY <1>5 DEF CheckRoutes, Shape, WorkOK, BusyHasSnap, Working, Snapshot
  <2>. QED BY <2>1, <2>2, <1>o, <1>t DEF OthersOutside
<1>6. ASSUME NEW v \in Gateway \cup {NoRoute}, NetworkSwitch(v)
      PROVE  OthersOutside'
  <2>1. table' = [table EXCEPT ![Default] = v] BY <1>6 DEF NetworkSwitch
  <2>. QED BY <2>1, <1>o, <1>t DEF OthersOutside
<1>7. CASE InstallRoute
  <2>. DEFINE d == Head(plan).dest
              via == IF d \in Capture THEN snap.iface ELSE snap.gw
  <2>1. pc = "apply" /\ table' = [table EXCEPT ![d] = via] BY <1>7 DEF InstallRoute
  <2>2. snap.gw \in Gateway
    BY <2>1 DEF Shape, WorkOK, BusyHasSnap, Working, Snapshot
  <2>3. d \in Capture \/ via = snap.gw OBVIOUS
  <2>. HIDE DEF d, via
  <2>. QED BY <2>1, <2>2, <2>3, <1>o, <1>t DEF OthersOutside
<1>. QED BY <1>1, <1>2, <1>3, <1>4, <1>5, <1>6, <1>7, TableSteps

(* The head of the plan: nothing is held back while it is to be installed, *)
(* and a capture is there already only if all that is to come are captures. *)
LEMMA HeadOfPlan ==
    ASSUME Shape, RoutesOK, SessionOK, CapturesOK, Clean, InstallRoute
    PROVE  /\ snap \in Snapshot /\ snap # NoSnap /\ Serving = snap
           /\ snap.pending = <<>> /\ Head(plan) = plan[1] /\ 1 \in 1 .. Len(plan)
           /\ Captured # {} => Head(plan).dest \in Capture
<1>1. pc = "apply" /\ plan # <<>> /\ plan \in Seq(PlanRec) /\ snap \in Snapshot
  BY DEF InstallRoute, Shape, WorkOK, BusyHasSnap, Working
<1>2. snap # NoSnap /\ Serving = snap BY <1>1, NoSnapAssumption DEF Serving
<1>3. snap.pending = <<>> BY <1>1 DEF SessionOK, InHandler, Installing
<1>4. Head(plan) = plan[1] /\ 1 \in 1 .. Len(plan) BY <1>1
<1>5. ASSUME NEW c \in Captured PROVE Head(plan).dest \in Capture
  <2>1. Has(Routes(snap), Len(Routes(snap)), c, table[c])
    BY <1>1 DEF CapturesOK, RecordsOK, OnRecord, Preparing, On
  <2>2. \E i \in 1 .. Len(Routes(snap)) : Routes(snap)[i].dest \in Capture
    BY <2>1 DEF Has, Captured
  <2>3. Captures(plan)
    BY <1>1, <2>2 DEF CapturesOK, RecordsOK, InstalledFirst, Installing
  <2>. QED BY <1>4, <2>3 DEF Captures
<1>. QED BY <1>1, <1>2, <1>3, <1>4, <1>5

(* No step leaves a capture behind without the bypasses.                   *)
LEMMA GoesFirst ==
    ASSUME Shape, RoutesOK, RoutesOK', SessionOK, CapturesOK, Clean', [Next]_vars
    PROVE  CaptureGoesFirst'
<1>. SUFFICES ASSUME NEW c \in Capture, NEW d \in CriticalKeys, table'[c] \in Tun
              PROVE  table'[d] # NoRoute
  BY DEF CaptureGoesFirst
<1>t. table \in [Dest -> Via] /\ Capture \subseteq Dest /\ Default \notin Capture
      /\ NoRoute \notin Tun /\ Gateway \cap Tun = {} /\ NoRoute \notin Gateway
      /\ Scoped \notin Capture
  BY KeysAssumption, ViasAssumption DEF Shape, SystemOK
<1>d. d \in Dest /\ d \notin Capture /\ d # Default BY CriticalKey
<1>c. Clean /\ ~Missed BY CleanBefore
<1>k. ASSUME ~InstallRoute PROVE c \in Captured /\ table'[c] = table[c]
  BY <1>k, OnlyInstallCaptures DEF Captured
<1>r. ASSUME ~InstallRoute PROVE table[d] # NoRoute
  BY <1>c, <1>k, <1>r DEF CapturesOK, CaptureGoesFirst, Clean, Captured
<1>1. CASE table' = table /\ ~InstallRoute BY <1>1, <1>r
<1>2. CASE table' = Sweep(table, holders') /\ ~InstallRoute
  <2>1. table[d] \notin Tun BY <1>c, <1>d DEF CapturesOK, OthersOutside
  <2>. QED BY <2>1, <1>2, <1>d, <1>r DEF Sweep, Live
<1>3. CASE DeleteRoute
  <2>. DEFINE r == Routes(snap)[left]
  <2>1. /\ pc = "undo" /\ left \in 1 .. Len(Routes(snap))
        /\ table' = Delete(table, r.dest, r.via)
    BY <1>3, <1>c DEF DeleteRoute
  <2>2. ~InstallRoute BY <2>1 DEF InstallRoute
  <2>3. snap # NoSnap BY <2>1, RecordUndone
  <2>4. PICK i \in 1 .. Len(Routes(snap)) :
          i <= left /\ Routes(snap)[i].dest = c /\ Routes(snap)[i].via = table[c]
    BY <1>c, <1>k, <2>1, <2>2 DEF CapturesOK, RecordsOK, OnRecord, Has
  <2>5. i # left
    <3>1. SUFFICES ASSUME i = left PROVE FALSE OBVIOUS
    <3>2. r.dest = c /\ r.via = table[c] BY <2>4, <3>1
    <3>. HIDE DEF r
    <3>. QED BY <1>t, <2>1, <3>2 DEF Delete
  <2>6. LastIn(Routes(snap)) BY <1>c, <2>3 DEF CapturesOK, RecordsOK, GoodRecords, Good
  <2>7. r.dest \in Capture BY <2>1, <2>4, <2>5, <2>6 DEF LastIn
  <2>. HIDE DEF r
  <2>. QED BY <1>d, <1>r, <1>t, <2>1, <2>2, <2>7 DEF Delete
<1>4. CASE RestoreRoute
  <2>. DEFINE r == Routes(snap)[left]
              k == PrefixRow(r.dest)
  <2>1. table' = table \/ table' = [table EXCEPT ![k] = r.replaced]
    BY <1>4, <1>c DEF RestoreRoute
  <2>2. pc = "restore" /\ left \in 1 .. Len(Routes(snap))
    BY <1>4 DEF RestoreRoute, Shape, WorkOK, LeftBounded
  <2>3. snap # NoSnap /\ ~InstallRoute BY <2>2, RecordUndone DEF InstallRoute
  <2>4. PICK i \in 1 .. Len(Routes(snap)) :
          i <= left - 1 /\ Routes(snap)[i].dest = c /\ Routes(snap)[i].via = table[c]
    BY <1>c, <1>k, <2>2, <2>3 DEF CapturesOK, RecordsOK, OnRecord, Has
  <2>6. LastIn(Routes(snap)) BY <1>c, <2>3 DEF CapturesOK, RecordsOK, GoodRecords, Good
  <2>7. r.dest \in Capture BY <2>2, <2>4, <2>6 DEF LastIn
  <2>8. k = r.dest BY <1>t, <2>7 DEF PrefixRow
  <2>. HIDE DEF r, k
  <2>. QED BY <1>d, <1>r, <1>t, <2>1, <2>3, <2>7, <2>8
<1>5. CASE CheckRoutes
  <2>1. /\ table' = table \/ table' = [table EXCEPT ![Default] = snap.gw]
        /\ ~InstallRoute
    BY <1>5 DEF CheckRoutes, InstallRoute
  <2>. QED BY <2>1, <1>d, <1>r, <1>t
<1>6. CASE \E v \in Gateway \cup {NoRoute} : NetworkSwitch(v)
  <2>1. \E v : table' = [table EXCEPT ![Default] = v]
    BY <1>6 DEF NetworkSwitch
  <2>2. ~InstallRoute
    <3>1. pc' = pc BY <1>6 DEF NetworkSwitch, work
    <3>. QED BY <3>1 DEF InstallRoute
  <2>. QED BY <2>1, <2>2, <1>d, <1>r, <1>t
<1>7. CASE InstallRoute
  <2>. DEFINE k == Head(plan).dest
              via == IF k \in Capture THEN snap.iface ELSE snap.gw
  <2>1. /\ pc = "apply" /\ pc' = "record" /\ table' = [table EXCEPT ![k] = via]
        /\ \E r : snap' = [snap EXCEPT !.installed = Append(snap.installed, r)]
    BY <1>7 DEF InstallRoute
  <2>2. snap \in Snapshot /\ (Captured # {} => k \in Capture)
    BY <1>7, <1>c, HeadOfPlan
  <2>3. snap'.iface = snap.iface /\ snap'.gw = snap.gw /\ snap.gw \in Gateway
    BY <2>1, <2>2 DEF Snapshot
  <2>4. k \in Capture
    <3>1. SUFFICES ASSUME k \notin Capture PROVE FALSE OBVIOUS
    <3>2. via = snap.gw BY <3>1
    <3>. HIDE DEF k, via
    <3>3. c \in Captured BY <1>t, <2>1, <2>3, <3>1, <3>2 DEF Captured
    <3>. QED BY <2>2, <3>1, <3>3
  <2>5. table'[k] = snap'.iface
    <3>1. via = snap.iface BY <2>4
    <3>. HIDE DEF k, via
    <3>. QED BY <1>t, <2>1, <2>3, <2>4, <3>1
  <2>6. Serving' = snap' /\ snap' # NoSnap
    <3>1. snap' \in Snapshot
      <4>1. Shape' BY ShapeNext
      <4>. QED BY <2>1, <4>1 DEF Shape, WorkOK, BusyHasSnap, Working
    <3>. QED BY <2>1, <3>1, NoSnapAssumption DEF Serving
  <2>7. Captures(plan') BY <2>4, <2>5, <2>6 DEF RoutesOK, CapturedAfter
  <2>8. table'[d] = snap'.gw \/ Planned(d)'
    BY <2>6 DEF RoutesOK, BypassedOrPlanned
  <2>9. ~Planned(d)' BY <1>d, <2>7 DEF Planned, Captures
  <2>. QED BY <1>t, <2>3, <2>8, <2>9
<1>. QED BY <1>1, <1>2, <1>3, <1>4, <1>5, <1>6, <1>7, TableSteps

(* A record appended to a snapshot's routes.                               *)
Grown(recs, more, r) ==
    /\ Len(more) = Len(recs) + 1 /\ Len(recs) \in Nat
    /\ \A i \in 1 .. Len(recs) : more[i] = recs[i]
    /\ more[Len(recs) + 1] = r

LEMMA GrownRecords ==
    ASSUME NEW recs, NEW more, NEW r, Grown(recs, more, r)
    PROVE  /\ \A c, v : Has(recs, Len(recs), c, v) => Has(more, Len(more), c, v)
           /\ Has(more, Len(more), r.dest, r.via)
           /\ LastIn(recs) /\ (r.dest \in Capture
                \/ \A i \in 1 .. Len(recs) : recs[i].dest \notin Capture) => LastIn(more)
           /\ Outside(recs) /\ r.replaced \notin Tun => Outside(more)
           /\ \A i \in 1 .. Len(more) : more[i] = r \/ (i \in 1 .. Len(recs) /\ more[i] = recs[i])
<1>1. \A i \in 1 .. Len(more) :
        \/ i = Len(recs) + 1 /\ more[i] = r
        \/ i \in 1 .. Len(recs) /\ more[i] = recs[i]
  BY DEF Grown
<1>2. \A c, v : Has(recs, Len(recs), c, v) => Has(more, Len(more), c, v)
  BY DEF Has, Grown
<1>3. Has(more, Len(more), r.dest, r.via)
  <2>1. Len(recs) + 1 \in 1 .. Len(more) /\ Len(recs) + 1 <= Len(more) BY DEF Grown
  <2>. QED BY <2>1 DEF Has, Grown
<1>4. ASSUME LastIn(recs), r.dest \in Capture
               \/ \A i \in 1 .. Len(recs) : recs[i].dest \notin Capture
      PROVE  LastIn(more)
  <2>. SUFFICES ASSUME NEW i \in 1 .. Len(more), NEW j \in 1 .. Len(more), i < j,
                       more[i].dest \in Capture
                PROVE  more[j].dest \in Capture
    BY DEF LastIn
  <2>1. i \in 1 .. Len(recs) /\ more[i] = recs[i] BY DEF Grown
  <2>2. r.dest \in Capture BY <1>4, <2>1
  <2>. QED BY <1>1, <1>4, <2>1, <2>2 DEF LastIn
<1>5. Outside(recs) /\ r.replaced \notin Tun => Outside(more)
  BY <1>1 DEF Outside
<1>. QED BY <1>1, <1>2, <1>3, <1>4, <1>5

(* The records of a snapshot: what is installed, then what is held back.   *)
LEMMA RecordsAre ==
    ASSUME NEW t, t.installed \in Seq(RouteRec), t.pending \in Seq(RouteRec)
    PROVE  /\ Len(t.installed) \in Nat /\ Len(t.pending) \in Nat
           /\ Len(Routes(t)) = Len(t.installed) + Len(t.pending)
           /\ \A i \in 1 .. Len(t.installed) :
                Routes(t)[i] = t.installed[i] /\ i \in 1 .. Len(Routes(t))
           /\ \A i \in Len(t.installed) + 1 .. Len(t.installed) + Len(t.pending) :
                Routes(t)[i] = t.pending[i - Len(t.installed)]
           /\ t.pending = <<>> => Routes(t) = t.installed
<1>. DEFINE a == t.installed
            b == t.pending
<1>1. Routes(t) = a \o b BY DEF Routes
<1>0. a \in Seq(RouteRec) /\ b \in Seq(RouteRec) OBVIOUS
<1>. HIDE DEF a, b
<1>2. Len(a) \in Nat /\ Len(b) \in Nat BY <1>0
<1>3. /\ Len(a \o b) = Len(a) + Len(b)
      /\ \A i \in 1 .. Len(a) : (a \o b)[i] = a[i]
      /\ \A i \in Len(a) + 1 .. Len(a) + Len(b) : (a \o b)[i] = b[i - Len(a)]
  BY <1>0, ConcatProperties
<1>4. a \o <<>> = a BY <1>0, ConcatEmptySeq
<1>5. \A i \in 1 .. Len(a) : i \in 1 .. Len(a) + Len(b) BY <1>2
<1>. QED BY <1>1, <1>2, <1>3, <1>4, <1>5 DEF a, b

LEMMA InstalledGrows ==
    ASSUME NEW s \in Snapshot, NEW r \in RouteRec, s.pending = <<>>
    PROVE  Grown(Routes(s), Routes([s EXCEPT !.installed = Append(s.installed, r)]), r)
<1>. DEFINE t == [s EXCEPT !.installed = Append(s.installed, r)]
<1>1. s.installed \in Seq(RouteRec) BY DEF Snapshot
<1>2. t.installed = Append(s.installed, r) /\ t.pending = <<>> BY DEF Snapshot
<1>3. s.pending \in Seq(RouteRec) /\ Append(s.installed, r) \in Seq(RouteRec)
  BY <1>1 DEF Snapshot
<1>4. Routes(s) = s.installed BY <1>1, <1>3, RecordsAre
<1>5. Routes(t) = Append(s.installed, r)
  <2>. HIDE DEF t
  <2>1. t.installed \in Seq(RouteRec) /\ t.pending \in Seq(RouteRec) BY <1>2, <1>3
  <2>. QED BY <1>2, <2>1, RecordsAre
<1>6. Grown(Routes(s), Append(s.installed, r), r)
  <2>1. /\ Len(Append(s.installed, r)) = Len(s.installed) + 1 /\ Len(s.installed) \in Nat
        /\ \A i \in 1 .. Len(s.installed) : Append(s.installed, r)[i] = s.installed[i]
        /\ Append(s.installed, r)[Len(s.installed) + 1] = r
    BY <1>1
  <2>. QED BY <1>4, <2>1 DEF Grown
<1>. QED BY <1>5, <1>6

LEMMA PendingGrows ==
    ASSUME NEW s \in Snapshot, NEW r \in RouteRec
    PROVE  Grown(Routes(s), Routes([s EXCEPT !.pending = Append(s.pending, r)]), r)
<1>. DEFINE t == [s EXCEPT !.pending = Append(s.pending, r)]
            n == Len(s.installed)
            m == Len(s.pending)
<1>1. s.installed \in Seq(RouteRec) /\ s.pending \in Seq(RouteRec) /\ n \in Nat /\ m \in Nat
  BY DEF Snapshot
<1>2. t.installed = s.installed /\ t.pending = Append(s.pending, r) BY DEF Snapshot
<1>3. /\ Append(s.pending, r) \in Seq(RouteRec) /\ Len(Append(s.pending, r)) = m + 1
      /\ \A i \in 1 .. m : Append(s.pending, r)[i] = s.pending[i]
      /\ Append(s.pending, r)[m + 1] = r
  BY <1>1
<1>4. /\ Len(Routes(s)) = n + m /\ Len(Routes(t)) = n + m + 1
      /\ \A i \in 1 .. n : Routes(s)[i] = s.installed[i] /\ Routes(t)[i] = s.installed[i]
      /\ \A i \in n + 1 .. n + m : Routes(s)[i] = s.pending[i - n]
      /\ \A i \in n + 1 .. n + m + 1 : Routes(t)[i] = Append(s.pending, r)[i - n]
  <2>1. /\ Len(Routes(s)) = n + m
        /\ \A i \in 1 .. n : Routes(s)[i] = s.installed[i]
        /\ \A i \in n + 1 .. n + m : Routes(s)[i] = s.pending[i - n]
    BY <1>1, RecordsAre
  <2>2. /\ Len(Routes(t)) = n + (m + 1)
        /\ \A i \in 1 .. n : Routes(t)[i] = s.installed[i]
        /\ \A i \in n + 1 .. n + (m + 1) : Routes(t)[i] = Append(s.pending, r)[i - n]
    <3>. HIDE DEF t
    <3>1. t.installed \in Seq(RouteRec) /\ t.pending \in Seq(RouteRec) BY <1>1, <1>2, <1>3
    <3>2. /\ Len(Routes(t)) = Len(t.installed) + Len(t.pending)
          /\ \A i \in 1 .. Len(t.installed) : Routes(t)[i] = t.installed[i]
          /\ \A i \in Len(t.installed) + 1 .. Len(t.installed) + Len(t.pending) :
               Routes(t)[i] = t.pending[i - Len(t.installed)]
      BY <3>1, RecordsAre
    <3>3. Len(t.installed) = n /\ Len(t.pending) = m + 1 BY <1>2, <1>3
    <3>. QED BY <1>2, <3>2, <3>3
  <2>. HIDE DEF n, m
  <2>3. n + (m + 1) = n + m + 1 BY <1>1
  <2>. QED BY <2>1, <2>2, <2>3
<1>. HIDE DEF t, n, m
<1>5. ASSUME NEW i \in 1 .. n + m PROVE Routes(t)[i] = Routes(s)[i]
  <2>1. CASE i \in 1 .. n BY <1>4, <2>1
  <2>2. CASE i \notin 1 .. n
    <3>1. i \in n + 1 .. n + m /\ i \in n + 1 .. n + m + 1 /\ i - n \in 1 .. m
      BY <1>1, <2>2
    <3>. QED BY <1>3, <1>4, <3>1
  <2>. QED BY <2>1, <2>2
<1>6. Routes(t)[n + m + 1] = r
  <2>1. n + m + 1 \in n + 1 .. n + m + 1 /\ (n + m + 1) - n = m + 1 BY <1>1
  <2>. QED BY <1>3, <1>4, <2>1
<1>7. Grown(Routes(s), Routes(t), r) BY <1>1, <1>4, <1>5, <1>6 DEF Grown
<1>. QED BY <1>7 DEF t

(* What is installed is the beginning of the records.                      *)
LEMMA InstalledPart ==
    ASSUME NEW s \in Snapshot, NEW t, t = [s EXCEPT !.pending = <<>>]
    PROVE  /\ Routes(t) = s.installed /\ t.pending = <<>>
           /\ LastIn(Routes(s)) => LastIn(Routes(t))
           /\ Outside(Routes(s)) => Outside(Routes(t))
<1>1. s.installed \in Seq(RouteRec) /\ s.pending \in Seq(RouteRec)
      /\ Len(s.installed) \in Nat /\ Len(s.pending) \in Nat
  BY DEF Snapshot
<1>2. t.installed = s.installed /\ t.pending = <<>> BY DEF Snapshot
<1>3. Routes(t) = s.installed
  <2>1. t.pending \in Seq(RouteRec) /\ t.installed \in Seq(RouteRec) BY <1>1, <1>2
  <2>. QED BY <1>2, <2>1, RecordsAre
<1>4. \A i \in 1 .. Len(s.installed) : Routes(s)[i] = s.installed[i]
  BY <1>1, RecordsAre
<1>5. \A i \in 1 .. Len(s.installed) : i \in 1 .. Len(Routes(s)) BY <1>1, RecordsAre
<1>6. LastIn(Routes(s)) => LastIn(s.installed) BY <1>4, <1>5 DEF LastIn
<1>7. Outside(Routes(s)) => Outside(s.installed) BY <1>4, <1>5 DEF Outside
<1>. QED BY <1>2, <1>3, <1>6, <1>7

(* A handler that gives up rolls back the snapshot its records are in.     *)
LEMMA RollbackRecords ==
    ASSUME Good(disk'), mem' = NoSnap, NEW s, Rollback(s), Good(s),
           \A c \in Captured' : /\ s # NoSnap /\ Has(Routes(s), Len(Routes(s)), c, table'[c])
                                /\ On(disk, c)'
    PROVE  RecordsOK'
<1>1. pc' = "anchors" /\ snap' = s BY DEF Rollback
<1>2. GoodRecords' BY <1>1 DEF GoodRecords, Good
<1>3. OnRecord' BY <1>1 DEF OnRecord, On, Preparing
<1>4. Serving' = NoSnap BY <1>1 DEF Serving
<1>. QED BY <1>1, <1>2, <1>3, <1>4 DEF RecordsOK, FreshPlan, InstalledFirst, HeldBack, Installing

(* A handler that is done leaves the records in the file -- and in memory. *)
LEMMA IdleRecords ==
    ASSUME Good(disk'), Good(mem'), pc' \in {"idle", "down", "reconcile"},
           snap' = NoSnap \/ (pc' = "reconcile" /\ Good(snap')),
           HeldBack',
           \A c \in Captured' : On(disk, c)' /\ (mem' # NoSnap => On(mem, c)')
    PROVE  RecordsOK'
<1>1. GoodRecords' BY DEF GoodRecords, Good
<1>2. OnRecord' BY DEF OnRecord, Preparing
<1>. QED BY <1>1, <1>2 DEF RecordsOK, FreshPlan, InstalledFirst, Installing

(* Steps that neither install nor save.                                    *)
LEMMA CaptureRequest ==
    ASSUME Shape, DnsOK, RoutesOK, SessionOK, CapturesOK, Request, Clean'
    PROVE  RecordsOK'
<1>n. [Next]_vars BY DEF Next
<1>c. Clean BY <1>n, CleanBefore
<1>g. Good(disk) /\ Good(mem) BY <1>c DEF CapturesOK, RecordsOK, GoodRecords
<1>0. mem # NoSnap => mem \in Snapshot BY DEF Shape, StoreOK
<1>i. ~InstallRoute => \A c \in Captured' : c \in Captured /\ table'[c] = table[c]
  BY <1>n, OnlyInstallCaptures
<1>p. pc = "idle"
  BY DEF Request, TunUp, CommitRoutes, TakeTunFd, TunDown, Restore, Sigterm,
         InstallAnchor, RemoveAnchor
<1>k. \A c \in Captured' :
        /\ c \in Captured /\ table'[c] = table[c] /\ On(disk, c)
        /\ mem # NoSnap => On(mem, c)
  <2>1. ~InstallRoute BY <1>p DEF InstallRoute
  <2>. QED BY <1>c, <1>i, <1>p, <2>1 DEF CapturesOK, RecordsOK, OnRecord, Preparing
<1>s. mem # NoSnap => Serving = mem BY <1>p DEF Serving
<1>1. ASSUME NEW t \in Tun, NEW defer \in DeferModes, TunUp(t, defer)
      PROVE  RecordsOK'
  <2>1. /\ pc' = "apply" /\ snap' = NewSnapshot(t) /\ disk' = NewSnapshot(t)
        /\ mem = NoSnap /\ mem' = mem /\ Records(disk) = {} /\ table[Default] \in Gateway
        /\ \/ op' = "prepare" /\ plan' = BypassPlan
           \/ op' = "up" /\ plan' = BypassPlan \o CapturePlan
    BY <1>1 DEF TunUp, Clean
  <2>2. /\ NewSnapshot(t).pending = <<>> /\ NewSnapshot(t).installed = <<>>
        /\ Routes(NewSnapshot(t)) = <<>>
    BY DEF NewSnapshot, Routes
  <2>3. Captured' = {}
    <3>1. \A c : ~On(disk, c)
      <4>1. disk # NoSnap => Routes(disk) = <<>> \/ ~(1 \in 1 .. Len(Routes(disk)))
        BY <2>1 DEF Records
      <4>. QED BY <2>1 DEF On, Has, Records
    <3>. QED BY <1>k, <3>1
  <2>4. Serving' = snap' BY <2>1 DEF Serving
  <2>5. GoodRecords' BY <2>1, <2>2 DEF GoodRecords, Good, LastIn, Outside
  <2>6. OnRecord' BY <2>3 DEF OnRecord
  <2>7. HeldBack' BY <2>1, <2>2, <2>3, <2>4, PlanAssumption DEF HeldBack
  <2>8. InstalledFirst' BY <2>1, <2>2 DEF InstalledFirst
  <2>9. FreshPlan'
    <3>1. /\ BypassPlan \in Seq([dest : Dest \ Capture, critical : BOOLEAN])
          /\ CapturePlan \in Seq([dest : Capture, critical : {TRUE}])
      BY PlanAssumption
    <3>. DEFINE n == Len(BypassPlan)
                m == Len(CapturePlan)
                whole == BypassPlan \o CapturePlan
    <3>2. n \in Nat /\ m \in Nat BY <3>1
    <3>3. \A i \in 1 .. n : BypassPlan[i].dest \notin Capture
      <4>1. ASSUME NEW i \in 1 .. n
            PROVE  BypassPlan[i] \in [dest : Dest \ Capture, critical : BOOLEAN]
        BY <3>1, ElementOfSeq
      <4>. QED BY <4>1
    <3>4. CASE op' = "prepare" /\ plan' = BypassPlan
      BY <3>3, <3>4 DEF FreshPlan
    <3>5. CASE op' = "up" /\ plan' = whole
      <4>1. /\ Len(whole) = n + m
            /\ \A i \in 1 .. n : whole[i] = BypassPlan[i]
            /\ \A i \in n + 1 .. n + m : whole[i] = CapturePlan[i - n]
        BY <3>1, ConcatProperties
      <4>. HIDE DEF whole, n, m
      <4>2. ASSUME NEW i \in 1 .. n + m, NEW j \in 1 .. n + m, i < j,
                   whole[i].dest \in Capture
            PROVE  whole[i].dest # whole[j].dest
        <5>1. i > n BY <3>2, <3>3, <4>1, <4>2
        <5>2. i \in n + 1 .. n + m /\ j \in n + 1 .. n + m /\ i - n \in 1 .. m
              /\ j - n \in 1 .. m /\ i - n # j - n
          BY <3>2, <4>2, <5>1
        <5>3. CapturePlan[i - n].dest # CapturePlan[j - n].dest
          BY <5>2, PlanAssumption DEF m
        <5>. QED BY <4>1, <5>2, <5>3
      <4>. QED BY <2>3, <3>5, <4>1, <4>2 DEF FreshPlan
    <3>. QED BY <2>1, <3>4, <3>5
  <2>. QED BY <2>5, <2>6, <2>7, <2>8, <2>9 DEF RecordsOK
<1>2. CASE CommitRoutes
  <2>1. /\ mem # NoSnap /\ mem.pending # <<>> /\ pc' = "apply" /\ op' = "commit"
        /\ snap' = [mem EXCEPT !.pending = <<>>] /\ UNCHANGED <<table, disk, mem>>
        /\ plan' = [i \in 1 .. Len(mem.pending) |->
                      [dest |-> mem.pending[i].dest, critical |-> TRUE]]
    BY <1>2 DEF CommitRoutes, system
  <2>2. snap'.pending = <<>> /\ Good(snap')
    BY <1>0, <1>g, <2>1, InstalledPart DEF Good
  <2>3. /\ Captured = {} /\ Len(mem.pending) <= Len(CapturePlan)
        /\ \A i \in 1 .. Len(mem.pending) : mem.pending[i].dest = CapturePlan[i].dest
    BY <1>c, <1>s, <2>1 DEF CapturesOK, RecordsOK, HeldBack
  <2>4. Captured' = {} BY <1>k, <2>3
  <2>5. Serving' = snap' BY <2>1 DEF Serving
  <2>6. GoodRecords' BY <1>g, <2>1, <2>2 DEF GoodRecords, Good
  <2>7. OnRecord' BY <2>4 DEF OnRecord
  <2>8. HeldBack' BY <2>1, <2>2, <2>4, <2>5, PlanAssumption DEF HeldBack
  <2>9. Len(mem.pending) \in Nat /\ Len(CapturePlan) \in Nat
    BY <1>0, <2>1, PlanAssumption DEF Snapshot
  <2>10. Len(plan') = Len(mem.pending)
         /\ \A i \in 1 .. Len(mem.pending) : plan'[i].dest = mem.pending[i].dest
    BY <2>1, <2>9
  <2>11. InstalledFirst'
    <3>1. Captures(mem.pending) BY <1>s, <2>1 DEF RoutesOK, PendingAreCaptures
    <3>. QED BY <2>10, <3>1 DEF InstalledFirst, Captures
  <2>12. FreshPlan'
    <3>1. ASSUME NEW i \in 1 .. Len(mem.pending), NEW j \in 1 .. Len(mem.pending), i < j
          PROVE  mem.pending[i].dest # mem.pending[j].dest
      <4>1. i \in 1 .. Len(CapturePlan) /\ j \in 1 .. Len(CapturePlan) BY <2>3, <2>9
      <4>2. CapturePlan[i].dest # CapturePlan[j].dest BY <3>1, <4>1, PlanAssumption
      <4>. QED BY <2>3, <4>2
    <3>. QED BY <2>1, <2>4, <2>10, <3>1 DEF FreshPlan
  <2>. QED BY <2>6, <2>7, <2>8, <2>11, <2>12 DEF RecordsOK
<1>3. CASE TakeTunFd
  <2>1. UNCHANGED <<table, disk, mem, pc, op, snap, plan, left, op>>
    BY <1>3 DEF TakeTunFd, work
  <2>. QED
    BY <1>c, <2>1
       DEF CapturesOK, RecordsOK, GoodRecords, Good, OnRecord, On, Captured, FreshPlan,
           InstalledFirst, HeldBack, Serving, Captures
<1>4. CASE TunDown \/ Restore \/ Sigterm
  <2>1. CASE Rollback(mem) /\ mem' = NoSnap /\ disk' = disk /\ mem # NoSnap
    BY <1>g, <1>k, <2>1, RollbackRecords DEF On
  <2>2. CASE Rollback(disk) /\ mem' = NoSnap /\ disk' = disk /\ disk # NoSnap
    BY <1>g, <1>k, <2>2, RollbackRecords DEF On
  <2>3. CASE Exit
    <3>1. pc' = "down" /\ mem' = NoSnap /\ snap' = NoSnap /\ disk' = disk
      BY <2>3 DEF Exit
    <3>2. HeldBack' BY <3>1 DEF HeldBack, Serving
    <3>. QED BY <1>g, <1>k, <3>1, <3>2, IdleRecords DEF On, Good
  <2>4. \/ Rollback(mem) /\ mem' = NoSnap /\ disk' = disk /\ mem # NoSnap
        \/ Rollback(disk) /\ mem' = NoSnap /\ disk' = disk /\ disk # NoSnap
        \/ Exit
    BY <1>4 DEF TunDown, Restore, Sigterm
  <2>. QED BY <2>1, <2>2, <2>3, <2>4
<1>5. ASSUME NEW a \in Anchor, InstallAnchor(a) \/ RemoveAnchor(a)
      PROVE  RecordsOK'
  <2>1. /\ mem # NoSnap /\ pc' = "anchorsave" /\ op' \in {"install", "remove"}
        /\ UNCHANGED <<table, disk, mem, plan>>
        /\ \E X : snap' = [mem EXCEPT !.anchors = X]
    BY <1>5 DEF InstallAnchor, RemoveAnchor
  <2>2. Routes(snap') = Routes(mem) /\ snap'.pending = mem.pending
    BY <1>0, <2>1 DEF Routes, Snapshot
  <2>3. snap' # NoSnap
    <3>1. snap' \in Snapshot
      <4>1. Shape' BY <1>n, ShapeNext
      <4>. QED BY <2>1, <4>1 DEF Shape, WorkOK, BusyHasSnap, Working
    <3>. QED BY <3>1, NoSnapAssumption
  <2>4. GoodRecords' BY <1>g, <2>1, <2>2 DEF GoodRecords, Good
  <2>5. OnRecord' BY <1>k, <2>1, <2>2, <2>3 DEF OnRecord, On, Preparing
  <2>6. Serving' = snap' BY <2>1 DEF Serving
  <2>7. HeldBack'
    <3>1. Captured' = Captured BY <2>1 DEF Captured
    <3>. QED BY <1>c, <1>s, <2>1, <2>2, <2>6, <3>1 DEF CapturesOK, RecordsOK, HeldBack
  <2>. QED BY <2>1, <2>4, <2>5, <2>7 DEF RecordsOK, FreshPlan, InstalledFirst, Installing
<1>. QED BY <1>1, <1>2, <1>3, <1>4, <1>5 DEF Request

LEMMA CaptureApply ==
    ASSUME Shape, DnsOK, RoutesOK, RoutesOK', SessionOK, SessionOK', CapturesOK, Apply, Clean'
    PROVE  RecordsOK'
<1>n. [Next]_vars BY DEF Next
<1>c. Clean /\ ~Fault /\ ~Silent BY <1>n, CleanBefore
<1>r. RecordsOK /\ OthersOutside BY <1>c DEF CapturesOK
<1>g. Good(disk) /\ Good(mem) /\ Good(snap) BY <1>r DEF RecordsOK, GoodRecords
<1>0. pc \in Preparing => snap \in Snapshot /\ snap # NoSnap /\ Serving = snap
  BY NoSnapAssumption
     DEF Shape, WorkOK, BusyHasSnap, Working, Preparing, Serving
<1>o. pc \in Preparing => \A c \in Captured : On(snap, c)
  BY <1>r DEF RecordsOK, OnRecord
<1>t. /\ table \in [Dest -> Via] /\ Capture \subseteq Dest /\ Scoped \notin Capture
      /\ Default \notin Capture /\ NoRoute \notin Tun
  BY KeysAssumption, ViasAssumption DEF Shape, SystemOK
<1>s. pc' \in Preparing => snap' # NoSnap /\ Serving' = snap'
  <2>1. Shape' BY <1>n, ShapeNext
  <2>. QED
    BY <2>1, NoSnapAssumption
       DEF Shape, WorkOK, BusyHasSnap, Working, Preparing, Serving
(* A handler that goes on with the same records and the same plan. *)
<1>k. ASSUME pc \in Preparing, pc' \in Installing, NEW s, s # NoSnap, snap' = s,
             Routes(s) = Routes(snap), s.pending = snap.pending, disk' \in {disk, s},
             UNCHANGED <<table, mem, plan, op>>, pc \in Installing
      PROVE  RecordsOK'
  <2>1. Captured' = Captured BY <1>k DEF Captured
  <2>2. Good(s) /\ GoodRecords' BY <1>0, <1>g, <1>k DEF GoodRecords, Good
  <2>3. OnRecord' BY <1>k, <1>o, <2>1 DEF OnRecord, On, Preparing, Installing
  <2>4. FreshPlan' BY <1>k, <1>r, <2>1 DEF RecordsOK, FreshPlan
  <2>5. InstalledFirst' BY <1>k, <1>r DEF RecordsOK, InstalledFirst, Captures
  <2>6. HeldBack'
    <3>1. Serving' = s /\ Serving = snap /\ Serving # NoSnap
      BY <1>0, <1>k DEF Serving, Installing
    <3>. QED BY <1>k, <1>r, <2>1, <3>1 DEF RecordsOK, HeldBack
  <2>. QED BY <2>2, <2>3, <2>4, <2>5, <2>6 DEF RecordsOK
(* A handler that leaves its session in memory and in the file. *)
<1>l. ASSUME pc \in Preparing, NEW s, s # NoSnap, mem' = s, pc' = "idle", snap' = NoSnap,
             Routes(s) = Routes(snap), s.pending = snap.pending, table' = table,
             op' = "none", disk' = s \/ (disk' = disk /\ Captured = {})
      PROVE  RecordsOK'
  <2>1. Captured' = Captured BY <1>l DEF Captured
  <2>2. Good(disk') /\ Good(mem') BY <1>0, <1>g, <1>l DEF Good
  <2>3. \A c \in Captured' : On(disk, c)' /\ On(mem, c)'
    BY <1>l, <1>o, <2>1 DEF On
  <2>4. Serving' = s BY <1>l DEF Serving
  <2>5. HeldBack' BY <1>0, <1>l, <1>r, <2>1, <2>4 DEF RecordsOK, HeldBack
  <2>. QED BY <1>l, <2>2, <2>3, <2>5, IdleRecords
<1>1. CASE InstallRoute
  <2>. DEFINE d == Head(plan).dest
              via == IF d \in Capture THEN snap.iface ELSE snap.gw
              now == table[PrefixRow(d)]
              r == [dest |-> d, via |-> via, replaced |-> now]
  <2>1. /\ pc = "apply" /\ plan # <<>> /\ pc' = "record" /\ plan' = Tail(plan)
        /\ UNCHANGED <<disk, mem, op>> /\ table' = [table EXCEPT ![d] = via]
        /\ snap' = [snap EXCEPT !.installed = Append(snap.installed, r)]
    BY <1>1, <1>c DEF InstallRoute
  <2>2. /\ snap \in Snapshot /\ snap # NoSnap /\ snap.pending = <<>> /\ Serving = snap
        /\ Head(plan) = plan[1] /\ 1 \in 1 .. Len(plan)
        /\ Captured # {} => d \in Capture
    BY <1>1, <1>c, HeadOfPlan
  <2>3. plan \in Seq(PlanRec) /\ d \in Dest
    BY <2>1, RestOfPlan DEF Shape, WorkOK
  <2>4. d \in Capture => d \notin Captured /\ op # "prepare"
    BY <1>r, <2>1, <2>2 DEF RecordsOK, FreshPlan, Installing
  <2>5. now \notin Tun /\ now \in Via /\ via \in Via /\ snap.iface \in Tun /\ snap.gw \in Gateway
    <3>1. PrefixRow(d) \in Dest BY <2>3, KeysAssumption DEF PrefixRow
    <3>2. d \in Capture => table[d] \notin Tun BY <2>4 DEF Captured
    <3>3. PrefixRow(d) = d \/ PrefixRow(d) = Default BY DEF PrefixRow
    <3>4. now \notin Tun
      <4>1. CASE d \in Capture
        <5>1. PrefixRow(d) = d BY <1>t, <4>1 DEF PrefixRow
        <5>. QED BY <3>2, <4>1, <5>1
      <4>2. CASE d \notin Capture
        <5>1. PrefixRow(d) \in Dest \ Capture BY <1>t, <3>1, <3>3, <4>2
        <5>. QED BY <1>r, <5>1 DEF OthersOutside
      <4>. QED BY <4>1, <4>2
    <3>. QED BY <1>t, <2>2, <3>1, <3>4 DEF Snapshot, Via
  <2>6. r \in RouteRec BY <2>3, <2>5 DEF RouteRec
  <2>7. r.dest = d /\ r.via = via /\ r.replaced = now OBVIOUS
  <2>8. via = IF d \in Capture THEN snap.iface ELSE snap.gw OBVIOUS
  <2>. HIDE DEF r, via, now
  <2>9. Grown(Routes(snap), Routes(snap'), r) BY <2>1, <2>2, <2>6, InstalledGrows
  <2>10. snap'.pending = <<>> BY <2>1, <2>2 DEF Snapshot
  <2>. HIDE DEF d
  <2>11. \A c \in Captured' : c # d => c \in Captured /\ table'[c] = table[c]
    BY <1>t, <2>1 DEF Captured
  <2>12. d \in Captured' => d \in Capture /\ table'[d] = via
    BY <1>t, <2>1, <2>3 DEF Captured
  <2>13. d \notin Capture => Captured' = {}
    BY <2>2, <2>11 DEF Captured
  <2>14. d \notin Capture =>
           \A i \in 1 .. Len(Routes(snap)) : Routes(snap)[i].dest \notin Capture
    <3>1. SUFFICES ASSUME NEW i \in 1 .. Len(Routes(snap)), Routes(snap)[i].dest \in Capture
                   PROVE  d \in Capture
      OBVIOUS
    <3>2. Captures(plan) BY <1>r, <2>1, <3>1 DEF RecordsOK, InstalledFirst, Installing
    <3>. QED BY <2>2, <3>2 DEF Captures, d
  <2>15. Good(snap')
    <3>1. LastIn(Routes(snap)) /\ Outside(Routes(snap)) BY <1>g, <2>2 DEF Good
    <3>. QED BY <2>5, <2>7, <2>9, <2>14, <3>1, GrownRecords DEF Good
  <2>16. GoodRecords' BY <1>g, <2>1, <2>15 DEF GoodRecords, Good
  <2>17. ASSUME NEW c \in Captured' PROVE On(snap, c)'
    <3>1. CASE c = d
      <4>1. Has(Routes(snap'), Len(Routes(snap')), d, via) BY <2>7, <2>9, GrownRecords
      <4>. QED BY <1>s, <2>1, <2>12, <3>1, <4>1 DEF On, Preparing
    <3>2. CASE c # d
      <4>1. Has(Routes(snap), Len(Routes(snap)), c, table[c])
        BY <1>o, <2>1, <2>11, <3>2 DEF On, Preparing
      <4>2. Has(Routes(snap'), Len(Routes(snap')), c, table[c])
        BY <2>9, <4>1, GrownRecords
      <4>. QED BY <1>s, <2>1, <2>11, <3>2, <4>2 DEF On, Preparing
    <3>. QED BY <3>1, <3>2
  <2>18. OnRecord' BY <2>1, <2>17 DEF OnRecord, Preparing
  <2>19. /\ Len(plan) \in Nat \ {0} /\ Len(plan') = Len(plan) - 1
         /\ \A i \in 1 .. Len(plan') : plan'[i] = plan[i + 1] /\ i + 1 \in 1 .. Len(plan)
    BY <2>1, <2>3, RestOfPlan
  <2>20. FreshPlan'
    <3>1. /\ \A i \in 1 .. Len(plan) :
               plan[i].dest \in Capture => plan[i].dest \notin Captured /\ op # "prepare"
          /\ \A i, j \in 1 .. Len(plan) :
               i < j /\ plan[i].dest \in Capture => plan[i].dest # plan[j].dest
      BY <1>r, <2>1 DEF RecordsOK, FreshPlan, Installing
    <3>2. ASSUME NEW i \in 1 .. Len(plan'), plan'[i].dest \in Capture
          PROVE  plan'[i].dest \notin Captured' /\ op # "prepare"
      <4>1. plan'[i] = plan[i + 1] /\ i + 1 \in 1 .. Len(plan) /\ 1 < i + 1
        BY <2>19
      <4>2. plan[i + 1].dest \notin Captured /\ op # "prepare" BY <3>1, <3>2, <4>1
      <4>3. plan[i + 1].dest \in Captured' => plan[i + 1].dest = d BY <2>11, <4>2
      <4>4. d \in Capture => plan[i + 1].dest # d
        BY <2>2, <3>1, <4>1 DEF d
      <4>. QED BY <2>12, <4>1, <4>2, <4>3, <4>4
    <3>3. ASSUME NEW i \in 1 .. Len(plan'), NEW j \in 1 .. Len(plan'), i < j,
                 plan'[i].dest \in Capture
          PROVE  plan'[i].dest # plan'[j].dest
      BY <2>19, <3>1, <3>3
    <3>. QED BY <2>1, <3>2, <3>3 DEF FreshPlan
  <2>21. InstalledFirst'
    <3>. SUFFICES ASSUME NEW i \in 1 .. Len(Routes(snap')),
                         Routes(snap')[i].dest \in Capture
                  PROVE  Captures(plan')
      BY DEF InstalledFirst
    <3>1. d \in Capture BY <2>7, <2>9, <2>14, GrownRecords
    <3>2. \A j \in 1 .. Len(plan) : 1 < j => plan[j].dest \in Capture
      BY <2>2, <3>1 DEF RoutesOK, CapturesLast, d
    <3>3. \A j \in 1 .. Len(plan') : 1 < j + 1 BY <2>19
    <3>. QED BY <2>19, <3>2, <3>3 DEF Captures
  <2>22. HeldBack'
    <3>1. Serving' = snap' BY <2>1 DEF Serving
    <3>2. op = "prepare" => Captured' = {} BY <2>4, <2>13
    <3>. QED BY <2>1, <2>10, <3>1, <3>2, PlanAssumption DEF HeldBack
  <2>. QED BY <2>16, <2>18, <2>20, <2>21, <2>22 DEF RecordsOK
<1>2. CASE RouteFails \/ SaveRouteFails \/ ConfigureFails \/ SetDnsFails \/ DeferRouteFails
           \/ BackupDnsFails \/ MarkUpFails \/ SaveAnchorsFails
  BY <1>2, <1>c DEF RouteFails, SaveRouteFails, ConfigureFails, SetDnsFails,
                    DeferRouteFails, BackupDnsFails, MarkUpFails, SaveAnchorsFails
<1>3. CASE SaveRoute
  <2>1. /\ pc = "record" /\ pc' = "apply" /\ disk' = snap
        /\ UNCHANGED <<table, mem, snap, plan, op>>
    BY <1>3 DEF SaveRoute, system
  <2>. QED BY <1>0, <1>k, <2>1 DEF Preparing, Installing
<1>5. CASE DeferRoute
  <2>. DEFINE n == Len(snap.pending)
              r == [dest |-> CapturePlan[n + 1].dest, via |-> snap.iface,
                    replaced |-> NoRoute]
  <2>1. /\ pc = "apply" /\ pc' = "apply" /\ op = "prepare" /\ n < Len(CapturePlan)
        /\ snap' = Deferred /\ disk' = Deferred /\ plan = <<>>
        /\ UNCHANGED <<table, mem, plan, op>>
    BY <1>5 DEF DeferRoute, DeferTurn, system
  <2>2. /\ snap \in Snapshot /\ snap # NoSnap /\ Serving = snap /\ snap.iface \in Tun
        /\ snap.pending \in Seq(RouteRec) /\ n \in Nat /\ Len(CapturePlan) \in Nat
    BY <1>0, <2>1, PlanAssumption DEF Preparing, Snapshot
  <2>3. Deferred = [snap EXCEPT !.pending = Append(snap.pending, r)] BY DEF Deferred
  <2>4. n + 1 \in 1 .. Len(CapturePlan) BY <2>1, <2>2
  <2>5. CapturePlan[n + 1].dest \in Capture BY <2>4, CaptureKey
  <2>6. r \in RouteRec BY <1>t, <2>2, <2>5 DEF RouteRec, Via
  <2>7. r.dest = CapturePlan[n + 1].dest /\ r.replaced = NoRoute OBVIOUS
  <2>. HIDE DEF r
  <2>8. Grown(Routes(snap), Routes(Deferred), r) BY <2>2, <2>3, <2>6, PendingGrows
  <2>9. Deferred.pending = Append(snap.pending, r) BY <2>2, <2>3 DEF Snapshot
  <2>10. /\ Captured = {} /\ \A i \in 1 .. n : snap.pending[i].dest = CapturePlan[i].dest
    BY <1>r, <2>1, <2>2 DEF RecordsOK, HeldBack
  <2>11. Captured' = {} BY <2>1, <2>10 DEF Captured
  <2>12. Good(Deferred)
    <3>1. LastIn(Routes(snap)) /\ Outside(Routes(snap)) BY <1>g, <2>2 DEF Good
    <3>. QED BY <1>t, <2>5, <2>7, <2>8, <3>1, GrownRecords DEF Good
  <2>13. GoodRecords' BY <1>g, <2>1, <2>12 DEF GoodRecords, Good
  <2>14. OnRecord' BY <2>11 DEF OnRecord
  <2>15. FreshPlan' /\ InstalledFirst' BY <2>1 DEF FreshPlan, InstalledFirst, Captures
  <2>16. HeldBack'
    <3>1. Serving' = Deferred BY <2>1 DEF Serving
    <3>2. /\ Len(Deferred.pending) = n + 1
          /\ \A i \in 1 .. n : Deferred.pending[i] = snap.pending[i]
          /\ Deferred.pending[n + 1] = r
      BY <2>2, <2>9
    <3>. HIDE DEF n
    <3>3. \A i \in 1 .. n + 1 : i \in 1 .. n \/ i = n + 1 BY <2>2
    <3>4. n + 1 <= Len(CapturePlan) BY <2>4
    <3>. QED BY <2>7, <2>10, <2>11, <3>1, <3>2, <3>3, <3>4 DEF HeldBack
  <2>. QED BY <2>13, <2>14, <2>15, <2>16 DEF RecordsOK
<1>7. CASE Prepared
  <2>1. /\ pc = "apply" /\ op = "prepare" /\ mem' = snap /\ pc' = "idle" /\ snap' = NoSnap
        /\ op' = "none" /\ UNCHANGED <<table, disk>>
    BY <1>7 DEF Prepared, DeferTurn, Idle, system
  <2>2. Captured = {} BY <1>0, <1>r, <2>1 DEF RecordsOK, HeldBack, Preparing
  <2>. QED BY <1>0, <1>l, <2>1, <2>2 DEF Preparing
<1>8. CASE BackupDns
  <2>1. /\ pc = "apply" /\ pc' = "setdns" /\ snap' = BackedUp /\ disk' = BackedUp
        /\ UNCHANGED <<table, mem, plan, op>>
    BY <1>8 DEF BackupDns, DnsTurn, system
  <2>2. Routes(BackedUp) = Routes(snap) /\ BackedUp.pending = snap.pending
    BY <1>0, <2>1 DEF BackedUp, Preparing, Snapshot, Routes
  <2>. QED BY <1>k, <1>s, <2>1, <2>2 DEF Preparing, Installing
<1>9. CASE SetDns
  <2>1. pc = "setdns" /\ pc' = "apply" /\ UNCHANGED <<table, disk, mem, snap, plan, op>>
    BY <1>9 DEF SetDns
  <2>. QED BY <1>0, <1>k, <2>1 DEF Preparing, Installing
<1>10. CASE MarkUp
  <2>. DEFINE s == [snap EXCEPT !.state = "Up"]
  <2>1. /\ pc = "apply" /\ pc' = "idle" /\ snap' = NoSnap /\ op' = "none"
        /\ disk' = s /\ mem' = s /\ table' = table
    BY <1>10 DEF MarkUp, DnsTurn, Idle, system
  <2>2. s \in Snapshot /\ Routes(s) = Routes(snap) /\ s.pending = snap.pending
    BY <1>0, <2>1 DEF Preparing, Snapshot, Routes
  <2>3. s # NoSnap BY <2>2, NoSnapAssumption
  <2>. HIDE DEF s
  <2>. QED BY <1>l, <2>1, <2>2, <2>3 DEF Preparing
<1>12. CASE SaveAnchors
  <2>1. /\ pc = "anchorsave" /\ pc' = "idle" /\ snap' = NoSnap /\ op' = "none"
        /\ disk' = snap /\ mem' = snap /\ table' = table
    BY <1>12 DEF SaveAnchors, Idle, system
  <2>. QED BY <1>0, <1>l, <2>1 DEF Preparing
<1>. QED
  BY <1>1, <1>2, <1>3, <1>5, <1>7, <1>8, <1>9, <1>10, <1>12 DEF Apply

LEMMA CaptureUndo ==
    ASSUME Shape, DnsOK, SessionOK, UndoneServices, CapturesOK, Undo, Clean'
    PROVE  RecordsOK'
<1>n. [Next]_vars BY DEF Next
<1>c. Clean /\ ~Missed BY <1>n, CleanBefore
<1>r. RecordsOK BY <1>c DEF CapturesOK
<1>g. Good(disk) /\ Good(mem) /\ Good(snap) BY <1>r DEF RecordsOK, GoodRecords
<1>m. mem' = NoSnap /\ Serving' = NoSnap BY NothingToServe
<1>p. pc \in {"anchors", "undo", "restore", "verify", "done"}
  BY DEF Undo, UndoAnchors, UndoDns, DeleteRoute, RestoreRoute, SkipChecks,
         CheckRoutes, CheckDns, Clear, EndSession, EndCommit, EndRestore, EndBoot, EndTerm
<1>0. snap \in Snapshot /\ snap # NoSnap /\ Len(Routes(snap)) \in Nat /\ Count(snap) \in Nat
      /\ Len(snap.dns) \in Nat
  BY <1>p, RoutesType, NoSnapAssumption DEF Shape, WorkOK, BusyHasSnap, Working
<1>l. left \in Nat BY DEF Shape, WorkOK
<1>i. \A c \in Captured' : c \in Captured /\ table'[c] = table[c] /\ On(disk, c)
  <2>1. ~InstallRoute BY <1>p DEF InstallRoute
  <2>. QED BY <1>n, <1>p, <1>r, <2>1, OnlyInstallCaptures DEF RecordsOK, OnRecord, Preparing
<1>d. pc \in {"verify", "done"} \/ (pc = "undo" /\ left = 0) => Captured' = {}
  BY <1>i, <1>r DEF RecordsOK, OnRecord, Has
(* While the rollback runs, only where it stands matters. *)
<1>k. ASSUME disk' = disk, snap' = snap, pc' \in {"undo", "restore", "verify", "done", "reconcile"},
             pc' \in {"verify", "done"} => Captured' = {},
             \A c \in Captured' : /\ pc' = "undo" => Has(Routes(snap), left', c, table[c])
                                  /\ pc' = "restore" => Has(Routes(snap), left' - 1, c, table[c])
      PROVE  RecordsOK'
  <2>1. GoodRecords' BY <1>g, <1>k, <1>m DEF GoodRecords, Good
  <2>2. OnRecord'
    <3>. SUFFICES ASSUME NEW c \in Captured'
                  PROVE  /\ On(disk, c)'
                         /\ pc' = "undo" => Has(Routes(snap), left, c, table[c])'
                         /\ pc' = "restore" => Has(Routes(snap), left - 1, c, table[c])'
                         /\ pc' \notin {"verify", "done"}
      BY <1>k, <1>m DEF OnRecord, Preparing
    <3>1. On(disk, c)' BY <1>i, <1>k DEF On
    <3>2. table'[c] = table[c] BY <1>i
    <3>. QED BY <1>k, <3>1, <3>2 DEF Has
  <2>. QED BY <1>k, <1>m, <2>1, <2>2
           DEF RecordsOK, FreshPlan, InstalledFirst, HeldBack, Installing
<1>1. CASE UndoAnchors
  <2>1. pc = "anchors" /\ pc' = "undo" /\ UNCHANGED <<disk, snap, left>>
    BY <1>1 DEF UndoAnchors
  <2>2. left >= Len(Routes(snap)) BY <1>0, <2>1 DEF UndoneServices, Count
  <2>3. \A c \in Captured' : Has(Routes(snap), Len(Routes(snap)), c, table[c])
    BY <1>i, <1>r, <2>1 DEF RecordsOK, OnRecord, On
  <2>4. \A c \in Captured' : Has(Routes(snap), left, c, table[c])
    BY <1>0, <1>l, <2>2, <2>3 DEF Has
  <2>. QED BY <1>k, <2>1, <2>4
<1>2. CASE UndoDns
  <2>1. /\ pc = "undo" /\ pc' = "undo" /\ left > Len(Routes(snap)) /\ left' = left - 1
        /\ UNCHANGED <<disk, snap>>
    BY <1>2 DEF UndoDns
  <2>2. \A c \in Captured' : Has(Routes(snap), left, c, table[c])
    BY <1>i, <1>r, <2>1 DEF RecordsOK, OnRecord
  <2>3. \A c \in Captured' : Has(Routes(snap), left - 1, c, table[c])
    BY <1>0, <1>l, <2>1, <2>2 DEF Has
  <2>. QED BY <1>k, <2>1, <2>3
<1>3. CASE DeleteRoute
  <2>. DEFINE r == Routes(snap)[left]
  <2>1. /\ pc = "undo" /\ left \in 1 .. Len(Routes(snap))
        /\ table' = Delete(table, r.dest, r.via)
        /\ \/ left' = left - 1 /\ pc' = "undo"
           \/ left' = left /\ pc' = "restore"
        /\ UNCHANGED <<disk, snap>>
    BY <1>3, <1>c DEF DeleteRoute
  <2>2. ASSUME NEW c \in Captured' PROVE Has(Routes(snap), left - 1, c, table[c])
    <3>1. PICK i \in 1 .. Len(Routes(snap)) :
            i <= left /\ Routes(snap)[i].dest = c /\ Routes(snap)[i].via = table[c]
      BY <1>i, <1>r, <2>1 DEF RecordsOK, OnRecord, Has
    <3>2. i # left
      <4>1. SUFFICES ASSUME i = left PROVE FALSE OBVIOUS
      <4>2. r.dest = c /\ r.via = table[c] BY <3>1, <4>1
      <4>. HIDE DEF r
      <4>3. table'[c] \in Tun /\ c \in Dest /\ NoRoute \notin Tun
        BY KeysAssumption, ViasAssumption DEF Captured
      <4>4. table \in [Dest -> Via] BY DEF Shape, SystemOK
      <4>. QED BY <2>1, <4>2, <4>3, <4>4 DEF Delete
    <3>. QED BY <1>l, <3>1, <3>2 DEF Has
  <2>. QED BY <1>k, <2>1, <2>2
<1>4. CASE RestoreRoute
  <2>1. pc = "restore" /\ pc' = "undo" /\ left' = left - 1 /\ UNCHANGED <<disk, snap>>
    BY <1>4 DEF RestoreRoute
  <2>2. \A c \in Captured' : Has(Routes(snap), left - 1, c, table[c])
    BY <1>i, <1>r, <2>1 DEF RecordsOK, OnRecord
  <2>. QED BY <1>k, <2>1, <2>2
<1>5. CASE SkipChecks \/ CheckRoutes
  <2>1. /\ pc = "undo" /\ left = 0 /\ pc' \in {"verify", "done"} /\ UNCHANGED <<disk, snap>>
    BY <1>5 DEF SkipChecks, CheckRoutes
  <2>. QED BY <1>d, <1>k, <2>1
<1>6. CASE CheckDns \/ EndBoot
  <2>1. pc \in {"verify", "done"} /\ pc' \in {"verify", "reconcile"} /\ UNCHANGED <<disk, snap>>
    BY <1>6 DEF CheckDns, EndBoot
  <2>. QED BY <1>d, <1>k, <2>1
<1>7. CASE Clear
  <2>1. pc = "verify" /\ pc' = "done" /\ disk' \in {disk, NoSnap} /\ snap' = snap
    BY <1>7 DEF Clear
  <2>2. Captured' = {} BY <1>d, <2>1
  <2>3. GoodRecords' BY <1>g, <1>m, <2>1 DEF GoodRecords, Good
  <2>. QED BY <1>m, <2>1, <2>2, <2>3
           DEF RecordsOK, OnRecord, FreshPlan, InstalledFirst, HeldBack, Installing
<1>8. CASE EndSession \/ EndCommit \/ EndTerm
  <2>1. pc = "done" /\ pc' \in {"idle", "down"} /\ snap' = NoSnap /\ disk' = disk
    BY <1>8 DEF EndSession, EndCommit, EndTerm, Idle, Exit
  <2>2. Captured' = {} BY <1>d, <2>1
  <2>3. HeldBack' BY <1>m DEF HeldBack
  <2>. QED BY <1>g, <1>m, <2>1, <2>2, <2>3, IdleRecords DEF Good
<1>9. CASE EndRestore
  <2>1. pc = "done" /\ disk' = disk /\ (Idle \/ Rollback(disk)) BY <1>9 DEF EndRestore
  <2>2. Captured' = {} BY <1>d, <2>1
  <2>3. CASE Idle
    <3>1. pc' = "idle" /\ snap' = NoSnap BY <2>3 DEF Idle
    <3>2. HeldBack' BY <1>m DEF HeldBack
    <3>. QED BY <1>g, <1>m, <2>1, <2>2, <3>1, <3>2, IdleRecords DEF Good
  <2>4. CASE Rollback(disk)
    BY <1>g, <1>m, <2>1, <2>2, <2>4, RollbackRecords
  <2>. QED BY <2>1, <2>3, <2>4
<1>. QED BY <1>1, <1>2, <1>3, <1>4, <1>5, <1>6, <1>7, <1>8, <1>9 DEF Undo

LEMMA CaptureRecover ==
    ASSUME Shape, DnsOK, SessionOK, CapturesOK, Recover, Clean' PROVE RecordsOK'
<1>n. [Next]_vars BY DEF Next
<1>c. Clean /\ ~Fault BY <1>n, CleanBefore
<1>r. RecordsOK BY <1>c DEF CapturesOK
<1>g. Good(disk) /\ Good(mem) /\ Good(snap) BY <1>r DEF RecordsOK, GoodRecords
<1>m. mem' = NoSnap /\ Serving' = NoSnap BY NothingToServe
<1>h. HeldBack' BY <1>m DEF HeldBack
<1>p. pc \in {"down", "bootanchors", "bootsave", "probe", "reconcile"}
  BY DEF Recover, Boot, BootAnchors, SaveBootAnchors, LeaveRunning, RollbackStale,
         Reconcile
<1>0. pc \in {"bootanchors", "bootsave", "probe"} => snap \in Snapshot /\ snap # NoSnap
  BY NoSnapAssumption DEF Shape, WorkOK, BusyHasSnap, Working
<1>i. \A c \in Captured' :
        /\ c \in Captured /\ table'[c] = table[c] /\ On(disk, c)
        /\ pc \in {"bootanchors", "bootsave", "probe"} => On(snap, c)
  <2>1. ~InstallRoute BY <1>p DEF InstallRoute
  <2>. QED BY <1>n, <1>p, <1>r, <2>1, OnlyInstallCaptures DEF RecordsOK, OnRecord, Preparing
(* Recovery goes on with the records it has read. *)
<1>k. ASSUME pc' \in {"bootanchors", "bootsave", "probe"}, Good(disk'), Good(snap'),
             \A c \in Captured' : On(disk, c)' /\ On(snap, c)'
      PROVE  RecordsOK'
  <2>1. GoodRecords' BY <1>k, <1>m DEF GoodRecords, Good
  <2>2. OnRecord' BY <1>k DEF OnRecord
  <2>. QED BY <1>h, <1>k, <2>1, <2>2 DEF RecordsOK, FreshPlan, InstalledFirst, Installing
<1>1. CASE Boot
  <2>1. /\ snap' = disk /\ disk' = disk
        /\ \/ pc' = "reconcile"
           \/ pc' \in {"probe", "bootanchors"} /\ disk # NoSnap
    BY <1>1 DEF Boot
  <2>2. \A c \in Captured' : On(disk, c)' /\ On(snap, c)' BY <1>i, <2>1 DEF On
  <2>3. Good(disk') /\ Good(snap') BY <1>g, <2>1 DEF Good
  <2>4. CASE pc' = "reconcile"
    BY <1>g, <1>h, <1>m, <2>2, <2>3, <2>4, IdleRecords DEF Good
  <2>. QED BY <1>k, <2>1, <2>2, <2>3, <2>4
<1>2. CASE BootAnchors
  <2>1. pc = "bootanchors" /\ pc' = "bootsave" /\ disk' = disk
        /\ \E X : snap' = [snap EXCEPT !.anchors = X]
    BY <1>2 DEF BootAnchors
  <2>2. Routes(snap') = Routes(snap) BY <1>0, <2>1 DEF Routes, Snapshot
  <2>3. snap' # NoSnap
    <3>1. Shape' BY <1>n, ShapeNext
    <3>. QED BY <2>1, <3>1, NoSnapAssumption DEF Shape, WorkOK, BusyHasSnap, Working
  <2>4. Good(disk') /\ Good(snap') BY <1>0, <1>g, <2>1, <2>2 DEF Good
  <2>5. \A c \in Captured' : On(disk, c)' /\ On(snap, c)'
    BY <1>i, <2>1, <2>2, <2>3 DEF On
  <2>. QED BY <1>k, <2>1, <2>4, <2>5
<1>3. CASE SaveBootAnchors
  <2>1. pc = "bootsave" /\ pc' = "probe" /\ disk' = snap /\ snap' = snap
    BY <1>3, <1>c DEF SaveBootAnchors
  <2>2. \A c \in Captured' : On(disk, c)' /\ On(snap, c)' BY <1>i, <2>1 DEF On
  <2>. QED BY <1>g, <1>k, <2>1, <2>2
<1>4. CASE LeaveRunning \/ Reconcile
  <2>1. pc' = "idle" /\ snap' = NoSnap /\ disk' = disk
    BY <1>4 DEF LeaveRunning, Reconcile, Idle
  <2>2. \A c \in Captured' : On(disk, c)' BY <1>i, <2>1 DEF On
  <2>. QED BY <1>g, <1>h, <1>m, <2>1, <2>2, IdleRecords DEF Good
<1>5. CASE RollbackStale
  <2>1. pc = "probe" /\ Rollback(snap) /\ disk' = disk BY <1>5 DEF RollbackStale
  <2>2. \A c \in Captured' : On(disk, c)' /\ Has(Routes(snap), Len(Routes(snap)), c, table'[c])
    BY <1>i, <2>1 DEF On
  <2>. QED BY <1>0, <1>g, <1>m, <2>1, <2>2, RollbackRecords
<1>. QED BY <1>1, <1>2, <1>3, <1>4, <1>5 DEF Recover

(* A crash loses nothing of a clean session: what the handler has changed  *)
(* is in the file.                                                         *)
LEMMA CaptureEnvironment ==
    ASSUME Shape, SessionOK, CapturesOK, Environment \/ UNCHANGED vars, Clean'
    PROVE  RecordsOK'
<1>n. [Next]_vars BY DEF Next
<1>c. Clean BY <1>n, CleanBefore
<1>r. RecordsOK BY <1>c DEF CapturesOK
<1>g. Good(disk) /\ Good(mem) /\ Good(snap) BY <1>r DEF RecordsOK, GoodRecords
<1>1. CASE Crash
  <2>1. /\ pc' = "down" /\ mem' = NoSnap /\ snap' = NoSnap /\ disk' = disk
        /\ Unwritten = {} /\ table' = Sweep(table, holders')
    BY <1>1 DEF Crash, Exit, Forget, Clean, CloseHelper
  <2>2. ASSUME NEW c \in Captured' PROVE c \in Captured /\ table'[c] = table[c]
    <3>1. Capture \subseteq Dest /\ NoRoute \notin Tun BY KeysAssumption, ViasAssumption
    <3>. QED BY <2>1, <2>2, <3>1 DEF Sweep, Captured
  <2>3. ASSUME NEW c \in Captured' PROVE On(disk, c)
    <3>1. CASE pc \notin Preparing BY <1>r, <2>2, <3>1 DEF RecordsOK, OnRecord
    <3>2. CASE pc \in Preparing
      <4>1. On(snap, c) /\ disk # NoSnap
        BY <1>r, <2>2, <3>2 DEF RecordsOK, OnRecord, SessionOK, SameDevice
      <4>2. Records(snap) \subseteq Records(disk)
        BY <2>1, <4>1 DEF Unwritten, On
      <4>3. PICK i \in 1 .. Len(Routes(snap)) :
              Routes(snap)[i].dest = c /\ Routes(snap)[i].via = table[c]
        BY <4>1 DEF On, Has
      <4>4. Routes(snap)[i] \in Records(disk) BY <4>1, <4>2 DEF Records, On
      <4>5. PICK j \in 1 .. Len(Routes(disk)) : Routes(disk)[j] = Routes(snap)[i]
        BY <4>1, <4>4 DEF Records
      <4>6. Len(Routes(disk)) \in Nat
        BY <4>1, RoutesType DEF Shape, StoreOK
      <4>7. j <= Len(Routes(disk)) BY <4>6
      <4>. QED BY <4>1, <4>3, <4>5, <4>7 DEF On, Has
    <3>. QED BY <3>1, <3>2
  <2>4. \A c \in Captured' : On(disk, c)' BY <2>1, <2>2, <2>3 DEF On
  <2>5. HeldBack' BY <2>1 DEF HeldBack, Serving
  <2>. QED BY <1>g, <2>1, <2>4, <2>5, IdleRecords DEF Good
<1>2. CASE ~Crash
  <2>1. UNCHANGED <<disk, mem, work>>
    BY <1>2 DEF Environment, AppExit, NetworkSwitch, vars, system
  <2>2. ASSUME NEW c \in Captured' PROVE c \in Captured /\ table'[c] = table[c]
    <3>1. ~InstallRoute
      <4>1. UNCHANGED pc BY <2>1 DEF work
      <4>. QED BY <4>1 DEF InstallRoute
    <3>. QED BY <1>n, <2>2, <3>1, OnlyInstallCaptures
  <2>3. GoodRecords' BY <1>g, <2>1 DEF work, GoodRecords, Good
  <2>4. OnRecord' BY <1>r, <2>1, <2>2 DEF work, RecordsOK, OnRecord, On
  <2>5. FreshPlan' BY <1>r, <2>1, <2>2 DEF work, RecordsOK, FreshPlan
  <2>6. InstalledFirst' BY <1>r, <2>1 DEF work, RecordsOK, InstalledFirst, Captures
  <2>7. HeldBack'
    <3>1. Captured = {} => Captured' = {} BY <2>2
    <3>2. Serving' = Serving BY <2>1 DEF work, Serving
    <3>. QED BY <1>r, <2>1, <3>1, <3>2 DEF work, RecordsOK, HeldBack
  <2>. QED BY <2>3, <2>4, <2>5, <2>6, <2>7 DEF RecordsOK
<1>. QED BY <1>1, <1>2

LEMMA CaptureInit == Init => CapturesOK
<1>. SUFFICES ASSUME Init PROVE CapturesOK
  OBVIOUS
<1>1. table = InitTable /\ pc = "idle" /\ disk = NoSnap /\ mem = NoSnap /\ snap = NoSnap
  BY DEF Init
<1>2. \A d \in Dest : table[d] \notin Tun BY <1>1, InitAssumption
<1>3. Captured = {} BY <1>2, KeysAssumption DEF Captured
<1>4. Serving = NoSnap BY <1>1 DEF Serving
<1>5. RecordsOK
  BY <1>1, <1>3, <1>4 DEF RecordsOK, GoodRecords, Good, OnRecord, FreshPlan,
                          InstalledFirst, HeldBack, Installing
<1>. QED BY <1>2, <1>3, <1>5 DEF CapturesOK, OthersOutside, CaptureGoesFirst, Captured

(* Unless a command fails or a record was dropped: as long as a capture    *)
(* route leads into a tunnel, every host route to a proxy server is there, *)
(* on the way up, on the way down, and after a crash or the app's exit.    *)
THEOREM CapturesLeaveFirst == Spec => []CaptureGoesFirst
<1>1. Shape /\ DnsOK /\ RoutesOK /\ TunnelOK /\ RoutesOK' /\ TunnelOK' /\ CapturesOK
      /\ [Next]_vars => CapturesOK'
  <2>. SUFFICES ASSUME Shape, DnsOK, RoutesOK, TunnelOK, RoutesOK', TunnelOK', CapturesOK,
                       [Next]_vars, Clean'
                PROVE  RecordsOK' /\ OthersOutside' /\ CaptureGoesFirst'
    BY DEF CapturesOK
  <2>1. SessionOK /\ SessionOK' /\ UndoneServices BY DEF TunnelOK
  <2>2. OthersOutside' /\ CaptureGoesFirst' BY <2>1, StayOutside, GoesFirst
  <2>3. RecordsOK'
    BY <2>1, CaptureRequest, CaptureApply, CaptureUndo, CaptureRecover,
       CaptureEnvironment DEF Next
  <2>. QED BY <2>2, <2>3
<1>2. CapturesOK => CaptureGoesFirst BY DEF CapturesOK, CaptureGoesFirst, Clean
<1>. QED BY <1>1, <1>2, CaptureInit, TunnelInvariance, PTL DEF Spec
------------------------------------------------------------------------------
(* How much of what it has started the helper still has before it, whatever *)
(* fails: a rollback passes every record twice at most and every service    *)
(* once more; a bring_up may end in a rollback of all it has recorded.      *)
Undoing(s) == 2 * Count(s) + Len(s.dns) + 4

Booting(d) == IF d = NoSnap THEN 2 ELSE Undoing(d) + 5

(* What comes after the rollback that is running. *)
Later(o, d) ==
    CASE o = "term" -> Booting(d)
      [] o = "restore" /\ d # NoSnap -> Undoing(d)
      [] o = "boot" -> 1
      [] OTHER -> 0

Gap(n, m) == IF n < m THEN m - n ELSE 0

Coming(s, o) ==
    IF o = "prepare" THEN 3 * Gap(Len(s.pending), Len(CapturePlan))
    ELSE 5 * Gap(Len(s.dns), Len(DnsPlan))

Raising(s, p, o) == Undoing(s) + 4 * Len(p) + Coming(s, o)

ToGo ==
    CASE pc = "idle"        -> 0
      [] pc = "anchorsave"  -> 1
      [] pc = "apply"       -> Raising(snap, plan, op) + 1
      [] pc \in {"record", "setdns"} -> Raising(snap, plan, op) + 2
      [] pc = "down"        -> Booting(disk)
      [] pc = "bootanchors" -> Undoing(snap) + 3 + Later(op, disk)
      [] pc = "bootsave"    -> Undoing(snap) + 2 + Later(op, disk)
      [] pc = "probe"       -> Undoing(snap) + 1 + Later(op, disk)
      [] pc = "anchors"     -> Undoing(snap) + Later(op, disk)
      [] pc = "undo"        -> 2 * left + Len(snap.dns) + 3 + Later(op, disk)
      [] pc = "restore"     -> 2 * left + Len(snap.dns) + 2 + Later(op, disk)
      [] pc = "verify"      -> left + 2 + Later(op, disk)
      [] pc = "done"        -> 1 + Later(op, disk)
      [] OTHER              -> 1  \* "reconcile"

Nearer ==
    pc # "idle" => \/ UNCHANGED <<disk, mem, work>>
                   \/ ToGo' < ToGo
                   \/ used'["crash"] > used["crash"]

HandlersRunOut == [][Nearer]_vars

(* Recovery runs under its own name. *)
InRecovery == pc \in {"bootanchors", "bootsave", "probe"} => op = "boot"

LEMMA Sums ==
    ASSUME NEW n \in Nat, NEW m \in Nat
    PROVE  2 * n + m + 4 \in Nat /\ 2 * n + m + 4 > 3
  OBVIOUS

LEMMA Total ==
    ASSUME NEW t, NEW n \in Nat, NEW m \in Nat, NEW k \in Nat
    PROVE  /\ t = n + m + k => t \in Nat
           /\ t = 2 * n + m + 3 + k \/ t = 2 * n + m + 2 + k => t \in Nat /\ t > 0
  OBVIOUS

LEMMA UndoingIs ==
    ASSUME NEW s \in Snapshot
    PROVE  /\ Len(s.installed) \in Nat /\ Len(s.pending) \in Nat /\ Len(s.dns) \in Nat
           /\ Count(s) \in Nat /\ Undoing(s) = 2 * Count(s) + Len(s.dns) + 4
           /\ Count(s) = Len(s.installed) + Len(s.pending) + Len(s.dns)
<1>1. /\ s.installed \in Seq(RouteRec) /\ s.pending \in Seq(RouteRec)
      /\ s.dns \in Seq(DnsRec)
  BY DEF Snapshot
<1>2. Len(Routes(s)) = Len(s.installed) + Len(s.pending)
  BY <1>1, ConcatProperties DEF Routes
<1>3. Len(s.installed) \in Nat /\ Len(s.pending) \in Nat /\ Len(s.dns) \in Nat
  BY <1>1
<1>4. Count(s) = Len(s.installed) + Len(s.pending) + Len(s.dns)
  BY <1>2 DEF Count
<1>5. Undoing(s) = 2 * Count(s) + Len(s.dns) + 4 BY DEF Undoing
<1>6. Count(s) \in Nat BY <1>3, <1>4, Total, Zenon
<1>. QED BY <1>3, <1>4, <1>5, <1>6

LEMMA GapIs ==
    ASSUME NEW n \in Nat, NEW m \in Nat
    PROVE  /\ Gap(n, m) \in Nat
           /\ n < m => Gap(n, m) > 0 /\ Gap(n + 1, m) = Gap(n, m) - 1
  BY DEF Gap

LEMMA PlanLengths == Len(CapturePlan) \in Nat /\ Len(DnsPlan) \in Nat
  BY PlanAssumption

LEMMA UndoingType == ASSUME NEW s \in Snapshot PROVE Undoing(s) \in Nat /\ Undoing(s) > 3
<1>1. Count(s) \in Nat /\ Len(s.dns) \in Nat BY UndoingIs
<1>. QED BY <1>1, Sums DEF Undoing

LEMMA LaterType ==
    ASSUME NEW o, NEW d \in Snapshot \cup {NoSnap}
    PROVE  Booting(d) \in Nat /\ Booting(d) > 1 /\ Later(o, d) \in Nat
<1>1. d # NoSnap => Undoing(d) \in Nat BY UndoingType
<1>2. Booting(d) \in Nat /\ Booting(d) > 1 BY <1>1 DEF Booting
<1>. QED BY <1>1, <1>2 DEF Later

LEMMA RaisingIs ==
    ASSUME NEW s \in Snapshot, NEW p \in Seq(PlanRec), NEW o
    PROVE  /\ Coming(s, o) \in Nat /\ Len(p) \in Nat /\ Raising(s, p, o) \in Nat
           /\ Raising(s, p, o) = Undoing(s) + 4 * Len(p) + Coming(s, o)
<1>1. /\ Gap(Len(s.pending), Len(CapturePlan)) \in Nat
      /\ Gap(Len(s.dns), Len(DnsPlan)) \in Nat
  BY UndoingIs, GapIs, PlanLengths
<1>2. Coming(s, o) \in Nat BY <1>1 DEF Coming
<1>3. Len(p) \in Nat OBVIOUS
<1>4. 4 * Len(p) \in Nat BY <1>3
<1>5. Undoing(s) \in Nat BY UndoingType
<1>. QED BY <1>2, <1>3, <1>4, <1>5 DEF Raising

(* The distance, place by place. *)
At(p, n) == pc = p => ToGo = n

PlaceByPlace ==
    /\ At("idle", 0) /\ At("anchorsave", 1) /\ At("reconcile", 1) /\ At("down", Booting(disk))
    /\ At("apply", Raising(snap, plan, op) + 1)
    /\ At("record", Raising(snap, plan, op) + 2) /\ At("setdns", Raising(snap, plan, op) + 2)
    /\ At("bootanchors", Undoing(snap) + 3 + Later(op, disk))
    /\ At("bootsave", Undoing(snap) + 2 + Later(op, disk))
    /\ At("probe", Undoing(snap) + 1 + Later(op, disk))
    /\ At("anchors", Undoing(snap) + Later(op, disk))
    /\ At("undo", 2 * left + Len(snap.dns) + 3 + Later(op, disk))
    /\ At("restore", 2 * left + Len(snap.dns) + 2 + Later(op, disk))
    /\ At("verify", left + 2 + Later(op, disk)) /\ At("done", 1 + Later(op, disk))

LEMMA Places == PlaceByPlace /\ PlaceByPlace'
<1>1. PlaceByPlace BY Zenon DEF PlaceByPlace, At, ToGo
<1>2. PlaceByPlace' BY Zenon DEF PlaceByPlace, At, ToGo
<1>. QED BY <1>1, <1>2

LEMMA Worker ==
    ASSUME Shape
    PROVE  /\ pc \in Working => snap \in Snapshot /\ Len(snap.dns) \in Nat
                                /\ Undoing(snap) \in Nat /\ Undoing(snap) > 3
           /\ plan \in Seq(PlanRec) /\ left \in Nat
           /\ Booting(disk) \in Nat /\ Booting(disk) > 1 /\ Later(op, disk) \in Nat
<1>1. disk \in Snapshot \cup {NoSnap} BY DEF Shape, StoreOK
<1>. QED BY <1>1, UndoingIs, UndoingType, LaterType DEF Shape, WorkOK, BusyHasSnap

LEMMA TakesTime == ASSUME Shape, pc # "idle" PROVE ToGo \in Nat /\ ToGo > 0
<1>1. PlaceByPlace BY Places
<1>2. Booting(disk) \in Nat /\ Booting(disk) > 1 /\ Later(op, disk) \in Nat /\ left \in Nat
  BY Worker
<1>3. CASE pc \in Installing
  <2>1. Raising(snap, plan, op) \in Nat
    BY <1>3, Worker, RaisingIs DEF Installing, Working
  <2>. QED BY <1>1, <1>3, <2>1 DEF PlaceByPlace, At, Installing
<1>4. CASE pc \in {"bootanchors", "bootsave", "probe", "anchors"}
  <2>1. Undoing(snap) \in Nat /\ Undoing(snap) > 3 BY <1>4, Worker DEF Working
  <2>. QED BY <1>1, <1>2, <1>4, <2>1 DEF PlaceByPlace, At
<1>5. CASE pc \in {"undo", "restore"}
  <2>1. Len(snap.dns) \in Nat BY <1>5, Worker DEF Working
  <2>2. \/ ToGo = 2 * left + Len(snap.dns) + 3 + Later(op, disk)
        \/ ToGo = 2 * left + Len(snap.dns) + 2 + Later(op, disk)
    BY <1>1, <1>5 DEF PlaceByPlace, At
  <2>. QED BY <1>2, <2>1, <2>2, Total, Zenon
<1>6. CASE pc \in {"verify", "done"}
  <2>1. ToGo = left + 2 + Later(op, disk) \/ ToGo = 1 + Later(op, disk)
    BY <1>1, <1>6 DEF PlaceByPlace, At
  <2>. QED BY <1>2, <2>1
<1>7. CASE pc \in {"anchorsave", "down", "reconcile"}
  BY <1>1, <1>2, <1>7 DEF PlaceByPlace, At
<1>. QED BY <1>3, <1>4, <1>5, <1>6, <1>7 DEF Shape, WorkOK, Working, Installing

LEMMA EndNearer == ASSUME Shape, pc # "idle", pc' = "idle" PROVE Nearer
<1>1. ToGo' = 0 BY Places DEF PlaceByPlace, At
<1>. QED BY <1>1, TakesTime DEF Nearer

(* A bring_up or a commit that fails has no more to undo than it would have *)
(* had to do.                                                               *)
LEMMA FailureNearer ==
    ASSUME Shape, InHandler, pc \in Installing, UNCHANGED op,
           NEW s \in Snapshot, Rollback(s), Undoing(s) < Raising(snap, plan, op) + 1
    PROVE  Nearer
<1>1. Later(op', disk') = 0 BY DEF InHandler, Later
<1>2. pc' = "anchors" /\ snap' = s BY DEF Rollback
<1>3. ToGo' = Undoing(snap') + Later(op', disk') BY <1>2, Places DEF PlaceByPlace, At
<1>4. Undoing(s) \in Nat BY UndoingType
<1>5. ToGo' = Undoing(s) BY <1>1, <1>2, <1>3, <1>4
<1>6. ToGo = Raising(snap, plan, op) + 1 \/ ToGo = Raising(snap, plan, op) + 2
  BY Places DEF PlaceByPlace, At, Installing
<1>7. Raising(snap, plan, op) \in Nat BY Worker, RaisingIs DEF Installing, Working
<1>. QED BY <1>4, <1>5, <1>6, <1>7 DEF Nearer

LEMMA AbortNearer == ASSUME Shape, InHandler, pc \in Installing, Abort PROVE Nearer
<1>1. snap \in Snapshot /\ plan \in Seq(PlanRec) /\ Undoing(snap) \in Nat
  BY Worker DEF Installing, Working
<1>2. /\ Raising(snap, plan, op) = Undoing(snap) + 4 * Len(plan) + Coming(snap, op)
      /\ Coming(snap, op) \in Nat /\ Len(plan) \in Nat
  BY <1>1, RaisingIs
<1>3. 4 * Len(plan) \in Nat BY <1>2
<1>4. Undoing(snap) < Raising(snap, plan, op) + 1 BY <1>1, <1>2, <1>3
<1>. QED BY <1>1, <1>4, FailureNearer DEF Abort

(* A record more is two steps more to undo, a service one more to read again. *)
Weight(n, m, k) == 2 * (n + m + k) + k + 4

LEMMA WeightGrows ==
    ASSUME NEW n \in Nat, NEW m \in Nat, NEW k \in Nat
    PROVE  /\ Weight(n + 1, m, k) = Weight(n, m, k) + 2
           /\ Weight(n, m + 1, k) = Weight(n, m, k) + 2
           /\ Weight(n, m, k + 1) = Weight(n, m, k) + 3
  BY DEF Weight

LEMMA UndoingWeighs ==
    ASSUME NEW s \in Snapshot
    PROVE  Undoing(s) = Weight(Len(s.installed), Len(s.pending), Len(s.dns))
  BY UndoingIs, Zenon DEF Weight

LEMMA RecordAdded ==
    ASSUME NEW s \in Snapshot, NEW t \in Snapshot
    PROVE  /\ /\ Len(t.installed) = Len(s.installed) + 1
              /\ t.pending = s.pending /\ t.dns = s.dns
              => Undoing(t) = Undoing(s) + 2
           /\ /\ Len(t.pending) = Len(s.pending) + 1
              /\ t.installed = s.installed /\ t.dns = s.dns
              => Undoing(t) = Undoing(s) + 2
           /\ /\ Len(t.dns) = Len(s.dns) + 1
              /\ t.installed = s.installed /\ t.pending = s.pending
              => Undoing(t) = Undoing(s) + 3
<1>1. Len(s.installed) \in Nat /\ Len(s.pending) \in Nat /\ Len(s.dns) \in Nat
  BY UndoingIs
<1>2. /\ Undoing(s) = Weight(Len(s.installed), Len(s.pending), Len(s.dns))
      /\ Undoing(t) = Weight(Len(t.installed), Len(t.pending), Len(t.dns))
  BY UndoingWeighs
<1>3. ASSUME Len(t.installed) = Len(s.installed) + 1, t.pending = s.pending, t.dns = s.dns
      PROVE  Undoing(t) = Undoing(s) + 2
  <2>1. Undoing(t) = Weight(Len(s.installed) + 1, Len(s.pending), Len(s.dns))
    BY <1>2, <1>3, Zenon
  <2>2. Weight(Len(s.installed) + 1, Len(s.pending), Len(s.dns))
        = Weight(Len(s.installed), Len(s.pending), Len(s.dns)) + 2
    BY <1>1, WeightGrows
  <2>. QED BY <1>2, <2>1, <2>2
<1>4. ASSUME Len(t.pending) = Len(s.pending) + 1, t.installed = s.installed, t.dns = s.dns
      PROVE  Undoing(t) = Undoing(s) + 2
  <2>1. Undoing(t) = Weight(Len(s.installed), Len(s.pending) + 1, Len(s.dns))
    BY <1>2, <1>4, Zenon
  <2>2. Weight(Len(s.installed), Len(s.pending) + 1, Len(s.dns))
        = Weight(Len(s.installed), Len(s.pending), Len(s.dns)) + 2
    BY <1>1, WeightGrows
  <2>. QED BY <1>2, <2>1, <2>2
<1>5. ASSUME Len(t.dns) = Len(s.dns) + 1, t.installed = s.installed, t.pending = s.pending
      PROVE  Undoing(t) = Undoing(s) + 3
  <2>1. Undoing(t) = Weight(Len(s.installed), Len(s.pending), Len(s.dns) + 1)
    BY <1>2, <1>5, Zenon
  <2>2. Weight(Len(s.installed), Len(s.pending), Len(s.dns) + 1)
        = Weight(Len(s.installed), Len(s.pending), Len(s.dns)) + 3
    BY <1>1, WeightGrows
  <2>. QED BY <1>2, <2>1, <2>2
<1>. QED BY <1>3, <1>4, <1>5, Zenon

LEMMA Paid ==
    ASSUME NEW u \in Nat, NEW n \in Nat, NEW c \in Nat
    PROVE  /\ n > 0 => u + 2 + 4 * (n - 1) + c + 2 < u + 4 * n + c + 1
           /\ n > 0 => u + 4 * (n - 1) + c + 1 < u + 4 * n + c + 1
           /\ c > 0 => u + 2 + 4 * n + 3 * (c - 1) + 1 < u + 4 * n + 3 * c + 1
           /\ c > 0 => u + 3 + 4 * n + 5 * (c - 1) + 2 < u + 4 * n + 5 * c + 1
           /\ c > 0 => u + 2 < u + 4 * n + 3 * c + 1 /\ u + 3 < u + 4 * n + 5 * c + 1
  OBVIOUS

LEMMA InstallNearer == ASSUME Shape, Shape', InstallRoute PROVE Nearer
<1>1. pc = "apply" /\ pc' = "record" /\ plan # <<>> /\ plan' = Tail(plan) /\ op' = op
  BY DEF InstallRoute
<1>2. /\ snap \in Snapshot /\ snap' \in Snapshot /\ plan \in Seq(PlanRec)
      /\ plan' \in Seq(PlanRec)
  BY <1>1 DEF Shape, WorkOK, BusyHasSnap, Working
<1>3. /\ Len(snap'.installed) = Len(snap.installed) + 1
      /\ snap'.pending = snap.pending /\ snap'.dns = snap.dns
  <2>1. PICK r : snap' = [snap EXCEPT !.installed = Append(@, r)] BY DEF InstallRoute
  <2>2. /\ snap'.installed = Append(snap.installed, r)
        /\ snap'.pending = snap.pending /\ snap'.dns = snap.dns
    BY <1>2, <2>1 DEF Snapshot
  <2>3. Len(Append(snap.installed, r)) = Len(snap.installed) + 1
    BY <1>2 DEF Snapshot
  <2>. QED BY <2>2, <2>3
<1>4. Undoing(snap') = Undoing(snap) + 2 /\ Undoing(snap) \in Nat
  BY <1>2, <1>3, RecordAdded, UndoingType
<1>5. Coming(snap', op') = Coming(snap, op) BY <1>1, <1>3 DEF Coming
<1>6. Len(plan') = Len(plan) - 1 /\ Len(plan) \in Nat /\ Len(plan) > 0 BY <1>1, <1>2
<1>7. /\ Raising(snap, plan, op) = Undoing(snap) + 4 * Len(plan) + Coming(snap, op)
      /\ Coming(snap, op) \in Nat
      /\ Raising(snap', plan', op') = Undoing(snap') + 4 * Len(plan') + Coming(snap', op')
  BY <1>2, RaisingIs
<1>8. Raising(snap', plan', op') + 2 < Raising(snap, plan, op) + 1
  BY <1>4, <1>5, <1>6, <1>7, Paid, Zenon
<1>9. ToGo = Raising(snap, plan, op) + 1 /\ ToGo' = Raising(snap', plan', op') + 2
  BY <1>1, Places DEF PlaceByPlace, At
<1>. QED BY <1>8, <1>9 DEF Nearer

LEMMA SkipNearer == ASSUME Shape, Shape', InHandler, RouteFails PROVE Nearer
<1>1. pc = "apply" /\ plan # <<>> BY DEF RouteFails
<1>2. CASE Abort BY <1>1, <1>2, AbortNearer DEF Installing
<1>3. CASE plan' = Tail(plan) /\ UNCHANGED <<disk, mem, snap, left, ok, added, pc, op, lost>>
  <2>1. snap \in Snapshot /\ plan \in Seq(PlanRec) /\ plan' \in Seq(PlanRec)
    BY <1>1 DEF Shape, WorkOK, BusyHasSnap, Working
  <2>2. Len(plan') = Len(plan) - 1 /\ Len(plan) \in Nat /\ Len(plan) > 0
    BY <1>1, <1>3, <2>1
  <2>3. /\ Raising(snap, plan, op) = Undoing(snap) + 4 * Len(plan) + Coming(snap, op)
        /\ Coming(snap, op) \in Nat /\ Undoing(snap) \in Nat
        /\ Raising(snap, plan', op) = Undoing(snap) + 4 * Len(plan') + Coming(snap, op)
    BY <2>1, RaisingIs, UndoingType
  <2>4. Raising(snap, plan', op) + 1 < Raising(snap, plan, op) + 1
    BY <2>2, <2>3, Paid, Zenon
  <2>5. ToGo = Raising(snap, plan, op) + 1 /\ ToGo' = Raising(snap, plan', op) + 1
    BY <1>1, <1>3, Places DEF PlaceByPlace, At
  <2>. QED BY <2>4, <2>5 DEF Nearer
<1>. QED BY <1>2, <1>3 DEF RouteFails

(* A capture held back, a backup taken: what it adds to a rollback is less  *)
(* than what was set aside for it.                                          *)
LEMMA DeferNearer ==
    ASSUME Shape, Shape', InHandler, DeferRoute \/ DeferRouteFails
    PROVE  Nearer
<1>1. /\ pc = "apply" /\ op = "prepare" /\ op' = op /\ snap' = Deferred
      /\ Len(snap.pending) < Len(CapturePlan)
  BY DEF DeferRoute, DeferRouteFails, DeferTurn, Rollback
<1>2. pc' \in {"apply", "anchors"} BY <1>1 DEF DeferRoute, DeferRouteFails, Rollback
<1>3. /\ snap \in Snapshot /\ snap' \in Snapshot /\ plan \in Seq(PlanRec)
  BY <1>1, <1>2 DEF Shape, WorkOK, BusyHasSnap, Working
<1>4. /\ Len(snap'.pending) = Len(snap.pending) + 1
      /\ snap'.installed = snap.installed /\ snap'.dns = snap.dns
  <2>1. PICK r : snap' = [snap EXCEPT !.pending = Append(@, r)] BY <1>1 DEF Deferred
  <2>2. /\ snap'.pending = Append(snap.pending, r)
        /\ snap'.installed = snap.installed /\ snap'.dns = snap.dns
    BY <1>3, <2>1 DEF Snapshot
  <2>3. Len(Append(snap.pending, r)) = Len(snap.pending) + 1
    BY <1>3 DEF Snapshot
  <2>. QED BY <2>2, <2>3
<1>5. Undoing(snap') = Undoing(snap) + 2 /\ Undoing(snap) \in Nat
  BY <1>3, <1>4, RecordAdded, UndoingType
<1>. DEFINE c == Gap(Len(snap.pending), Len(CapturePlan))
<1>6. /\ c \in Nat /\ c > 0
      /\ Gap(Len(snap'.pending), Len(CapturePlan)) = c - 1
  <2>1. Len(snap.pending) \in Nat BY <1>3, UndoingIs
  <2>2. c \in Nat /\ c > 0 /\ Gap(Len(snap.pending) + 1, Len(CapturePlan)) = c - 1
    BY <1>1, <2>1, GapIs, PlanLengths
  <2>. QED BY <1>4, <2>2
<1>7. Coming(snap, op) = 3 * c /\ Coming(snap', op') = 3 * (c - 1)
  BY <1>1, <1>6 DEF Coming
<1>. HIDE DEF c
<1>8. /\ Raising(snap, plan, op) = Undoing(snap) + 4 * Len(plan) + Coming(snap, op)
      /\ Len(plan) \in Nat
      /\ Raising(snap', plan, op') = Undoing(snap') + 4 * Len(plan) + Coming(snap', op')
  BY <1>3, RaisingIs
<1>9. /\ Raising(snap', plan, op') + 1 < Raising(snap, plan, op) + 1
      /\ Undoing(snap') < Raising(snap, plan, op) + 1
  BY <1>5, <1>6, <1>7, <1>8, Paid, Zenon
<1>10. CASE DeferRoute
  <2>1. pc' = "apply" /\ plan' = plan BY <1>1, <1>10 DEF DeferRoute
  <2>2. ToGo = Raising(snap, plan, op) + 1 /\ ToGo' = Raising(snap', plan, op') + 1
    BY <1>1, <2>1, Places DEF PlaceByPlace, At
  <2>. QED BY <1>9, <2>2 DEF Nearer
<1>11. CASE DeferRouteFails
  <2>1. Rollback(Deferred) BY <1>11 DEF DeferRouteFails
  <2>. QED BY <1>1, <1>3, <1>9, <2>1, FailureNearer DEF Installing
<1>. QED BY <1>10, <1>11

LEMMA BackupNearer ==
    ASSUME Shape, Shape', InHandler, BackupDns \/ BackupDnsFails
    PROVE  Nearer
<1>1. /\ pc = "apply" /\ op # "prepare" /\ op' = op /\ Len(snap.dns) < Len(DnsPlan)
  BY DEF BackupDns, BackupDnsFails, DnsTurn
<1>2. CASE BackupDnsFails /\ Rollback(snap)
  <2>1. mem' = NoSnap /\ UNCHANGED <<op, disk, lost>> BY <1>2 DEF BackupDnsFails
  <2>. QED BY <1>1, <1>2, <2>1, AbortNearer DEF Installing, Abort
<1>3. CASE BackupDns \/ (BackupDnsFails /\ Rollback(BackedUp))
  <2>1. snap' = BackedUp /\ pc' \in {"setdns", "anchors"}
    BY <1>3 DEF BackupDns, Rollback
  <2>2. snap \in Snapshot /\ snap' \in Snapshot /\ plan \in Seq(PlanRec)
    BY <1>1, <2>1 DEF Shape, WorkOK, BusyHasSnap, Working
  <2>3. /\ Len(snap'.dns) = Len(snap.dns) + 1
        /\ snap'.installed = snap.installed /\ snap'.pending = snap.pending
    <3>1. PICK r : snap' = [snap EXCEPT !.dns = Append(@, r)] BY <2>1 DEF BackedUp
    <3>2. /\ snap'.dns = Append(snap.dns, r)
          /\ snap'.installed = snap.installed /\ snap'.pending = snap.pending
      BY <2>2, <3>1 DEF Snapshot
    <3>3. Len(Append(snap.dns, r)) = Len(snap.dns) + 1 BY <2>2 DEF Snapshot
    <3>. QED BY <3>2, <3>3
  <2>4. Undoing(snap') = Undoing(snap) + 3 /\ Undoing(snap) \in Nat
    BY <2>2, <2>3, RecordAdded, UndoingType
  <2>. DEFINE c == Gap(Len(snap.dns), Len(DnsPlan))
  <2>5. c \in Nat /\ c > 0 /\ Gap(Len(snap'.dns), Len(DnsPlan)) = c - 1
    <3>1. Len(snap.dns) \in Nat BY <2>2, UndoingIs
    <3>2. c \in Nat /\ c > 0 /\ Gap(Len(snap.dns) + 1, Len(DnsPlan)) = c - 1
      BY <1>1, <3>1, GapIs, PlanLengths
    <3>. QED BY <2>3, <3>2
  <2>6. Coming(snap, op) = 5 * c /\ Coming(snap', op') = 5 * (c - 1)
    BY <1>1, <2>5 DEF Coming
  <2>. HIDE DEF c
  <2>7. /\ Raising(snap, plan, op) = Undoing(snap) + 4 * Len(plan) + Coming(snap, op)
        /\ Len(plan) \in Nat
        /\ Raising(snap', plan, op') = Undoing(snap') + 4 * Len(plan) + Coming(snap', op')
    BY <2>2, RaisingIs
  <2>8. /\ Raising(snap', plan, op') + 2 < Raising(snap, plan, op) + 1
        /\ Undoing(snap') < Raising(snap, plan, op) + 1
    BY <2>4, <2>5, <2>6, <2>7, Paid, Zenon
  <2>9. CASE BackupDns
    <3>1. pc' = "setdns" /\ plan' = plan BY <2>9 DEF BackupDns
    <3>2. ToGo = Raising(snap, plan, op) + 1 /\ ToGo' = Raising(snap', plan, op') + 2
      BY <1>1, <3>1, Places DEF PlaceByPlace, At
    <3>. QED BY <2>8, <3>2 DEF Nearer
  <2>10. CASE Rollback(BackedUp)
    BY <1>1, <2>1, <2>2, <2>8, <2>10, FailureNearer DEF Installing
  <2>. QED BY <1>3, <2>9, <2>10
<1>4. BackupDnsFails => Rollback(snap) \/ Rollback(BackedUp) BY DEF BackupDnsFails
<1>. QED BY <1>2, <1>3, <1>4

LEMMA WrittenNearer == ASSUME Shape, SaveRoute \/ SetDns PROVE Nearer
<1>1. /\ pc \in {"record", "setdns"} /\ pc' = "apply" /\ UNCHANGED <<snap, plan, op>>
  BY DEF SaveRoute, SetDns
<1>2. Raising(snap, plan, op) \in Nat BY <1>1, Worker, RaisingIs DEF Working
<1>3. ToGo = Raising(snap, plan, op) + 2 /\ ToGo' = Raising(snap, plan, op) + 1
  BY <1>1, Places DEF PlaceByPlace, At
<1>. QED BY <1>2, <1>3 DEF Nearer

LEMMA ApplyNearer == ASSUME Shape, Shape', InHandler, Apply PROVE Nearer
<1>1. CASE InstallRoute \/ RouteFails BY <1>1, InstallNearer, SkipNearer
<1>2. CASE DeferRoute \/ DeferRouteFails BY <1>2, DeferNearer
<1>3. CASE BackupDns \/ BackupDnsFails BY <1>3, BackupNearer
<1>4. CASE SaveRoute \/ SetDns BY <1>4, WrittenNearer
<1>5. CASE SaveRouteFails \/ ConfigureFails \/ SetDnsFails
  BY <1>5, AbortNearer DEF SaveRouteFails, ConfigureFails, SetDnsFails, Installing
<1>6. CASE Prepared \/ MarkUp \/ SaveAnchors \/ SaveAnchorsFails
  BY <1>6, EndNearer DEF Prepared, DeferTurn, MarkUp, DnsTurn, SaveAnchors,
                         SaveAnchorsFails, Idle
<1>7. CASE MarkUpFails
  BY <1>7, EndNearer, AbortNearer DEF MarkUpFails, DnsTurn, Idle, Installing
<1>. QED BY <1>1, <1>2, <1>3, <1>4, <1>5, <1>6, <1>7 DEF Apply

(* A rollback passes a record, or a half of it, with every step; what comes *)
(* after it stays as it was, or goes with the file.                         *)
LEMMA Passed ==
    ASSUME NEW n \in Nat, NEW m \in Nat, NEW c \in Nat, NEW k \in Nat, NEW j \in Nat
    PROVE  /\ n <= c => 2 * n + m + 3 + k < 2 * c + m + 4 + k
           /\ 2 * n + m + 2 + k < 2 * n + m + 3 + k
           /\ n > 0 => 2 * (n - 1) + m + 3 + k < 2 * n + m + 2 + k
           /\ n > 0 => 2 * (n - 1) + m + 3 + k < 2 * n + m + 3 + k
           /\ 1 + k < 2 * n + m + 3 + k /\ m + 2 + k < 2 * n + m + 3 + k
           /\ n > 0 => (n - 1) + 2 + k < n + 2 + k
           /\ j <= k => 1 + j < n + 2 + k
  OBVIOUS

LEMMA AnchorsNearer == ASSUME Shape, UndoAnchors PROVE Nearer
<1>1. pc = "anchors" /\ pc' = "undo" /\ UNCHANGED <<disk, snap, left, op>>
  BY DEF UndoAnchors
<1>2. /\ snap \in Snapshot /\ Len(snap.dns) \in Nat /\ left \in Nat
      /\ Later(op, disk) \in Nat
  BY <1>1, Worker DEF Working
<1>3. left <= Count(snap) BY <1>1 DEF Shape, WorkOK, LeftBounded
<1>4. Count(snap) \in Nat /\ Undoing(snap) = 2 * Count(snap) + Len(snap.dns) + 4
  BY <1>2, UndoingIs
<1>5. /\ ToGo = Undoing(snap) + Later(op, disk)
      /\ ToGo' = 2 * left + Len(snap.dns) + 3 + Later(op, disk)
  BY <1>1, Places DEF PlaceByPlace, At
<1>6. 2 * left + Len(snap.dns) + 3 + Later(op, disk)
      < 2 * Count(snap) + Len(snap.dns) + 4 + Later(op, disk)
  BY <1>2, <1>3, <1>4, Passed, Zenon
<1>7. ToGo' < ToGo BY <1>4, <1>5, <1>6, Zenon
<1>. QED BY <1>7 DEF Nearer

LEMMA RecordNearer ==
    ASSUME Shape, UndoDns \/ DeleteRoute \/ RestoreRoute
    PROVE  Nearer
<1>1. pc \in {"undo", "restore"} /\ UNCHANGED <<disk, snap, op>>
  BY DEF UndoDns, DeleteRoute, RestoreRoute
<1>2. /\ snap \in Snapshot /\ Len(snap.dns) \in Nat /\ left \in Nat
      /\ Later(op, disk) \in Nat
  BY <1>1, Worker DEF Working
<1>3. Len(Routes(snap)) \in Nat BY <1>2, RoutesType
<1>4. CASE pc = "undo" /\ pc' = "restore" /\ left' = left
  <2>1. /\ ToGo = 2 * left + Len(snap.dns) + 3 + Later(op, disk)
        /\ ToGo' = 2 * left + Len(snap.dns) + 2 + Later(op, disk)
    BY <1>1, <1>4, Places DEF PlaceByPlace, At
  <2>2. ToGo' < ToGo BY <1>2, <2>1, Passed, Zenon
  <2>. QED BY <2>2 DEF Nearer
<1>5. CASE pc' = "undo" /\ left > 0 /\ left' = left - 1
  <2>1. ToGo' = 2 * (left - 1) + Len(snap.dns) + 3 + Later(op, disk)
    BY <1>1, <1>5, Places DEF PlaceByPlace, At
  <2>2. \/ ToGo = 2 * left + Len(snap.dns) + 3 + Later(op, disk)
        \/ ToGo = 2 * left + Len(snap.dns) + 2 + Later(op, disk)
    BY <1>1, Places DEF PlaceByPlace, At
  <2>3. ToGo' < ToGo BY <1>2, <1>5, <2>1, <2>2, Passed, Zenon
  <2>. QED BY <2>3 DEF Nearer
<1>6. CASE UndoDns
  BY <1>2, <1>3, <1>5, <1>6 DEF UndoDns
<1>7. CASE DeleteRoute
  BY <1>2, <1>3, <1>4, <1>5, <1>7 DEF DeleteRoute
<1>8. CASE RestoreRoute
  <2>1. left > 0 BY <1>8 DEF RestoreRoute, Shape, WorkOK, LeftBounded
  <2>. QED BY <1>5, <1>8, <2>1 DEF RestoreRoute
<1>. QED BY <1>6, <1>7, <1>8

LEMMA CheckNearer ==
    ASSUME Shape, SkipChecks \/ CheckRoutes \/ CheckDns
    PROVE  Nearer
<1>1. pc \in {"undo", "verify"} /\ UNCHANGED <<disk, snap, op>>
  BY DEF SkipChecks, CheckRoutes, CheckDns
<1>2. /\ snap \in Snapshot /\ Len(snap.dns) \in Nat /\ left \in Nat
      /\ Later(op, disk) \in Nat
  BY <1>1, Worker DEF Working
<1>3. CASE SkipChecks \/ CheckRoutes
  <2>1. pc = "undo" /\ \/ pc' = "done"
                       \/ pc' = "verify" /\ left' = Len(snap.dns)
    BY <1>3 DEF SkipChecks, CheckRoutes
  <2>2. ToGo = 2 * left + Len(snap.dns) + 3 + Later(op, disk)
    BY <2>1, Places DEF PlaceByPlace, At
  <2>3. ToGo' = 1 + Later(op, disk) \/ ToGo' = Len(snap.dns) + 2 + Later(op, disk)
    BY <1>1, <2>1, Places DEF PlaceByPlace, At
  <2>4. ToGo' < ToGo BY <1>2, <2>2, <2>3, Passed, Zenon
  <2>. QED BY <2>4 DEF Nearer
<1>4. CASE CheckDns
  <2>1. pc = "verify" /\ pc' = "verify" /\ left > 0 /\ left' = left - 1
    BY <1>4 DEF CheckDns
  <2>2. ToGo = left + 2 + Later(op, disk) /\ ToGo' = (left - 1) + 2 + Later(op, disk)
    BY <1>1, <2>1, Places DEF PlaceByPlace, At
  <2>3. ToGo' < ToGo BY <1>2, <2>1, <2>2, Passed, Zenon
  <2>. QED BY <2>3 DEF Nearer
<1>. QED BY <1>3, <1>4

LEMMA ClearNearer == ASSUME Shape, Clear PROVE Nearer
<1>1. /\ pc = "verify" /\ pc' = "done" /\ op' = op
      /\ disk' = NoSnap \/ disk' = disk
  BY DEF Clear
<1>2. disk \in Snapshot \cup {NoSnap} /\ left \in Nat /\ Later(op, disk) \in Nat
  BY Worker DEF Shape, StoreOK
<1>3. Later(op', disk') \in Nat /\ Later(op', disk') <= Later(op, disk)
  <2>1. CASE disk' = NoSnap
    <3>1. Booting(NoSnap) = 2 BY DEF Booting
    <3>2. Booting(disk) \in Nat /\ Booting(disk) > 1 BY <1>2, LaterType
    <3>3. disk # NoSnap => Undoing(disk) \in Nat BY <1>2, UndoingType
    <3>. QED BY <1>1, <2>1, <3>1, <3>2, <3>3 DEF Later
  <2>2. CASE disk' = disk BY <1>1, <1>2, <2>2
  <2>. QED BY <1>1, <2>1, <2>2
<1>4. ToGo = left + 2 + Later(op, disk) /\ ToGo' = 1 + Later(op', disk')
  BY <1>1, Places DEF PlaceByPlace, At
<1>5. ToGo' < ToGo BY <1>2, <1>3, <1>4, Passed, Zenon
<1>. QED BY <1>5 DEF Nearer

LEMMA UndoNearer == ASSUME Shape, Shape', Undo PROVE Nearer
<1>1. CASE UndoAnchors BY <1>1, AnchorsNearer
<1>2. CASE UndoDns \/ DeleteRoute \/ RestoreRoute BY <1>2, RecordNearer
<1>3. CASE SkipChecks \/ CheckRoutes \/ CheckDns BY <1>3, CheckNearer
<1>4. CASE Clear BY <1>4, ClearNearer
<1>5. CASE EndSession \/ EndCommit BY <1>5, EndNearer DEF EndSession, EndCommit, Idle
<1>6. CASE EndRestore
  <2>1. pc = "done" /\ op = "restore" BY <1>6 DEF EndRestore
  <2>2. CASE disk = NoSnap BY <1>6, <2>1, <2>2, EndNearer DEF EndRestore, Idle
  <2>3. CASE disk # NoSnap
    <3>1. pc' = "anchors" /\ snap' = disk /\ op' = "force" /\ disk' = disk
      BY <1>6, <2>3 DEF EndRestore, Rollback
    <3>2. Later(op, disk) = Undoing(disk) BY <2>1, <2>3 DEF Later
    <3>3. Later(op', disk') = 0 BY <3>1 DEF Later
    <3>4. Undoing(disk) \in Nat BY <2>3, UndoingType DEF Shape, StoreOK
    <3>5. ToGo = 1 + Later(op, disk) /\ ToGo' = Undoing(snap') + Later(op', disk')
      BY <2>1, <3>1, Places DEF PlaceByPlace, At
    <3>6. ToGo = 1 + Undoing(disk) /\ ToGo' = Undoing(disk) + 0
      BY <3>1, <3>2, <3>3, <3>5, Zenon
    <3>7. ToGo' < ToGo BY <3>4, <3>6
    <3>. QED BY <3>7 DEF Nearer
  <2>. QED BY <2>2, <2>3
<1>7. CASE EndBoot
  <2>1. pc = "done" /\ op = "boot" /\ pc' = "reconcile" BY <1>7 DEF EndBoot
  <2>2. Later(op, disk) = 1 BY <2>1 DEF Later
  <2>3. ToGo = 1 + Later(op, disk) /\ ToGo' = 1 BY <2>1, Places DEF PlaceByPlace, At
  <2>4. ToGo' < ToGo BY <2>2, <2>3
  <2>. QED BY <2>4 DEF Nearer
<1>8. CASE EndTerm
  <2>1. pc = "done" /\ op = "term" /\ pc' = "down" /\ disk' = disk
    BY <1>8 DEF EndTerm, Exit
  <2>2. Later(op, disk) = Booting(disk) BY <2>1 DEF Later
  <2>3. Booting(disk) \in Nat BY Worker
  <2>4. ToGo = 1 + Later(op, disk) /\ ToGo' = Booting(disk')
    BY <2>1, Places DEF PlaceByPlace, At
  <2>5. ToGo' < ToGo BY <2>1, <2>2, <2>3, <2>4
  <2>. QED BY <2>5 DEF Nearer
<1>. QED BY <1>1, <1>2, <1>3, <1>4, <1>5, <1>6, <1>7, <1>8 DEF Undo

LEMMA SameRecords ==
    ASSUME NEW s \in Snapshot, NEW t \in Snapshot, t.installed = s.installed,
           t.pending = s.pending, t.dns = s.dns
    PROVE  Undoing(t) = Undoing(s)
  BY UndoingWeighs, Zenon

LEMMA RecoverNearer == ASSUME Shape, Shape', InRecovery, Recover PROVE Nearer
<1>1. CASE Boot
  <2>1. /\ pc = "down" /\ disk' = disk /\ op' = "boot" /\ snap' = disk
        /\ pc' = "reconcile" \/ (disk # NoSnap /\ pc' \in {"probe", "bootanchors"})
    BY <1>1 DEF Boot
  <2>2. Later(op', disk') = 1 BY <2>1 DEF Later
  <2>3. ToGo = Booting(disk) /\ Booting(disk) \in Nat /\ Booting(disk) > 1
    BY <2>1, Worker, Places DEF PlaceByPlace, At
  <2>4. CASE pc' = "reconcile"
    <3>1. ToGo' = 1 BY <2>4, Places DEF PlaceByPlace, At
    <3>2. ToGo' < ToGo BY <2>3, <3>1
    <3>. QED BY <3>2 DEF Nearer
  <2>5. CASE disk # NoSnap /\ pc' \in {"probe", "bootanchors"}
    <3>1. \/ ToGo' = Undoing(snap') + 3 + Later(op', disk')
          \/ ToGo' = Undoing(snap') + 1 + Later(op', disk')
      BY <2>5, Places DEF PlaceByPlace, At
    <3>2. Undoing(disk) \in Nat BY <2>5, UndoingType DEF Shape, StoreOK
    <3>3. ToGo = Undoing(disk) + 5 BY <2>3, <2>5 DEF Booting
    <3>4. ToGo' = Undoing(disk) + 3 + 1 \/ ToGo' = Undoing(disk) + 1 + 1
      BY <2>1, <2>2, <3>1, Zenon
    <3>5. ToGo' < ToGo BY <3>2, <3>3, <3>4
    <3>. QED BY <3>5 DEF Nearer
  <2>. QED BY <2>1, <2>4, <2>5
<1>2. CASE BootAnchors \/ SaveBootAnchors \/ RollbackStale
  <2>1. /\ pc \in {"bootanchors", "bootsave", "probe"} /\ op' = op
        /\ \/ pc = "bootanchors" /\ pc' = "bootsave"
           \/ pc = "bootsave" /\ pc' = "probe"
           \/ pc = "probe" /\ pc' = "anchors"
    BY <1>2 DEF BootAnchors, SaveBootAnchors, RollbackStale, Rollback
  <2>2. Later(op, disk) = 1 /\ Later(op', disk') = 1 BY <2>1 DEF InRecovery, Later
  <2>3. snap \in Snapshot /\ snap' \in Snapshot
    BY <2>1 DEF Shape, WorkOK, BusyHasSnap, Working
  <2>4. /\ snap'.installed = snap.installed /\ snap'.pending = snap.pending
        /\ snap'.dns = snap.dns
    BY <1>2, <2>3 DEF BootAnchors, SaveBootAnchors, RollbackStale, Rollback, Snapshot
  <2>5. Undoing(snap') = Undoing(snap) /\ Undoing(snap) \in Nat
    BY <2>3, <2>4, SameRecords, UndoingType
  <2>6. \/ ToGo = Undoing(snap) + 3 + 1 /\ ToGo' = Undoing(snap) + 2 + 1
        \/ ToGo = Undoing(snap) + 2 + 1 /\ ToGo' = Undoing(snap) + 1 + 1
        \/ ToGo = Undoing(snap) + 1 + 1 /\ ToGo' = Undoing(snap) + 1
    BY <2>1, <2>2, <2>5, Places, Zenon DEF PlaceByPlace, At
  <2>7. ToGo' < ToGo BY <2>5, <2>6
  <2>. QED BY <2>7 DEF Nearer
<1>3. CASE LeaveRunning \/ Reconcile
  BY <1>3, EndNearer DEF LeaveRunning, Reconcile, Idle
<1>. QED BY <1>1, <1>2, <1>3 DEF Recover

(* Requests are taken where nothing runs, and what the machine does around  *)
(* the helper is no step of its own.                                        *)
LEMMA OutsideNearer == ASSUME Shape, Request \/ Environment PROVE Nearer
<1>1. CASE Request
  <2>1. pc = "idle"
    BY <1>1 DEF Request, TunUp, CommitRoutes, TakeTunFd, TunDown, Restore, Sigterm,
                InstallAnchor, RemoveAnchor
  <2>. QED BY <2>1 DEF Nearer
<1>2. CASE Crash
  <2>1. used \in [Bounded -> Nat] BY DEF Shape, StoreOK
  <2>2. used'["crash"] > used["crash"] BY <1>2, <2>1 DEF Crash, Spend, Bounded
  <2>. QED BY <2>2 DEF Nearer
<1>3. CASE AppExit \/ \E v \in Gateway \cup {NoRoute} : NetworkSwitch(v)
  BY <1>3 DEF AppExit, NetworkSwitch, Nearer
<1>. QED BY <1>1, <1>2, <1>3 DEF Environment

LEMMA RecoveryNext == Shape /\ InRecovery /\ [Next]_vars => InRecovery'
<1>. SUFFICES ASSUME Shape, InRecovery, [Next]_vars PROVE InRecovery' OBVIOUS
<1>. USE DEF InRecovery
<1>1. CASE Request
  BY <1>1 DEF Request, TunUp, CommitRoutes, TakeTunFd, TunDown, Restore, Sigterm,
              InstallAnchor, RemoveAnchor, Rollback, Exit, work
<1>2. CASE Apply
  BY <1>2 DEF Apply, InstallRoute, RouteFails, SaveRoute, SaveRouteFails, ConfigureFails,
              DeferRoute, DeferRouteFails, DeferTurn, Prepared, BackupDns, BackupDnsFails,
              DnsTurn, SetDns, SetDnsFails, MarkUp, MarkUpFails, SaveAnchors,
              SaveAnchorsFails, Idle, Abort, Rollback
<1>3. CASE Undo
  BY <1>3 DEF Undo, UndoAnchors, UndoDns, DeleteRoute, RestoreRoute, SkipChecks,
              CheckRoutes, CheckDns, Clear, EndSession, EndCommit, EndRestore, EndBoot,
              EndTerm, Idle, Rollback, Exit
<1>4. CASE Recover
  BY <1>4 DEF Recover, Boot, BootAnchors, SaveBootAnchors, LeaveRunning, RollbackStale,
              Reconcile, Idle, Rollback
<1>5. CASE Environment \/ UNCHANGED vars
  BY <1>5 DEF Environment, Crash, Exit, AppExit, NetworkSwitch, vars, work
<1>. QED BY <1>1, <1>2, <1>3, <1>4, <1>5 DEF Next

(* No handler, rollback or recovery goes on for ever, whatever fails on its *)
(* way: every step it takes brings it nearer its end, and nothing the       *)
(* machine does around it sets it back; only a kill does, and what the next *)
(* start then does has its own end.                                         *)
THEOREM SessionHandlersEnd == Spec => HandlersRunOut
<1>1. Init => InRecovery BY DEF Init, InRecovery
<1>2. Shape /\ Shape' /\ SessionOK /\ InRecovery /\ [Next]_vars => [Nearer]_vars
  BY ApplyNearer, UndoNearer, RecoverNearer, OutsideNearer DEF Next, SessionOK
<1>3. TunnelOK => SessionOK BY DEF TunnelOK
<1>. QED BY <1>1, <1>2, <1>3, RecoveryNext, TunnelInvariance, PTL DEF Spec, HandlersRunOut

==============================================================================
