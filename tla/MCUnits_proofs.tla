---------------------------- MODULE MCUnits_proofs ----------------------------
(***************************************************************************)
(* The run over the parts of the App is one over each of them: whatever    *)
(* the constants, a part in it does nothing that its own specification     *)
(* does not allow, so what is proved of the part holds of the run, the     *)
(* types of all its variables first.                                       *)
(***************************************************************************)
EXTENDS MCUnits, Intent_proofs, NodeBook_proofs, Rules_proofs

(* The plan is the exception: idle, it has no table (IdlePlan), which no   *)
(* state of PlanSpec is without.                                           *)
PlanPart ==
    /\ part = "plan" => PlanInv /\ AskedInv
    /\ part # "plan" => IdlePlan

LEMMA PartsStart ==
    Init => EngineInit /\ TableInit /\ AuditInit /\ MitmInit /\ BookInit /\ PlanPart
<1>1. SUFFICES ASSUME Init
               PROVE  EngineInit /\ TableInit /\ AuditInit /\ MitmInit /\ BookInit /\ PlanPart
  OBVIOUS
<1>2. EngineInit /\ TableInit /\ AuditInit /\ MitmInit /\ BookInit
  BY <1>1 DEF Init, IdleEngine, IdleTable, IdleAudit, IdleMitm
<1>3. part = "plan" => PlanInit BY <1>1 DEF Init
<1>4. part # "plan" => IdlePlan BY <1>1 DEF Init
<1>. QED BY <1>2, <1>3, <1>4, PlanStarts, AskedStarts DEF PlanPart

LEMMA PartsStep ==
    [Next]_allVars =>
      /\ [EngineNext]_engineVars /\ [TableNext]_tableVars /\ [AuditNext]_auditVars
      /\ [MitmNext]_mitmVars /\ [BookNext]_bookVars
      /\ \/ part = "plan" /\ part' = part /\ [PlanNext]_planVars
         \/ part' = part /\ UNCHANGED planVars
  BY DEF Next, allVars

LEMMA PlanPartStep == PlanPart /\ [Next]_allVars => PlanPart'
<1>1. SUFFICES ASSUME PlanPart, [Next]_allVars PROVE PlanPart'
  OBVIOUS
<1>2. part' = part /\ ((part = "plan" /\ [PlanNext]_planVars) \/ UNCHANGED planVars)
  BY <1>1, PartsStep
<1>3. CASE part = "plan"
  <2>1. PlanInv /\ AskedInv /\ [PlanNext]_planVars BY <1>1, <1>2, <1>3 DEF PlanPart
  <2>2. seen \in Uplink BY <2>1 DEF PlanInv
  <2>. QED BY <1>2, <1>3, <2>1, <2>2, PlanStep, AskedStep DEF PlanPart
<1>4. CASE part # "plan"
  <2>1. IdlePlan /\ UNCHANGED planVars BY <1>1, <1>2, <1>4 DEF PlanPart
  <2>2. IdlePlan' BY <2>1 DEF planVars, IdlePlan
  <2>. QED BY <1>2, <1>4, <2>2 DEF PlanPart
<1>. QED BY <1>3, <1>4

(* Each part of the App behaves in the run as its own specification says.  *)
THEOREM EachPartIsItself == Spec => EngineSpec /\ TableSpec /\ AuditSpec /\ MitmSpec /\ BookSpec
<1>. QED BY PartsStart, PartsStep, PTL
         DEF Spec, EngineSpec, TableSpec, AuditSpec, MitmSpec, BookSpec

(* The variables of every part stay in their ranges, for any hosts, rules, *)
(* days, roots, nodes and networks: the cache keeps to its size, no host   *)
(* is queued twice, no list sent to the core contradicts itself, no object *)
(* and no id is there twice, what is trusted was made here, what is routed *)
(* is an address.                                                          *)
THEOREM UnitsTypeCorrect ==
    ASSUME IsFiniteSet(Link), Here \in Uplink
    PROVE  Spec => []TypeOK
<1>1. Spec => []PlanPart
  <2>1. Init => PlanPart BY PartsStart
  <2>. QED BY <2>1, PlanPartStep, PTL DEF Spec
<1>2. PlanPart => PlanTypeOK
  <2>1. SUFFICES ASSUME PlanPart PROVE PlanTypeOK OBVIOUS
  <2>2. CASE part = "plan" BY <2>1, <2>2, PlanTypes DEF PlanPart
  <2>3. CASE part # "plan"
    <3>1. IdlePlan BY <2>1, <2>3 DEF PlanPart
    <3>2. AskedInv BY <3>1 DEF IdlePlan, AskedInv, NothingAsked, Request, Ipv6Mode
    <3>3. request.hosts = <<>> BY <3>1 DEF IdlePlan, Request, Hosts
    <3>4. Range(request.hosts) \subseteq Address BY <3>3 DEF Range
    <3>. QED BY <3>1, <3>2, <3>4 DEF IdlePlan, AskedInv, PlanTypeOK
  <2>. QED BY <2>2, <2>3
<1>. QED BY <1>1, <1>2, EachPartIsItself, EngineTypeCorrect, TableTypeCorrect,
            AuditTypeCorrect, MitmTypeCorrect, BookTypeCorrect, PTL DEF TypeOK

==============================================================================
