---------------------------- MODULE MCConnectFlow ----------------------------
(***************************************************************************)
(* Bounds for TLC: which kinds of trouble a run allows, and how often.     *)
(***************************************************************************)
EXTENDS ConnectFlow

MCMax(step, undo, slow, die, exit, repair) ==
    [step |-> step, undo |-> undo, late |-> slow, die |-> die, exit |-> exit,
     repair |-> repair]

MaxSafety == MCMax(1, 1, 2, 1, 1, 1)
MaxStop   == MCMax(0, 1, 0, 0, 0, 0)
MaxOrphan == MCMax(0, 0, 0, 1, 1, 0)
==============================================================================
