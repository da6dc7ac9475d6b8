---------------------------- MODULE CalloutParams ----------------------------
(* Parameters of the callout module, for both of its specifications.       *)
EXTENDS Integers

CONSTANT CallThreadMin   \* call_thread_min: idle threads worth keeping

ASSUME SupplyAssumption == CallThreadMin \in Nat \ {0}
=============================================================================
