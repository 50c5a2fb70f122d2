---- MODULE MCToolApproval ----
(***************************************************************************)
(* Batches for TLC: no gate, a denied call, a gate after a malformed call, *)
(* a gate between calls that need none, two gates, a gate before a denied  *)
(* call.                                                                   *)
(***************************************************************************)
EXTENDS ToolApproval

MCBatches ==
    { <<"allow">>, <<"unknown", "deny">>, <<"unknown", "approve">>,
      <<"allow", "approve", "allow">>, <<"approve", "approve">>, <<"approve", "deny">> }

MCOneGate == { <<"allow", "approve", "allow">> }
====
