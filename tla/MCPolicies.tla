----------------------------- MODULE MCPolicies -----------------------------
(* Instances of Policies for TLC: r1 is slow, r2 is fast. *)
EXTENDS Policies, TLC

TwoReplicas == <<"r1", "r2">>
SlowAndFast == "r1" :> {50} @@ "r2" :> {20}
OneFifth == <<1, 5>>
=============================================================================
