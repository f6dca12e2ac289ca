-------------------------- MODULE MCPrivacyBridge --------------------------
(* Requests in order and with one flaw; worlds in order and with one flaw;   *)
(* receipts in order, with one flaw, of another output or another decision.  *)
EXTENDS PrivacyBridge

CONSTANTS d1, d2, o1, long

MCDecisions == {d1, d2}
MCOutputs == {o1, long}
MCReceipts ==
  {[wrong |-> w, decision |-> d, digestOf |-> o] :
     w \in {{}, {"invalid_receipt"}, {"egress_policy_mismatch"}}, d \in MCDecisions, o \in MCOutputs}
MCRequests ==
  {[decision |-> d, flaw |-> "none"] : d \in MCDecisions} \cup {[decision |-> d1, flaw |-> f] : f \in Flaws}
MCLong(o) == o = long

Good == [bindings |-> TRUE, registered |-> TRUE, requires |-> Capabilities, secure |-> TRUE,
         gpu |-> "present", wasm |-> "valid"]
MCWorlds ==
  {Good, [Good EXCEPT !.bindings = FALSE], [Good EXCEPT !.registered = FALSE],
   [Good EXCEPT !.secure = FALSE], [Good EXCEPT !.wasm = "invalid"],
   [Good EXCEPT !.gpu = "broken"], [Good EXCEPT !.gpu = "absent"],
   [Good EXCEPT !.requires = {}, !.gpu = "absent", !.wasm = "absent", !.secure = FALSE]}
=============================================================================
