------------------------ MODULE MCLoopAuthorization ------------------------
EXTENDS MCLoopDigests

(* Policies or gates: one instance for both, in which a behaviour submits   *)
(* the digests of one question only and nothing the other needs happens.    *)
CONSTANT Scenarios
VARIABLE scenario

MCInit == Init /\ scenario \in Scenarios

Offered ==
  CASE scenario = "policies" -> PolicyDigests
    [] scenario = "gates" -> GateDigests
    [] OTHER -> Digests

MCNext ==
  /\ Next
  /\ state'.context.digest \in Offered \cup {Null}
  /\ scenario # "all" => state'.nonces \subseteq {NonceKey(d) : d \in Offered}
  /\ scenario = "policies" => registry'.conditions = {}
  /\ scenario = "gates" => /\ Cardinality(registry'.conditions) <= 1  \* bound: one at a time
                           /\ registry'.version = 1
                           /\ \A o \in Owners : state'.policies[o] = <<>>
  /\ UNCHANGED scenario

MCSpec == MCInit /\ [][MCNext]_<<vars, scenario>>
=============================================================================
