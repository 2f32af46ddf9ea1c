------------------------------ MODULE MCStorage ------------------------------
(***************************************************************************)
(* An instance of Storage: two names that share a temporary file, a third  *)
(* one, weights and a projector, two concurrent requests.                  *)
(***************************************************************************)
EXTENDS Storage, TLC

v == [stem |-> "v", ext |-> ""]
TwoTagsAndATemporary == {v, [stem |-> "v", ext |-> "tmp"], [stem |-> "w", ext |-> ""]}

Hub(role, d) == [role |-> role, sends |-> d, digest |-> None]
Private(role, d) == [role |-> role, sends |-> d, digest |-> d]
Corrupt(role, d, other) == [role |-> role, sends |-> other, digest |-> d]

HubAndPrivatePlans ==
  {<<Private("mmproj", "p"), Hub("model", "m")>>,
   <<Corrupt("draft", "p", "m")>>}

JobSymmetry == Permutations(Jobs)

WeightsWithProjector == {[model |-> "m", mmproj |-> "p"]}
=============================================================================
