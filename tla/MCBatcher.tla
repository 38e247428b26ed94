----------------------------- MODULE MCBatcher -----------------------------
(***************************************************************************)
(* Four entries, batches of two or three.  Either all entries go to one    *)
(* model on a vLLM backend, or the second goes to another model, on an     *)
(* object of the same name that was registered with another type.          *)
(***************************************************************************)
EXTENDS Batcher

CONSTANTS e1, e2, e3, e4

Route1 == [model |-> "m1", vllm |-> TRUE]
Route2 == [model |-> "m2", vllm |-> FALSE]

OneModel  == [e \in Entry |-> Route1]
TwoModels == [OneModel EXCEPT ![e2] = Route2]

Routings == {OneModel, TwoModels}
Sizes    == {2, 3}
=============================================================================
