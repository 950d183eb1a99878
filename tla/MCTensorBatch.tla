--------------------------- MODULE MCTensorBatch ---------------------------
(***************************************************************************)
(* Model checking of TensorBatch over plain messages of up to two tensors, *)
(* and those that differ from one in a few fields.                         *)
(***************************************************************************)
EXTENDS TensorBatch

CONSTANTS
  MaxRows,  \* bound on the rows of a request
  MaxOdd    \* bound on the fields that differ from a plain message

Fields == [
  name  |-> {"", "a", "b"},
  dtype |-> {"float", "int", "unsupported"},
  rows  |-> 0..MaxRows,
  inner |-> {<<>>, <<1>>, <<2>>, <<1, 1>>},
  exact |-> BOOLEAN]

Plain(n, named, r, w) ==
  [j \in 1..n |-> [name |-> IF ~named THEN "" ELSE IF j = 1 THEN "a" ELSE "b",
                   dtype |-> "float", rows |-> r, inner |-> <<w>>, exact |-> TRUE]]

Changed(m) ==
  UNION {UNION {{[m EXCEPT ![j][f] = v] : v \in Fields[f]} : f \in DOMAIN Fields} : j \in DOMAIN m}

OddMessages ==
  LET M[n \in 0..MaxOdd] ==
        IF n = 0 THEN {Plain(k, named, r, w) : k \in 0..2, named \in BOOLEAN, r \in 0..MaxRows, w \in 1..2}
        ELSE M[n - 1] \union UNION {Changed(m) : m \in M[n - 1]}
  IN  M[MaxOdd]
=============================================================================
