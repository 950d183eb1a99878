---------------------------- MODULE TensorBatch ----------------------------
(***************************************************************************)
(* The tensor converters on the way of a batch: the messages of several    *)
(* requests become one tensor per input of the model, and the rows of the  *)
(* model's output tensors become the messages of the answers.  Without a   *)
(* batcher the same converters serve one request.                          *)
(*                                                                         *)
(* "torch", "tf" and "trt" are the converters of the C++ server, "py" the  *)
(* three of the Python server.  An element of a tensor is the place it     *)
(* came from: <<request, tensor, index>>.                                  *)
(*                                                                         *)
(* The specification is named after the converters, for the proofs about   *)
(* it share a module with those about a batcher.                           *)
(***************************************************************************)
EXTENDS Integers, Sequences, FiniteSets, SequencesExt

CONSTANTS
  Impls,        \* the converters looked at
  Places,       \* where the model may stand in the DAG: "first", "later"
  Messages,     \* what a request may send
  MaxRequests,  \* bound on the requests of a batch
  MaxOutputs    \* bound on the outputs of the model

ASSUME ImplsAssumption == Impls \subseteq {"torch", "tf", "trt", "py"}
ASSUME PlacesAssumption == Places \subseteq {"first", "later"}
\* A message is a list of tensors.  A tensor has a shape, <<rows>> \o inner, and
\* a flat list, which is "exact" when it has as many elements as the shape says.
\* Shapes without any dimension and negative dimensions are left out.
Tensor == [name  : STRING,
           dtype : {"float", "int", "unsupported"},
           rows  : Nat,
           inner : Seq(Nat),
           exact : BOOLEAN]

ASSUME MessagesAssumption == Messages \subseteq Seq(Tensor)
ASSUME BoundsAssumption == MaxRequests \in Nat \ {0} /\ MaxOutputs \in Nat \ {0}

VARIABLES
  impl,      \* the converter
  place,     \* where its model stands
  batched,   \* whether the model has a batcher
  requests,  \* the messages of the batch, as far as they have been looked at
  stage,     \* what is done next, or how it ended
  batch,     \* the tensors the model is given
  offsets,   \* how much of each tensor is done
  rows,      \* the user data of each context: the batch size of its request
  output,    \* what the model returns: its tensors, all with as many rows
  replies    \* the messages of the answers

converterVars == <<impl, place, batched, requests, stage, batch, offsets, rows, output, replies>>
-----------------------------------------------------------------------------
Width(t) == FoldLeft(LAMBDA a, b : a * b, 1, t.inner)
Size(t)  == t.rows * Width(t)

\* The flat list of tensor j of request i.
Flat(i, j) == [k \in 1..Size(requests[i][j]) |-> <<i, j, k>>]

Named(m)   == m[1].name # ""
Inputs     == DOMAIN requests[1]
RowsIn(ms) == FoldLeft(LAMBDA n, m : n + m[1].rows, 0, ms)
Total      == RowsIn(requests)
Unwritten  == <<>>
-----------------------------------------------------------------------------
(***************************************************************************)
(* Before the model.                                                       *)
(***************************************************************************)
\* All tensors named, or none.
NamesChecked(m) == m # <<>> /\ \A j \in DOMAIN m : (m[j].name # "") = Named(m)

Supported(m) == \A j \in DOMAIN m : m[j].dtype # "unsupported"

\* The checks on one message of a batch.
RequestChecked(m) ==
  /\ NamesChecked(m) /\ Supported(m)
  /\ \A j \in DOMAIN m : Len(m[j].inner) >= 1 /\ m[j].rows = m[1].rows

\* What a later message must have in common with the first.
Matches(m, first) ==
  /\ Len(m) = Len(first)
  /\ \A j \in DOMAIN m :
       m[j].name = first[j].name /\ m[j].dtype = first[j].dtype /\ m[j].inner = first[j].inner

\* Python converts a message as soon as it is checked, and takes an empty list
\* for missing data.
PyConverts(m) == \A j \in DOMAIN m : m[j].exact /\ Size(m[j]) > 0

ConverterInit ==
  /\ impl \in Impls /\ place \in Places /\ batched \in BOOLEAN
  /\ requests = <<>> /\ stage = "check"
  /\ batch = <<>> /\ offsets = <<>> /\ rows = <<>> /\ output = <<>> /\ replies = <<>>

\* Any error is an exception, and the batcher fails all requests of the batch.
Reject == stage' = "rejected" /\ UNCHANGED <<batch, offsets, rows, output, replies>>

\* One message of a batch.
Check ==
  /\ batched /\ stage = "check" /\ Len(requests) < MaxRequests
  /\ \E m \in Messages :
       /\ requests' = Append(requests, m)
       /\ IF /\ RequestChecked(m)
             /\ requests # <<>> => Matches(m, requests[1])
             /\ impl = "py" => PyConverts(m)
          THEN /\ rows' = IF impl = "py" THEN Append(rows, m[1].rows) ELSE rows
               /\ UNCHANGED <<stage, batch, offsets, output, replies>>
          ELSE Reject
  /\ UNCHANGED <<impl, place, batched>>

\* The batch is complete: C++ allocates its tensors.
Allocate ==
  /\ batched /\ impl # "py" /\ stage = "check" /\ requests # <<>>
  /\ batch' = [j \in Inputs |-> [k \in 1..Total * Width(requests[1][j]) |-> Unwritten]]
  /\ offsets' = [j \in Inputs |-> 0]
  /\ stage' = "copy" /\ UNCHANGED <<impl, place, batched, requests, rows, output, replies>>

\* Mutant: an offset in rows where one in elements is meant.
RowOffset(offset, t) == offset + t.rows

\* Where the next request starts in a tensor of the batch.
NextOffset(offset, t) == offset + Size(t)

\* C++ copies the next request behind the others and notes its batch size.
Copy ==
  /\ stage = "copy" /\ Len(rows) < Len(requests)
  /\ LET i == Len(rows) + 1
         m == requests[i]
     IN  IF \A j \in DOMAIN m : m[j].exact
         THEN /\ batch' = [j \in Inputs |->
                   [k \in DOMAIN batch[j] |->
                      IF k - offsets[j] \in DOMAIN Flat(i, j) THEN Flat(i, j)[k - offsets[j]]
                                                              ELSE batch[j][k]]]
              /\ offsets' = [j \in Inputs |-> NextOffset(offsets[j], m[j])]
              /\ rows' = Append(rows, m[1].rows)
              /\ UNCHANGED <<stage, output, replies>>
         ELSE Reject
  /\ UNCHANGED <<impl, place, batched, requests>>

Copied ==
  /\ stage = "copy" /\ Len(rows) = Len(requests)
  /\ stage' = "infer"
  /\ UNCHANGED <<impl, place, batched, requests, batch, offsets, rows, output, replies>>

\* Tensors in a dictionary, where a later one of the same name replaces an
\* earlier one, and the tensors left in it.
Replaced(m) ==
  {j \in DOMAIN m : m[j].name # "" /\ \E l \in DOMAIN m : l > j /\ m[l].name = m[j].name}
Kept(m) == DOMAIN m \ Replaced(m)

\* Names are compared by the size of the dictionary.
DictChecked(m) == Cardinality(Kept(m)) = Len(m)

\* Python: the tensors of all requests are concatenated; named ones are put in
\* a dictionary.
Concat ==
  /\ batched /\ impl = "py" /\ stage = "check" /\ requests # <<>>
  /\ IF DictChecked(requests[1])
     THEN /\ batch' = [j \in Kept(requests[1]) |->
                         FlattenSeq([i \in DOMAIN requests |-> Flat(i, j)])]
          /\ stage' = "infer" /\ UNCHANGED <<offsets, rows, output, replies>>
     ELSE Reject
  /\ UNCHANGED <<impl, place, batched, requests>>
-----------------------------------------------------------------------------
(***************************************************************************)
(* Without a batcher.                                                      *)
(***************************************************************************)
CppPreProcess(m) ==
  IF NamesChecked(m) /\ Supported(m) /\ \A j \in DOMAIN m : m[j].exact
  THEN batch' = [j \in DOMAIN m |-> [k \in 1..Size(m[j]) |-> <<1, j, k>>]] /\ stage' = "infer"
  ELSE stage' = "rejected" /\ UNCHANGED batch

\* Python finds a name taken when the tensor that has it is true: one with
\* several elements cannot be asked and raises, one with the element zero is not.
PyPreProcess(m) ==
  \/ /\ NamesChecked(m) /\ Supported(m) /\ PyConverts(m)
     /\ \A j \in Replaced(m) : Size(m[j]) = 1
     /\ batch' = [j \in Kept(m) |-> [k \in 1..Size(m[j]) |-> <<1, j, k>>]]
     /\ stage' = "infer"
  \/ /\ ~(NamesChecked(m) /\ Supported(m) /\ PyConverts(m) /\ DictChecked(m))
     /\ stage' = "rejected" /\ UNCHANGED batch

PreProcess ==
  /\ ~batched /\ stage = "check"
  /\ \E m \in Messages :
       /\ requests' = <<m>>
       /\ IF impl = "py" THEN PyPreProcess(m) ELSE CppPreProcess(m)
  /\ UNCHANGED <<impl, place, batched, offsets, rows, output, replies>>

PostProcess ==
  /\ ~batched /\ stage = "split"
  /\ replies' = <<output>> /\ stage' = "done"
  /\ UNCHANGED <<impl, place, batched, requests, batch, offsets, rows, output>>
-----------------------------------------------------------------------------
(***************************************************************************)
(* The model, and what becomes of its output.                              *)
(***************************************************************************)
\* Row r of the tensors the model is given.
Row(r) ==
  [j \in DOMAIN batch |->
     LET w == Width(requests[1][j]) IN [c \in 1..w |-> batch[j][(r - 1) * w + c]]]

\* A model for batches works row by row: an element of its output depends on
\* one row of its input.  It may return rows of its own, or too few.  Its outputs
\* differ in width: output j has j elements in a row.
ModelInfer ==
  /\ stage = "infer"
  /\ \E n \in 1..MaxOutputs, r \in {0, Total - 1, Total, Total + 1} \intersect Nat :
       output' = [rows |-> r, tensors |->
         [j \in 1..n |-> [k \in 1..j * r |->
            IF ~batched THEN <<j, k>>
            ELSE LET row == (k - 1) \div j + 1
                 IN  [of |-> IF row <= Total THEN Row(row) ELSE Unwritten, column |-> (k - 1) % j]]]]
  /\ offsets' = [j \in DOMAIN output'.tensors |-> 0]
  /\ stage' = "split" /\ UNCHANGED <<impl, place, batched, requests, batch, rows, replies>>

\* What a message holds before the answer is added to it.  Behind the first
\* model it is the message the model was given, and the batcher does not clear it.
Before(i) == IF place = "later" /\ impl # "py" THEN [j \in DOMAIN requests[i] |-> Flat(i, j)] ELSE <<>>

\* Mutant: the answer is made of rows where elements are meant.
SizeInRows(tensor, n) == n

\* Mutant: every request gets an equal share.
EqualShare(tensor, n) == Len(tensor) \div Len(requests)

\* The elements of n rows of an output.
SliceSize(tensor, n) == (Len(tensor) \div output.rows) * n

\* C++ cuts the next answer out of the outputs.  The output of a model that
\* returns no rows is divided by zero.  Past its end libtorch throws, and the
\* others read on.
Split ==
  /\ batched /\ impl # "py" /\ stage = "split" /\ Len(replies) < Len(requests)
  /\ IF output.rows = 0
     THEN stage' = "undefined" /\ UNCHANGED <<replies, offsets>>
     ELSE LET i    == Len(replies) + 1
              ends == [j \in DOMAIN output.tensors |->
                         offsets[j] + SliceSize(output.tensors[j], rows[i])]
          IN  IF \A j \in DOMAIN ends : ends[j] <= Len(output.tensors[j])
              THEN /\ replies' = Append(replies, Before(i) \o
                        [j \in DOMAIN ends |-> SubSeq(output.tensors[j], offsets[j] + 1, ends[j])])
                   /\ offsets' = ends /\ UNCHANGED stage
              ELSE /\ stage' = IF impl = "torch" THEN "rejected" ELSE "undefined"
                   /\ UNCHANGED <<replies, offsets>>
  /\ UNCHANGED <<impl, place, batched, requests, batch, rows, output>>

\* Python slices rows, and a slice may be shorter than was asked for.
SplitRows ==
  /\ batched /\ impl = "py" /\ stage = "split" /\ Len(replies) < Len(requests)
  /\ LET i == Len(replies) + 1
         \* j elements in a row of output j
         Upto(j) == IF output.rows < offsets[j] + rows[i] THEN output.rows ELSE offsets[j] + rows[i]
     IN  /\ replies' = Append(replies, [j \in DOMAIN output.tensors |->
                          SubSeq(output.tensors[j], offsets[j] * j + 1, Upto(j) * j)])
         /\ offsets' = [j \in DOMAIN offsets |-> offsets[j] + rows[i]]
  /\ UNCHANGED <<impl, place, batched, requests, stage, batch, rows, output>>

Answered ==
  /\ batched /\ stage = "split" /\ Len(replies) = Len(requests)
  /\ stage' = "done"
  /\ UNCHANGED <<impl, place, batched, requests, batch, offsets, rows, output, replies>>

ConverterNext ==
  \/ Check \/ Allocate \/ Copy \/ Copied \/ Concat \/ PreProcess
  \/ ModelInfer \/ Split \/ SplitRows \/ Answered \/ PostProcess

ConverterSpec == ConverterInit /\ [][ConverterNext]_converterVars
-----------------------------------------------------------------------------
(***************************************************************************)
(* Properties.                                                             *)
(***************************************************************************)
\* The tensors a reply got from the model.
Own(i) ==
  LET n == Len(output.tensors) IN SubSeq(replies[i], Len(replies[i]) - n + 1, Len(replies[i]))

\* Each request gets the rows of the outputs that belong to the rows it sent,
\* all of them, in their order, whatever the others of the batch sent: what the
\* offsets of the copies before and after the model are for.
OwnRows ==
  stage = "done" /\ batched /\ output.rows >= Total =>
    \A i \in DOMAIN requests : \A j \in DOMAIN output.tensors :
      Own(i)[j] = [k \in 1..j * requests[i][1].rows |->
        [of |-> [l \in DOMAIN requests[i] |->
                   LET w == Width(requests[i][l])
                   IN  [c \in 1..w |-> <<i, l, ((k - 1) \div j) * w + c>>]],
         column |-> (k - 1) % j]]

\* What the model is given holds every element of every request once, in the
\* order of the requests, and all of one type and inner shape; only a Python
\* server without a batcher may lose a tensor to another of the same name, and
\* then one with a single element.
BatchWhole ==
  stage = "infer" =>
    IF batched
    THEN batch = [j \in Inputs |-> FlattenSeq([i \in DOMAIN requests |-> Flat(i, j)])]
         /\ \A j \in Inputs, i \in DOMAIN requests :
              requests[i][j].dtype = requests[1][j].dtype /\ requests[i][j].inner = requests[1][j].inner
    ELSE \/ batch = [j \in Inputs |-> Flat(1, j)]
         \/ impl = "py" /\ \A j \in Inputs : Flat(1, j) \in Range(batch) \/ Size(requests[1][j]) = 1

\* Behaviour is only undefined for a model that returns no rows, or too few with
\* TensorFlow and TensorRT; and too few rows are only answered by Python.
RowsMissing ==
  /\ stage = "undefined" => output.rows = 0 \/ (impl # "torch" /\ output.rows < Total)
  /\ stage = "done" /\ batched /\ output.rows < Total => impl = "py"

\* An answer holds the tensors of the model and nothing else.
OnlyOwnTensors == stage = "done" /\ batched => \A i \in DOMAIN replies : replies[i] = Own(i)
=============================================================================
