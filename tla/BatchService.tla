--------------------------- MODULE BatchService ---------------------------
(***************************************************************************)
(* What a dynamic batcher promises to its callers: calls are accepted in   *)
(* some order, batches are cut from the front of that order and hold at    *)
(* most MaxBatch calls, each accepted call is answered once, through the   *)
(* batch it is in, and only a stopped batcher may abandon calls.           *)
(***************************************************************************)
EXTENDS Naturals, Sequences, FiniteSets, SequencesExt

CONSTANTS Requests, MaxBatch

VARIABLES
  call,     \* "idle", "pending" or "answered", for each request
  pending,  \* accepted calls that are in no batch yet, oldest first
  open,     \* calls of the batches under way that are not answered yet
  stopped

vars == <<call, pending, open, stopped>>

Init ==
  /\ call = [r \in Requests |-> "idle"]
  /\ pending = <<>>
  /\ open = {}
  /\ stopped = FALSE

\* A call enters at the back.
Accept(r) ==
  /\ call[r] = "idle"
  /\ call' = [call EXCEPT ![r] = "pending"]
  /\ pending' = Append(pending, r)
  /\ UNCHANGED <<open, stopped>>

First(n) == SubSeq(pending, 1, n)
Rest(n)  == SubSeq(pending, n + 1, Len(pending))

\* A batch of n calls is cut from the front.
Form(n) ==
  /\ n \in 1 .. MaxBatch
  /\ n <= Len(pending)
  /\ open' = open \cup ToSet(First(n))
  /\ pending' = Rest(n)
  /\ UNCHANGED <<call, stopped>>

Answer(r) ==
  /\ r \in open
  /\ open' = open \ {r}
  /\ call' = [call EXCEPT ![r] = "answered"]
  /\ UNCHANGED <<pending, stopped>>

Leave(r) ==
  /\ call[r] = "answered"
  /\ call' = [call EXCEPT ![r] = "idle"]
  /\ UNCHANGED <<pending, open, stopped>>

Stop ==
  /\ stopped' = TRUE
  /\ UNCHANGED <<call, pending, open>>

\* Once stopped, the n oldest calls may never be batched.
Abandon(n) ==
  /\ stopped
  /\ n \in 1 .. Len(pending)
  /\ pending' = Rest(n)
  /\ UNCHANGED <<call, open, stopped>>

Next ==
  \/ \E r \in Requests : Accept(r) \/ Answer(r) \/ Leave(r)
  \/ \E n \in 1 .. Len(pending) : Form(n) \/ Abandon(n)
  \/ Stop

Spec == Init /\ [][Next]_vars
=============================================================================
