------------------------------ MODULE KVCache ------------------------------
(***************************************************************************)
(* What the KV cache of a worker promises to the engine above it, without  *)
(* pages, pool or threads: slots with a length, tokens that stay readable  *)
(* in a slot from the forward pass that wrote them until the slot is       *)
(* released, and steps that are accepted exactly when the lengths of all   *)
(* slots together fit into memory.                                         *)
(***************************************************************************)
EXTENDS Integers, FiniteSets

CONSTANTS
  Slots,       (* batch slots                              *)
  MaxLen,      (* longest sequence                         *)
  BlockSize,   (* tokens per block                         *)
  NumBlocks    (* blocks of physical memory                *)

VARIABLES
  len,         (* slot -> length of its sequence; 0: free  *)
  readable,    (* slot -> tokens a forward pass can read   *)
  status       (* where the engine is with the cache       *)

cache == <<len, readable, status>>

(* Blocks that sequences of these lengths need: block i of a slot is needed  *)
(* if it has a token, and no sequence has more blocks than tokens.           *)
Blocks(lens) ==
  Cardinality({v \in Slots \X (0 .. MaxLen) : v[2] < (lens[v[1]] + BlockSize - 1) \div BlockSize})

Init ==
  /\ len = [r \in Slots |-> 0]
  /\ readable = [r \in Slots |-> 0]
  /\ status = "idle"

(* Some free slot, for a new sequence of n tokens. *)
Admit(r, n) ==
  /\ status = "idle"
  /\ len[r] = 0
  /\ len' = [len EXCEPT ![r] = n]
  /\ UNCHANGED <<readable, status>>

(* A new sequence is refused only if no slot is free. *)
Refuse ==
  /\ status = "idle"
  /\ \A r \in Slots : len[r] # 0
  /\ status' = "no_slot"
  /\ UNCHANGED <<len, readable>>

Release(r) ==
  /\ status = "idle"
  /\ len' = [len EXCEPT ![r] = 0]
  /\ readable' = [readable EXCEPT ![r] = 0]
  /\ UNCHANGED status

(* The engine asks for memory up to new lengths. *)
Submit ==
  /\ status = "idle"
  /\ len' \in [Slots -> 0 .. MaxLen]
  /\ \A r \in Slots : len'[r] >= len[r] /\ (len[r] = 0 => len'[r] = 0)
  /\ status' = "step"
  /\ UNCHANGED readable

Accept ==
  /\ status = "step"
  /\ Blocks(len) <= NumBlocks
  /\ status' = "forward"
  /\ UNCHANGED <<len, readable>>

Reject ==
  /\ status = "step"
  /\ Blocks(len) > NumBlocks
  /\ status' = "oom"
  /\ UNCHANGED <<len, readable>>

(* The forward pass has written every token. *)
Written ==
  /\ status = "forward"
  /\ readable' = len
  /\ status' = "idle"
  /\ UNCHANGED len

Teardown ==
  /\ status = "idle"
  /\ status' = "cleaned"
  /\ UNCHANGED <<len, readable>>

Next ==
  \/ \E r \in Slots, n \in 1 .. MaxLen : Admit(r, n)
  \/ Refuse
  \/ \E r \in Slots : Release(r)
  \/ Submit
  \/ Accept
  \/ Reject
  \/ Written
  \/ Teardown

Spec == Init /\ [][Next]_cache
============================================================================
