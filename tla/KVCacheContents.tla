-------------------------- MODULE KVCacheContents --------------------------
(***************************************************************************)
(* KVCacheAllocator with a history variable for what the physical pages    *)
(* contain, and the refinement mapping that shows that it implements       *)
(* KVCache.  A token is readable when the page the page map gives for it   *)
(* is the one a forward pass of the same request wrote it to, and no other *)
(* request has written there since.                                        *)
(***************************************************************************)
EXTENDS KVCacheAllocator

VARIABLE contents   (* page -> the virtual page written to it last *)

Nothing == <<>>

ContentsInit == Init /\ contents = [p \in Pages |-> Nothing]

(* The virtual pages a forward pass over the lengths lens writes. *)
WrittenPages(lens) ==
  {v \in Reqs \X BlockIds \X Buffers : v[2] < tokens_to_pages(lens[v[1]])}

(* A forward pass writes through the page map as it is when the pass ends. *)
ForwardWrites ==
  contents' =
    [p \in Pages |->
       LET here == {v \in WrittenPages(seq_lens) : pagemap[v[1]][v[2]][v[3]] = p}
       IN  IF here = {} THEN contents[p] ELSE CHOOSE v \in here : TRUE]

(* What a request wrote has no meaning once its slot is released. *)
ReleaseForgets(r) ==
  contents' = [p \in Pages |-> IF contents[p] # Nothing /\ contents[p][1] = r THEN Nothing
                                                                            ELSE contents[p]]

(* Mapping and unmapping a page leaves its contents alone. *)
ContentsNext ==
  \/ ForwardDone /\ ForwardWrites
  \/ \E r \in Reqs : free_batch_idx(r) /\ ReleaseForgets(r)
  \/ /\ Next
     /\ ~ForwardDone
     /\ \A r \in Reqs : ~free_batch_idx(r)
     /\ UNCHANGED contents

ContentsSpec == ContentsInit /\ [][ContentsNext]_<<vars, contents>>

(* Every token that a forward pass of the request has written is still       *)
(* where the page map points.                                                *)
Intact(r) ==
  \A i \in BlockIds, b \in Buffers :
    i < tokens_to_pages(resident[r]) =>
      /\ pagemap[r][i][b] \in Pages
      /\ contents[pagemap[r][i][b]] = <<r, i, b>>

KVStatus ==
  CASE pc[API] \in {"idle", "alloc_scan"}     -> "idle"
    [] pc[API] \in {"cleanup", "cleaned"}     -> "cleaned"
    [] pc[API] \in {"forward", "no_slot", "oom"} -> pc[API]
    [] OTHER                                  -> "step"

(* After cleanup nothing is read any more. *)
Readable ==
  [r \in Reqs |-> IF KVStatus = "cleaned" \/ Intact(r) THEN resident[r] ELSE 0]

Cache ==
  INSTANCE KVCache WITH
    Slots <- Reqs,
    MaxLen <- max_context_length,
    BlockSize <- tokens_per_page,
    NumBlocks <- TotalBlocks,
    len <- seq_lens,
    readable <- Readable,
    status <- KVStatus

(* The allocator with its threads implements KVCache: whatever the manager   *)
(* maps, reclaims and hands to other requests, a step fails only if memory   *)
(* cannot hold all lengths, a request is refused only if all slots are       *)
(* taken, and written keys and values stay readable until the release.       *)
ImplementsKVCache == Cache!Spec
============================================================================
