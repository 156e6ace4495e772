---------------------------- MODULE VirtualLayout ----------------------------
(***************************************************************************)
(* Where the tokens of a batch slot lie in a KV tensor, and where the      *)
(* allocator maps the slot's pages (init_kv_block_size, init_buffer_sizes, *)
(* _alloc_vtensor, get_req_current_map_offset).                            *)
(*                                                                         *)
(* A configuration is fixed at the start.  After that a slot's memory only *)
(* grows by a page at its top or shrinks by one; a page of the slot is     *)
(* mapped at the same offset in the tensors of all components.             *)
(* Sizes are in units that leave the interesting remainders: a byte of the *)
(* model is one element of the cache's data type.                          *)
(***************************************************************************)
EXTENDS Integers

CONSTANTS
  PageSizes,       (* values of page_size                                   *)
  TokenDims,       (* values of a component's token_dim                     *)
  LayerCounts,     (* values of num_layers                                  *)
  ContextLengths,  (* values of max_context_length                          *)
  max_batch_size

ASSUME LayoutAssumption ==
  /\ PageSizes \subseteq Nat \ {0}
  /\ TokenDims \subseteq Nat \ {0}
  /\ LayerCounts \subseteq Nat \ {0}
  /\ ContextLengths \subseteq Nat \ {0}
  /\ max_batch_size \in Nat \ {0}

VARIABLES
  conf,            (* the configuration                                     *)
  mapped_pages     (* pages mapped per slot                                 *)

vars == <<conf, mapped_pages>>

Reqs == 0 .. max_batch_size - 1

(* "exactly 2 cache components": k and v or, with MLA, latent and rope. *)
Components == 1 .. 2

(* Layers whose entries one tensor holds. *)
LayersPerTensor == IF conf.megacache THEN conf.num_layers ELSE 1

(* Mutant: a megacache page is sized for a single layer. *)
page_buffer_token_bytes_OneLayer ==
  IF conf.mla THEN conf.token_dim[1] + conf.token_dim[2] ELSE conf.token_dim[1]

(* Bytes a token takes in the page of a tensor: with MLA, of both components *)
(* together; otherwise of one side, and both sides are the same.             *)
page_buffer_token_bytes ==
  LayersPerTensor *
    (IF conf.mla THEN conf.token_dim[1] + conf.token_dim[2] ELSE conf.token_dim[1])

tokens_per_page == conf.page_size \div page_buffer_token_bytes

tokens_to_pages(num_tokens) ==
  (num_tokens + tokens_per_page - 1) \div tokens_per_page

max_pages_per_req == tokens_to_pages(conf.max_context_length)

virt_buff_size_per_req == max_pages_per_req * conf.page_size

-----------------------------------------------------------------------------
(* _alloc_vtensor: shape [batch, context, (layers,) token_dim], contiguous. *)

TokenBytes(c) == LayersPerTensor * conf.token_dim[c]

RowBytes(c) == conf.max_context_length * TokenBytes(c)

ROUND_UP(x, y) == ((x + y - 1) \div y) * y

Larger(x, y) == IF x >= y THEN x ELSE y

(* Mutant: the floor given by the allocator is ignored. *)
per_request_bytes_NoFloor(c) == ROUND_UP(RowBytes(c), conf.page_size)

per_request_bytes(c) ==
  ROUND_UP(Larger(RowBytes(c), virt_buff_size_per_req), conf.page_size)

size_bytes(c) == per_request_bytes(c) * max_batch_size

(* First byte of a token as the attention kernels index the tensor. *)
TokenAddress(c, r, t) == r * RowBytes(c) + t * TokenBytes(c)

-----------------------------------------------------------------------------
(* Where the i-th page of a slot is mapped, in every tensor. *)
PageOffset(r, i) == r * virt_buff_size_per_req + i * conf.page_size

get_req_current_map_offset(r) == PageOffset(r, mapped_pages[r])

(* Mutant: off by one. *)
is_valid_offset_OffByOne(r) ==
  get_req_current_map_offset(r) <= (r + 1) * virt_buff_size_per_req

is_valid_offset(r) ==
  get_req_current_map_offset(r) < (r + 1) * virt_buff_size_per_req

(* What VAttentionCacheSpec accepts: a page holds at least one token, and    *)
(* the two sides of a dense cache have the same size.                        *)
Valid ==
  /\ page_buffer_token_bytes <= conf.page_size
  /\ ~conf.mla => conf.token_dim[1] = conf.token_dim[2]

Init ==
  /\ conf \in [mla : BOOLEAN, megacache : BOOLEAN, page_size : PageSizes,
               token_dim : [Components -> TokenDims], num_layers : LayerCounts,
               max_context_length : ContextLengths]
  /\ Valid
  /\ mapped_pages = [r \in Reqs |-> 0]

(* One iteration of grow_kvcache_phys. *)
Grow(r) ==
  /\ is_valid_offset(r)
  /\ mapped_pages' = [mapped_pages EXCEPT ![r] = @ + 1]
  /\ UNCHANGED conf

(* unmap_req_page_one. *)
Shrink(r) ==
  /\ mapped_pages[r] > 0
  /\ mapped_pages' = [mapped_pages EXCEPT ![r] = @ - 1]
  /\ UNCHANGED conf

Next == \E r \in Reqs : Grow(r) \/ Shrink(r)

Spec == Init /\ [][Next]_vars

-----------------------------------------------------------------------------
(* Properties. *)

MappedBytes(r) == PageOffset(r, 0) .. PageOffset(r, mapped_pages[r]) - 1

(* "Using raw per-token bytes can under-reserve ... which makes later page   *)
(* mappings walk past the reserved VA range for smaller MLA components": in  *)
(* every configuration, all pages of all slots lie inside the address range  *)
(* reserved for each tensor.                                                 *)
MappingsReserved ==
  \A c \in Components : \A r \in Reqs :
    PageOffset(r, mapped_pages[r]) <= size_bytes(c)

(* Growing one slot never maps a page at an address of another slot. *)
SlotsDisjoint ==
  \A r, s \in Reqs : r # s => MappedBytes(r) \cap MappedBytes(s) = {}

(* Tokens for which the slot has been given pages. *)
BackedTokens(r) ==
  {t \in 0 .. conf.max_context_length - 1 : tokens_to_pages(t + 1) <= mapped_pages[r]}

TokenMapped(c, r, t) ==
  TokenAddress(c, r, t) .. TokenAddress(c, r, t) + TokenBytes(c) - 1 \subseteq MappedBytes(r)

(* Where the rows of a tensor are as far apart as the slots, and for the     *)
(* first slot in any case, a token for which tokens_to_pages has asked       *)
(* enough pages has all its bytes, of every layer, in the slot's own pages.  *)
AlignedTokensMapped ==
  \A c \in Components : \A r \in Reqs :
    r = 0 \/ RowBytes(c) = virt_buff_size_per_req
      => \A t \in BackedTokens(r) : TokenMapped(c, r, t)

(* "request stride is not a multiple of page_size" is an error: the rows of  *)
(* the tensor that the kernels index start where a page can start.           *)
RequestStrideWholePages ==
  \A c \in Components : max_batch_size > 1 => RowBytes(c) % conf.page_size = 0

=============================================================================
