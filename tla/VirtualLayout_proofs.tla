------------------------- MODULE VirtualLayout_proofs -------------------------
(***************************************************************************)
(* The address arithmetic of the virtual tensors, for every page size,     *)
(* token size, number of layers, context length and batch size.            *)
(***************************************************************************)
EXTENDS VirtualLayout, TLAPS

-----------------------------------------------------------------------------
(* Products and quotients.  Everything below follows from these facts by     *)
(* linear arithmetic.                                                        *)

LEMMA MulType == ASSUME NEW a \in Nat, NEW b \in Nat  PROVE a * b \in Nat
  OBVIOUS

LEMMA MulMono ==
  ASSUME NEW a \in Nat, NEW b \in Nat, a <= b, NEW c \in Nat
  PROVE  a * c <= b * c /\ c * a <= c * b
  OBVIOUS

LEMMA MulCancel ==
  ASSUME NEW a \in Nat, NEW b \in Nat, NEW c \in Nat \ {0}, a * c < b * c
  PROVE  a < b
  OBVIOUS

LEMMA MulAdd ==
  ASSUME NEW a \in Nat, NEW c \in Nat
  PROVE  (a + 1) * c = a * c + c
  OBVIOUS

LEMMA DivFloor ==
  ASSUME NEW n \in Nat, NEW d \in Nat \ {0}
  PROVE  n \div d \in Nat /\ (n \div d) * d <= n
  OBVIOUS

LEMMA DivPositive ==
  ASSUME NEW n \in Nat, NEW d \in Nat \ {0}, d <= n
  PROVE  n \div d \in Nat \ {0}
  OBVIOUS

LEMMA DivCeil ==
  ASSUME NEW n \in Nat, NEW d \in Nat \ {0}
  PROVE  (n + d - 1) \div d \in Nat /\ n <= ((n + d - 1) \div d) * d
  OBVIOUS

-----------------------------------------------------------------------------
(* The configuration that init_kvcache_component_spec was given, as          *)
(* VAttentionCacheSpec accepts it.                                           *)
ConfInv ==
  /\ conf \in [mla : BOOLEAN, megacache : BOOLEAN, page_size : PageSizes,
               token_dim : [Components -> TokenDims], num_layers : LayerCounts,
               max_context_length : ContextLengths]
  /\ Valid

(* The configuration stays, and is_valid_offset keeps the number of pages of *)
(* a slot within max_pages_per_req.                                          *)
LayoutInv ==
  /\ ConfInv
  /\ mapped_pages \in [Reqs -> 0 .. max_pages_per_req]

(* The sizes computed from a configuration. *)
LEMMA SizeTypes ==
  ASSUME ConfInv
  PROVE  /\ conf.page_size \in Nat \ {0} /\ conf.max_context_length \in Nat \ {0}
         /\ LayersPerTensor \in Nat \ {0}
         /\ \A c \in Components : conf.token_dim[c] \in Nat \ {0}
         /\ page_buffer_token_bytes \in Nat \ {0}
         /\ tokens_per_page \in Nat \ {0}
         /\ max_pages_per_req \in Nat
         /\ virt_buff_size_per_req \in Nat
         /\ \A c \in Components : TokenBytes(c) \in Nat \ {0} /\ RowBytes(c) \in Nat
  <1>1. conf.page_size \in Nat \ {0} /\ conf.max_context_length \in Nat \ {0}
        /\ conf.num_layers \in Nat \ {0}
        /\ \A c \in Components : conf.token_dim[c] \in Nat \ {0}
    BY LayoutAssumption DEF ConfInv
  <1>2. LayersPerTensor \in Nat \ {0}
    BY <1>1 DEF LayersPerTensor
  <1>3. 1 \in Components /\ 2 \in Components
    BY DEF Components
  <1>4. page_buffer_token_bytes \in Nat \ {0}
    <2>1. \A a, b \in Nat \ {0} : a * b \in Nat \ {0}
      OBVIOUS
    <2>2. QED  BY <1>1, <1>2, <1>3, <2>1 DEF page_buffer_token_bytes
  <1>5. tokens_per_page \in Nat \ {0}
    BY <1>1, <1>4, DivPositive DEF tokens_per_page, ConfInv, Valid
  <1>6. max_pages_per_req \in Nat
    BY <1>1, <1>5, DivCeil DEF max_pages_per_req, tokens_to_pages
  <1>7. virt_buff_size_per_req \in Nat
    BY <1>1, <1>6, MulType DEF virt_buff_size_per_req
  <1>8. \A c \in Components : TokenBytes(c) \in Nat \ {0}
    BY <1>1, <1>2 DEF TokenBytes
  <1>9. \A c \in Components : RowBytes(c) \in Nat
    BY <1>1, <1>8, MulType DEF RowBytes
  <1>10. QED  BY <1>1, <1>2, <1>4, <1>5, <1>6, <1>7, <1>8, <1>9

(* A slot's pages end where the next slot's begin, or before. *)
LEMMA SlotEnd ==
  ASSUME LayoutInv, NEW r \in Reqs
  PROVE  /\ PageOffset(r, 0) = r * virt_buff_size_per_req
         /\ PageOffset(r, mapped_pages[r]) \in Nat
         /\ PageOffset(r, mapped_pages[r]) =
              r * virt_buff_size_per_req + mapped_pages[r] * conf.page_size
         /\ PageOffset(r, mapped_pages[r]) <= (r + 1) * virt_buff_size_per_req
         /\ r * virt_buff_size_per_req \in Nat
  <1> DEFINE V == virt_buff_size_per_req
             m == mapped_pages[r]
             P == conf.page_size
  <1>1. r \in Nat /\ V \in Nat /\ P \in Nat /\ max_pages_per_req \in Nat /\ m \in Nat /\ m <= max_pages_per_req
    BY SizeTypes, LayoutAssumption DEF Reqs, LayoutInv
  <1>2. m * P <= max_pages_per_req * P
    BY <1>1, MulMono
  <1>3. m * P <= V
    BY <1>2 DEF virt_buff_size_per_req
  <1>4. r * V \in Nat /\ m * P \in Nat /\ (r + 1) * V = r * V + V
    BY <1>1, MulType, MulAdd
  <1>5. PageOffset(r, m) = r * V + m * P
    BY DEF PageOffset
  <1>6. PageOffset(r, 0) = r * V
    BY <1>1, <1>4 DEF PageOffset
  <1>7. QED  BY <1>1, <1>3, <1>4, <1>5, <1>6

LEMMA LayoutInvariant == Spec => []LayoutInv
  <1>1. Init => LayoutInv
    <2> SUFFICES ASSUME Init  PROVE LayoutInv
      OBVIOUS
    <2>1. ConfInv
      BY DEF Init, ConfInv
    <2>2. QED  BY <2>1, SizeTypes DEF Init, LayoutInv
  <1>2. LayoutInv /\ [Next]_vars => LayoutInv'
    <2> SUFFICES ASSUME LayoutInv, [Next]_vars  PROVE LayoutInv'
      OBVIOUS
    <2>0. UNCHANGED conf
      BY DEF Next, Grow, Shrink, vars
    <2>1. Valid' /\ max_pages_per_req' = max_pages_per_req
      BY <2>0 DEF LayoutInv, ConfInv, Valid, max_pages_per_req, tokens_to_pages, tokens_per_page,
                  page_buffer_token_bytes, LayersPerTensor
    <2>2. ASSUME NEW r \in Reqs, Grow(r)  PROVE mapped_pages' \in [Reqs -> 0 .. max_pages_per_req]
      <3> DEFINE V == virt_buff_size_per_req
                 m == mapped_pages[r]
                 P == conf.page_size
      <3>1. /\ r \in Nat /\ V \in Nat /\ P \in Nat \ {0} /\ max_pages_per_req \in Nat
            /\ m \in Nat /\ m <= max_pages_per_req
        BY SizeTypes, LayoutAssumption DEF Reqs, LayoutInv
      <3>2. r * V + m * P < (r + 1) * V
        BY <2>2 DEF Grow, is_valid_offset, get_req_current_map_offset, PageOffset
      <3>3. m * P < max_pages_per_req * P
        BY <3>1, <3>2, MulType, MulAdd DEF virt_buff_size_per_req
      <3>4. m < max_pages_per_req
        BY <3>1, <3>3, MulCancel
      <3>5. QED  BY <2>2, <3>1, <3>4 DEF Grow, LayoutInv
    <2>3. ASSUME NEW r \in Reqs, Shrink(r)  PROVE mapped_pages' \in [Reqs -> 0 .. max_pages_per_req]
      BY <2>3, SizeTypes DEF Shrink, LayoutInv
    <2>4. mapped_pages' \in [Reqs -> 0 .. max_pages_per_req]
      BY <2>2, <2>3 DEF Next, vars, LayoutInv
    <2>5. QED  BY <2>0, <2>1, <2>4 DEF LayoutInv, ConfInv
  <1>3. QED  BY <1>1, <1>2, PTL DEF Spec

-----------------------------------------------------------------------------
(* Rounding up never loses bytes. *)
LEMMA RoundUp ==
  ASSUME NEW x \in Nat, NEW y \in Nat \ {0}
  PROVE  ROUND_UP(x, y) \in Nat /\ x <= ROUND_UP(x, y)
  BY DivCeil, MulType DEF ROUND_UP

(* In every configuration, every page of every slot lies inside the address  *)
(* range that _alloc_vtensor reserves for each of the tensors, also for the  *)
(* smaller component of an MLA cache.                                        *)
THEOREM MappingsReservedHolds == Spec => []MappingsReserved
  <1>1. LayoutInv => MappingsReserved
    <2> SUFFICES ASSUME LayoutInv, NEW c \in Components, NEW r \in Reqs
                 PROVE  PageOffset(r, mapped_pages[r]) <= size_bytes(c)
      BY DEF MappingsReserved
    <2> DEFINE V == virt_buff_size_per_req
               B == per_request_bytes(c)
    <2>1. V \in Nat /\ RowBytes(c) \in Nat /\ conf.page_size \in Nat \ {0}
      BY SizeTypes DEF LayoutInv
    <2>2. Larger(RowBytes(c), V) \in Nat /\ V <= Larger(RowBytes(c), V)
      BY <2>1 DEF Larger
    <2>3. B \in Nat /\ Larger(RowBytes(c), V) <= B
      BY <2>1, <2>2, RoundUp DEF per_request_bytes
    <2>4. V <= B
      BY <2>1, <2>2, <2>3
    <2>5. r + 1 \in Nat /\ max_batch_size \in Nat /\ r + 1 <= max_batch_size
      BY LayoutAssumption DEF Reqs
    <2>6. (r + 1) * V <= (r + 1) * B /\ (r + 1) * B <= max_batch_size * B
      BY <2>1, <2>3, <2>4, <2>5, MulMono
    <2>7. max_batch_size * B = size_bytes(c)
      BY <2>3, <2>5 DEF size_bytes
    <2>8. (r + 1) * V \in Nat /\ (r + 1) * B \in Nat /\ max_batch_size * B \in Nat
      BY <2>1, <2>3, <2>5, MulType
    <2>9. PageOffset(r, mapped_pages[r]) \in Nat /\ PageOffset(r, mapped_pages[r]) <= (r + 1) * V
      BY SlotEnd
    <2>10. QED  BY <2>6, <2>7, <2>8, <2>9
  <1>2. QED  BY <1>1, LayoutInvariant, PTL

(* grow_kvcache_phys never maps a page of one slot at an address of another. *)
THEOREM SlotsDisjointHolds == Spec => []SlotsDisjoint
  <1> DEFINE V == virt_buff_size_per_req
  <1>1. ASSUME LayoutInv, NEW r \in Reqs, NEW s \in Reqs, r < s
        PROVE  PageOffset(r, mapped_pages[r]) <= PageOffset(s, 0)
    <2>1. V \in Nat /\ r + 1 \in Nat /\ s \in Nat /\ r + 1 <= s
      BY <1>1, SizeTypes, LayoutAssumption DEF Reqs, LayoutInv
    <2>2. (r + 1) * V <= s * V /\ (r + 1) * V \in Nat /\ s * V \in Nat
      BY <2>1, MulMono, MulType
    <2>3. QED  BY <1>1, <2>2, SlotEnd
  <1>2. LayoutInv => SlotsDisjoint
    <2> SUFFICES ASSUME LayoutInv, NEW r \in Reqs, NEW s \in Reqs, r # s,
                        NEW a \in MappedBytes(r), a \in MappedBytes(s)
                 PROVE  FALSE
      BY DEF SlotsDisjoint
    <2>1. /\ a \in Int
          /\ PageOffset(r, 0) <= a /\ a < PageOffset(r, mapped_pages[r])
          /\ PageOffset(s, 0) <= a /\ a < PageOffset(s, mapped_pages[s])
      BY SlotEnd DEF MappedBytes
    <2>2. /\ PageOffset(r, 0) \in Int /\ PageOffset(r, mapped_pages[r]) \in Int
          /\ PageOffset(s, 0) \in Int /\ PageOffset(s, mapped_pages[s]) \in Int
      BY SlotEnd
    <2>3. r < s \/ s < r
      BY LayoutAssumption DEF Reqs
    <2>4. QED  BY <2>1, <2>2, <2>3, <1>1
  <1>3. QED  BY <1>2, LayoutInvariant, PTL

(* A page holds all bytes of the tokens it is counted for, in every          *)
(* component and for every layer of the tensor.                              *)
LEMMA PageHoldsTokens ==
  ASSUME ConfInv, NEW c \in Components
  PROVE  tokens_per_page * TokenBytes(c) <= conf.page_size
  <1> DEFINE d == conf.token_dim[c]
             D == IF conf.mla THEN conf.token_dim[1] + conf.token_dim[2] ELSE conf.token_dim[1]
             T == tokens_per_page
  <1>1. /\ LayersPerTensor \in Nat /\ T \in Nat /\ conf.page_size \in Nat
        /\ page_buffer_token_bytes \in Nat \ {0}
        /\ conf.token_dim[1] \in Nat /\ conf.token_dim[2] \in Nat /\ d \in Nat
        /\ TokenBytes(c) \in Nat
    BY SizeTypes DEF Components
  <1>2. D \in Nat /\ d <= D
    <2>1. c = 1 \/ c = 2
      BY DEF Components
    <2>2. ~conf.mla => conf.token_dim[1] = conf.token_dim[2]
      BY DEF ConfInv, Valid
    <2>3. QED  BY <1>1, <2>1, <2>2
  <1>3. TokenBytes(c) <= page_buffer_token_bytes
    BY <1>1, <1>2, MulMono DEF TokenBytes, page_buffer_token_bytes
  <1>4. T * TokenBytes(c) <= T * page_buffer_token_bytes
    BY <1>1, <1>3, MulMono
  <1>5. T * page_buffer_token_bytes <= conf.page_size
    BY <1>1, DivFloor DEF tokens_per_page
  <1>6. T * TokenBytes(c) \in Nat /\ T * page_buffer_token_bytes \in Nat
    BY <1>1, MulType
  <1>7. QED  BY <1>1, <1>4, <1>5, <1>6

LEMMA IntervalWithin ==
  ASSUME NEW a \in Nat, NEW b \in Nat, NEW m \in Nat, NEW k \in Nat, b + k <= m
  PROVE  a + b .. a + b + k - 1 \subseteq a .. (a + m) - 1
  OBVIOUS

(* A token for which tokens_to_pages has asked enough pages has all its      *)
(* bytes in the slot's own pages, in the first slot and in every slot of a   *)
(* tensor whose rows are as far apart as the slots.                          *)
THEOREM AlignedTokensMappedHolds == Spec => []AlignedTokensMapped
  <1>1. LayoutInv => AlignedTokensMapped
    <2> SUFFICES ASSUME LayoutInv, NEW c \in Components, NEW r \in Reqs,
                        r = 0 \/ RowBytes(c) = virt_buff_size_per_req,
                        NEW t \in BackedTokens(r)
                 PROVE  TokenMapped(c, r, t)
      BY DEF AlignedTokensMapped
    <2> DEFINE V == virt_buff_size_per_req
               T == tokens_per_page
               K == TokenBytes(c)
               P == conf.page_size
               m == mapped_pages[r]
               q == (t + 1 + T - 1) \div T
    <2>1. /\ V \in Nat /\ T \in Nat \ {0} /\ K \in Nat \ {0} /\ P \in Nat /\ m \in Nat
          /\ RowBytes(c) \in Nat /\ conf.max_context_length \in Nat /\ r \in Nat
      BY SizeTypes, LayoutAssumption DEF LayoutInv, Reqs
    <2>2. t \in Nat /\ q <= m
      BY <2>1 DEF BackedTokens, tokens_to_pages
    <2>3. q \in Nat /\ t + 1 <= q * T
      BY <2>1, <2>2, DivCeil
    <2>4. (t + 1) * K <= (q * T) * K /\ q * (T * K) <= q * P /\ q * P <= m * P
      BY <2>1, <2>2, <2>3, MulType, MulMono, PageHoldsTokens DEF LayoutInv
    <2>5. (q * T) * K = q * (T * K)
      BY <2>1, <2>3
    <2>6. /\ (t + 1) * K \in Nat /\ q * (T * K) \in Nat /\ q * P \in Nat /\ m * P \in Nat
          /\ t * K \in Nat /\ (t + 1) * K = t * K + K
      BY <2>1, <2>2, <2>3, MulType, MulAdd
    <2>7. t * K + K <= m * P
      BY <2>4, <2>5, <2>6
    <2>8. r * RowBytes(c) = r * V
      BY <2>1
    <2>9. TokenAddress(c, r, t) = r * V + t * K
      BY <2>8 DEF TokenAddress
    <2>10. r * V \in Nat
      BY <2>1, MulType
    <2>11. /\ PageOffset(r, 0) = r * V
           /\ PageOffset(r, mapped_pages[r]) = r * V + m * P
      BY SlotEnd
    <2>12. r * V + t * K .. r * V + t * K + K - 1 \subseteq r * V .. (r * V + m * P) - 1
      <3> HIDE DEF V, K, P, m
      <3> QED  BY <2>1, <2>6, <2>7, <2>10, IntervalWithin
    <2>13. TokenAddress(c, r, t) .. TokenAddress(c, r, t) + TokenBytes(c) - 1
             = r * V + t * K .. r * V + t * K + K - 1
      BY <2>9, Zenon
    <2>14. MappedBytes(r) = r * V .. (r * V + m * P) - 1
      BY <2>11, Zenon DEF MappedBytes
    <2>15. QED  BY <2>12, <2>13, <2>14, Zenon DEF TokenMapped
  <1>2. QED  BY <1>1, LayoutInvariant, PTL
==============================================================================
