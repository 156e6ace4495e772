------------------------- MODULE MCServingEngine -------------------------
(* Small instances of the serving engine for TLC.                          *)
EXTENDS ServingEngine

(* One chunk size for all stages of a prompt. *)
Chunk2 == <<2>>
Chunk4 == <<4>>

VAttentionConfigs == [type : {"sarathi", "vllm"}, vattention : {TRUE}]
SarathiVAttention == [type : {"sarathi"}, vattention : {TRUE}]

PagedConfigs ==
  [type : {"sarathi", "vllm", "simple_chunking", "orca", "faster_transformer"},
   vattention : {FALSE}]

AllConfigs == PagedConfigs \cup VAttentionConfigs
==========================================================================
