------------------------- MODULE MCPipelineEngine ------------------------
(* Small instances of the pipeline-parallel engine for TLC.                *)
EXTENDS PipelineEngine

Chunk2 == <<2>>
Chunk4 == <<4>>

PagedConfigs == [type : {"sarathi", "vllm", "orca"}, vattention : {FALSE}]
SarathiPaged == [type : {"sarathi"}, vattention : {FALSE}]
==========================================================================
