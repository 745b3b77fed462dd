------------------------ MODULE MCPipelineTranslator ------------------------
(* PipelineTranslator, for TLC.                                            *)
EXTENDS PipelineTranslator
=============================================================================
