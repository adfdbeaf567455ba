---------------------------- MODULE MCPipeline ----------------------------
\* The bounds of TranscriptionPipeline are constants: its configurations set them.
EXTENDS TranscriptionPipeline
=============================================================================
