--------------------------- MODULE MCAttachStream ---------------------------
(* A ring of two bytes, chunks up to one byte longer. *)
EXTENDS AttachStream
=============================================================================
