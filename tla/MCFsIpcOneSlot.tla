--------------------------- MODULE MCFsIpcOneSlot ---------------------------
(* FsIpc with a single slot, used again and again, and two requests each.  *)
EXTENDS FsIpc

MCProcess == Client \cup {Server}
=============================================================================
