------------------------------ MODULE MCFsIpc ------------------------------
(* FsIpc with fewer slots than clients. *)
EXTENDS FsIpc

MCProcess == Client \cup {Server}
=============================================================================
