-------------------------- MODULE MCFrameExchange --------------------------
(* FrameExchange for two windows, one of which goes round its buffers twice. *)
EXTENDS FrameExchange
MCMaxFrames == <<4, 1>>
MCProcess == {1, 2, 101, 102}
MCCompositor == 101
MCInputServer == 102
=============================================================================
