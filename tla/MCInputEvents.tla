--------------------------- MODULE MCInputEvents ---------------------------
(* A background window and a normal one, and rings of two events.          *)
EXTENDS InputEvents
MCLayer == <<"background", "normal">>
MCProcess == {101, 102}
MCCompositor == 101
MCInputServer == 102
=============================================================================
