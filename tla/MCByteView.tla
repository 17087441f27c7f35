---------------------------- MODULE MCByteView ----------------------------
(* ByteView for TLC: a build that elides the moves of Bytes temporaries    *)
(* (C++17 and later, or an older compiler that elides them, as they do by  *)
(* default), and one that does not (-fno-elide-constructors before C++17). *)
EXTENDS ByteView

MCElided == TRUE
MCNotElided == FALSE
=============================================================================
