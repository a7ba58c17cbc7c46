---------------------------- MODULE MCAudioEngine ----------------------------
(* Projects of one or two blocks; a ring, a command queue and an event queue  *)
(* of two, so that each can be full.                                          *)
EXTENDS AudioEngine

MCLengths == {1, 2}
MCStarts  == {0, 1}
MCLoops   == {FALSE}
=============================================================================
