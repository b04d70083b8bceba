----------------------------- MODULE MCPlayback -----------------------------
(* Four plays, up to two updates each, stops at any time.                  *)
EXTENDS Playback
=============================================================================
