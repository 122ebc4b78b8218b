------------------------------ MODULE MCWindow ------------------------------
(* Window on small constants: the losses that matter are those of events  *)
(* the loop has to hear of.                                                *)
EXTENDS Window

CONSTANTS other, h1, h2

MCWatched == {ui} \X {"resize", "expose", "density", "close"}
=============================================================================
