------------------------------- MODULE MCApp -------------------------------
(* Three windows on hosts that leave the UI thread alone, and on two kinds that *)
(* do not, with either kind for the first window.                               *)
EXTENDS App

CONSTANTS w0, w1, w2

MCWindow == {w0, w1, w2}
MCHosts ==
  {[w \in MCWindow |-> IF w = w0 THEN h[1] ELSE h[2]]
      : h \in {<<"none", "none">>, <<"Do", "Go">>, <<"Go", "Do">>}}
=============================================================================
