----------------------------- MODULE MCReceiver -----------------------------
(***************************************************************************)
(* Values of the constants of Receiver for TLC: a text, line ends in every *)
(* place, one datagram that does not fit, one with a NUL before its line   *)
(* end, and an empty one.                                                  *)
(***************************************************************************)
EXTENDS Receiver

SomeDatagrams ==
  {<<"a">>, <<"esc", "lf">>, <<"a", "cr", "lf">>, <<"lf", "cr">>,
   <<"a", "lf", "a", "a">>, <<"a", "lf", "nul">>, <<>>}
=============================================================================
