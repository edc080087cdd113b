---------------------------- MODULE MCCwDevice -----------------------------
(***************************************************************************)
(* Values of the constants of CwDevice for TLC: two serial ports, and one  *)
(* parallel port.                                                          *)
(***************************************************************************)
EXTENDS CwDevice, TLC

Sockets  == {"ttyS0", "ttyS1"}
Printers == {"parport0"}
Anything == Sockets \cup Printers \cup {"null", "bad"}
AnyName  == Anything \cup {"empty"}
=============================================================================
