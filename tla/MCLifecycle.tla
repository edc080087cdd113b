---------------------------- MODULE MCLifecycle ----------------------------
(***************************************************************************)
(* Values of the constants of Lifecycle for TLC: options at and beyond the *)
(* limits, and those that steer the start.                                 *)
(***************************************************************************)
EXTENDS Lifecycle

Opt(n, v) == [name |-> n, value |-> v]

\* -I with 4 is a multiple of FlagsSize; -I -1 is the largest value.
CommandOptions ==
  {Opt("wpm", 3), Opt("wpm", 4), Opt("wpm", 60), Opt("wpm", 61),
   Opt("wpm", NotANumber), Opt("pttdelay", 50), Opt("pttdelay", 51),
   Opt("priority", -20), Opt("flags", 4), Opt("flags", -1),
   Opt("threshold", LOG_CRIT), Opt("threshold", LOG_DEBUG), Opt("verbose", 0),
   Opt("path", "stdout"), Opt("path", "log"), Opt("path", "syslog"),
   Opt("nofork", 0), Opt("cwdevice", 0), Opt("help", 0)}
=============================================================================
