----------------------------- MODULE MCWatchdog -----------------------------
(* Small instances of Watchdog. *)
EXTENDS Watchdog

\* Silence only; memory only, free memory with and without a memory limit.
MCLimits ==
  {[check_timeout |-> 7, max_memory |-> FALSE, floor |-> FALSE],
   [check_timeout |-> 4, max_memory |-> TRUE, floor |-> FALSE],
   [check_timeout |-> 4, max_memory |-> FALSE, floor |-> TRUE]}

\* Long enough for the silence of MCWatchdogBusyTree.
MCLongLimits == {[check_timeout |-> 10, max_memory |-> FALSE, floor |-> FALSE]}
=============================================================================
