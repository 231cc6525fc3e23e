---------------------------- MODULE MCTestbench ----------------------------
(* Small sets of command lines for the runs of Testbench. *)
EXTENDS Testbench

Service(seq, key) == [seq |-> seq, cmd |-> "SERVICE", mode |-> "OTHER", key |-> key]
Switch(seq, mode, key) ==
  [seq |-> seq, cmd |-> "TRANSPORT_SWITCH", mode |-> mode, key |-> key]

\* A service command, both switches, a switch to nowhere, a command the parser
\* does not know, and a line without a usable seq.  The first digit of a line
\* is that of its seq.
MCTexts == {
  Service(2, "WIFI"),
  Switch(1, "UART", "UART"),
  Switch(2, "WIFI", "WIFI"),
  Switch(3, "OTHER", None),
  [seq |-> 3, cmd |-> "UNKNOWN", mode |-> "OTHER", key |-> None],
  [seq |-> NoSeq, cmd |-> "SERVICE", mode |-> "OTHER", key |-> "UART"] }
=============================================================================
