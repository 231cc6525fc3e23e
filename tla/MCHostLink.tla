----------------------------- MODULE MCHostLink -----------------------------
EXTENDS HostLink

\* Two commands and a switch away from the UART.  The menu takes the first 1 or 2
\* of a line for a choice, also that of a name like DIO_OUT1 or of the seq.
MCCalls == {
  [seq |-> 4, cmd |-> "SERVICE", mode |-> "OTHER", key |-> None],
  [seq |-> 5, cmd |-> "SERVICE", mode |-> "OTHER", key |-> "UART"],
  [seq |-> 1, cmd |-> "TRANSPORT_SWITCH", mode |-> "WIFI", key |-> "UART"] }
=============================================================================
