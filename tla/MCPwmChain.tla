----------------------------- MODULE MCPwmChain -----------------------------
(***************************************************************************)
(* What the hosts of PwmChain ask for when TLC checks it: the limits,      *)
(* values the test suites use, and values that do not divide evenly.       *)
(***************************************************************************)
EXTENDS PwmChain

MCFreqs       == {-1, 50, 97, 4999, 9900, 100001}
MCDuties      == {-1, 0, 2, 33, 50, 67, 99, 100}
MCTolerances  == {<<2, 2>>, <<10, 5>>, Omitted}

\* None, and as much as the divider's 8 bits of fraction and 11 bits of resolution
\* cost at most.
MCErrors      == {<<0, 0>>, <<40, 5>>, <<50, 5>>}

\* Signals at the low end of what is accepted.
SlowFreqs     == {1, 10, 20, 23, 24, 50}
=============================================================================
