----------------------------- MODULE MCDacChain -----------------------------
(***************************************************************************)
(* Voltages for DacChain: beyond both ends, around the threshold, those of *)
(* the test suites.                                                        *)
(***************************************************************************)
EXTENDS DacChain

MCMillivolts ==
  {-5, 500, 1400, 1500, 1650, 3000, 3300, 3400}
=============================================================================
