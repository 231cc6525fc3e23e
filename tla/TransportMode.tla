---------------------------- MODULE TransportMode ----------------------------
(***************************************************************************)
(* What the transport selection of the testbench promises, without boots,  *)
(* menus, files or reboots: one saved mode that is chosen once and then    *)
(* only switched, a board that serves on the saved mode or not at all, and *)
(* an acknowledgement that always names what is saved.                     *)
(***************************************************************************)
CONSTANTS Links, None, Down

VARIABLES
  saved,    \* the mode that survives everything
  serving,  \* the mode commands are served on; None until then, Down when it
            \* will not come without a reset
  told      \* the mode the last acknowledgement named; None if outdated

modeVars == <<saved, serving, told>>

ModeInit ==
  /\ saved \in Links \cup {None}
  /\ serving = None
  /\ told = None

\* The first choice.
Choose(l) ==
  /\ saved = None
  /\ saved' = l
  /\ UNCHANGED <<serving, told>>

Start ==
  /\ serving = None
  /\ saved \in Links
  /\ serving' = saved
  /\ UNCHANGED <<saved, told>>

\* The board cannot start, and gives up.
Fail ==
  /\ serving = None
  /\ serving' = Down
  /\ UNCHANGED <<saved, told>>

\* Asked for on the mode being served; the board goes down to change over.
Switch(l) ==
  /\ serving = saved
  /\ saved \in Links
  /\ saved' = l
  /\ serving' = None
  /\ told' = None

Acknowledge ==
  /\ serving = None
  /\ saved \in Links
  /\ told' = saved
  /\ UNCHANGED <<saved, serving>>

\* A reboot or a power cut.
Stop ==
  /\ serving' = None
  /\ UNCHANGED <<saved, told>>

ModeNext ==
  \/ \E l \in Links : Choose(l) \/ Switch(l)
  \/ Start \/ Fail \/ Acknowledge \/ Stop

ModeSafeSpec == ModeInit /\ [][ModeNext]_modeVars
ModeSpec     == ModeSafeSpec /\ WF_modeVars(Start \/ Fail)
=============================================================================
