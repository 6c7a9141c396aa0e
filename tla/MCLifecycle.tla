---------------------------- MODULE MCLifecycle ----------------------------
EXTENDS Bootloader, AiosLifecycle
VARIABLE by   \* which of the two drives the layers in this behaviour
vars == <<layerVars, initVars, bootVars, aiosVars, by>>
Init == BootInit /\ AiosInit /\ LayersInit /\ by \in {"bootloader", "aios"}
Next == \/ by = "bootloader" /\ BootNext /\ UNCHANGED <<aiosVars, by>>
        \/ by = "aios" /\ AiosNext /\ UNCHANGED <<initVars, bootVars, by>>
Fair == /\ WF_vars(by = "bootloader" /\ BootStep /\ UNCHANGED <<aiosVars, by>>)
        /\ \A t \in Thread : WF_vars(by = "bootloader" /\ ThreadStep(t) /\ UNCHANGED <<aiosVars, by>>)
        /\ WF_vars(by = "aios" /\ AiosStep /\ UNCHANGED <<initVars, bootVars, by>>)
Spec == Init /\ [][Next]_vars /\ Fair
\* The types of both, and of the layers they share.
LifecycleTypeOK == BootTypeOK /\ AiosTypeOK
\* A boot ends, and a signal ends AIOS or is caught.
LifecycleEnds == BootSettles /\ SignalEnds
=============================================================================
