------------------------------- MODULE Layers -------------------------------
(***************************************************************************)
(* The life cycles of the ROOT and HOME layers: start, stop and mount of   *)
(* aura/root/sovereign.py and aura/home/userland.py.  Each operation is    *)
(* called by one thread, the one that boots and halts the system.          *)
(***************************************************************************)
VARIABLES
  root,      \* ROOTLayer._running
  mounted,   \* ROOTLayer._home_mounted
  home       \* HOMELayer._running

layerVars == <<root, mounted, home>>

LayersInit == root = FALSE /\ mounted = FALSE /\ home = FALSE

RootStart == root' = TRUE /\ UNCHANGED <<mounted, home>>

\* stop() unmounts HOME first, if ROOT is online at all.
RootStop == /\ root' = FALSE
            /\ mounted' = (mounted /\ ~root)
            /\ UNCHANGED home

HomeStart == home' = TRUE /\ UNCHANGED <<root, mounted>>

\* mount_home() evaluates the policy but does not look at the verdict: _gate
\* ignores raise_on_deny.
MountHome   == mounted' = TRUE /\ UNCHANGED <<root, home>>
UnmountHome == mounted' = FALSE /\ UNCHANGED <<root, home>>

LayersTypeOK == root \in BOOLEAN /\ mounted \in BOOLEAN /\ home \in BOOLEAN
=============================================================================
