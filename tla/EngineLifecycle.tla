-------------------------- MODULE EngineLifecycle --------------------------
(***************************************************************************)
(* What the exported engine functions promise the host                     *)
(* (engine_controller.go): one tunnel, and the five statuses in which      *)
(* GetStatus reports on it.  Engine implements this specification.         *)
(***************************************************************************)

VARIABLES status, tunnel

Init == status = "stopped" /\ ~tunnel

\* A start is only begun from rest.
BeginStart ==
    /\ status \in {"stopped", "error"} /\ ~tunnel
    /\ status' = "starting"
    /\ UNCHANGED tunnel

TunnelUp ==
    /\ status = "starting" /\ ~tunnel
    /\ tunnel' = TRUE
    /\ UNCHANGED status

Running ==
    /\ status = "starting" /\ tunnel
    /\ status' = "running"
    /\ UNCHANGED tunnel

\* A start fails before the tunnel is up, or right after it was.
Fail ==
    /\ status = "running" \/ (status = "starting" /\ ~tunnel)
    /\ status' = "error"
    /\ UNCHANGED tunnel

BeginStop ==
    /\ status = "running"
    /\ status' = "stopping"
    /\ UNCHANGED tunnel

TunnelDown ==
    /\ status \in {"stopping", "error"} /\ tunnel
    /\ tunnel' = FALSE
    /\ UNCHANGED status

Stopped ==
    /\ status \in {"stopping", "error"} /\ ~tunnel
    /\ status' = "stopped"
    /\ UNCHANGED tunnel

Next ==
    \/ BeginStart \/ TunnelUp \/ Running \/ Fail
    \/ BeginStop \/ TunnelDown \/ Stopped

Spec == Init /\ [][Next]_<<status, tunnel>>
=============================================================================
