------------------------------- MODULE Intake --------------------------------
(***************************************************************************)
(* The screen that reads versions this build has never seen                *)
(* (Sources/EGGApp/UpdatesView.swift): a firmware updater goes to          *)
(* ingest.py, a configuration tool to ingest_config.py.  One session is    *)
(* about one kind.                                                         *)
(***************************************************************************)
EXTENDS UpdaterIntake, ConfigIntake

VARIABLE kind
vars == <<kind, uvars, cvars>>

Init == kind \in {"firmware", "config"} /\ UInit /\ CInit
Next == \/ kind = "firmware" /\ UNext /\ UNCHANGED <<kind, cvars>>
        \/ kind = "config" /\ CNext /\ UNCHANGED <<kind, uvars>>
Spec == Init /\ [][Next]_vars

\* The kind chosen and the updater half's types; a tool that is not a config
\* tool never leaves a row (UpdatesView.swift 26-33).
TypeOK == /\ UTypeOK
          /\ kind = "firmware" => tool = NoTool /\ adopted = {}
          /\ kind = "config" => exe = NoExe
=============================================================================
