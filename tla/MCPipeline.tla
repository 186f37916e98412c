----------------------------- MODULE MCPipeline -----------------------------
(* Pipeline for TLC. *)
EXTENDS Pipeline

MCConfigs ==
    [sel : {"configured", "created", "mirror", "detected"}, fw : {"set", "raise"},
     resume : BOOLEAN, kexec : BOOLEAN]

(* A resume with plain disk detection. *)
MCDetected == {[sel |-> "detected", fw |-> "set", resume |-> TRUE, kexec |-> FALSE]}


=============================================================================
