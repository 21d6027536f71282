----------------------------- MODULE MCApiLoader -----------------------------
(* Small instances of ApiLoader for TLC. *)
EXTENDS ApiLoader

(* One endpoint of each kind the loader tells apart. *)
OneOfEachKind == {"users", "codeEnvs", "sizes", "llmAudit", "health"}
AFew == {"codeEnvs", "sizes", "llmAudit", "health"}
Prone == {"llmAudit"}

=============================================================================
