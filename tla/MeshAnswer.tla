----------------------------- MODULE MeshAnswer -----------------------------
(***************************************************************************)
(* All that the tools' front ends look at in the answer of POST            *)
(* /api/guardmesh/intent, which the modules Consensus and IntentMesh make. *)
(***************************************************************************)

\* A final decision to carry out, contested or not; any other; or no usable
\* answer: an HTTP error, a timeout, no JSON.
Answer == {"execute", "execute_contested", "refuse", "error"}

Executes(ans) == ans \in {"execute", "execute_contested"}
=============================================================================
