---------------------------- MODULE PipelineClaims ----------------------------
(***************************************************************************)
(* What a comment of the repository says about the pipeline and the code    *)
(* does not keep in every behaviour.                                        *)
(***************************************************************************)
EXTENDS Pipeline

(* Reclaim converges: "the bump is what makes a condition that strands     *)
(* systematically converge on termination through the Retry Budget instead *)
(* of looping for ever" (pkg/dispatcher/reclaim.go).  dispatchOne does not *)
(* ask for the budget when the Envelope can be built.                      *)
StrandingConverges ==
  \A r \in Rows : pool[r].status = "sending" ~> pool[r].status = "deleted"

=============================================================================
