------------------------------- MODULE MCAudit -------------------------------
(* The audit register on a small instance: Resources at every depth of     *)
(* one Domain, one of a second Domain, one that is not well formed.        *)
EXTENDS Audit

SomeResources ==
  {Domains, Domain("a"), Batches("a"), Batches("b"), Batches(""),
   APIKeys("a"), APIKey("a", "batches"), AggregatedStats("a")}

=============================================================================
