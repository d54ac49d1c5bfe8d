-------------------------------- MODULE MCApi --------------------------------
(* The API on a small instance: two Domains, one of them with a parent.    *)
EXTENDS Api

ParentOfA == {<<"p", "a">>}

=============================================================================
