------------------------------ MODULE MCPipeline ------------------------------
(* The pipeline on a small instance.                                        *)
EXTENDS PipelineClaims, TLC

CONSTANTS r1, r2, k1, k2, d1, d2, v1, v2, w1

OneRow   == {r1}
TwoRows  == {r1, r2}
OneKey   == {k1}
TwoKeys  == {k1, k2}
OneSeq   == {1}

KeyOfOne   == [r \in OneRow |-> k1]
KeyOfTwo   == [r \in TwoRows |-> IF r = r1 THEN k1 ELSE k2]

OneDispatcher  == {d1}
TwoDispatchers == {d1, d2}
OneValidator   == {v1}
TwoValidators  == {v1, v2}
OneWorker      == {w1}

Replicas == Permutations(TwoDispatchers) \cup Permutations(TwoValidators)
=============================================================================
