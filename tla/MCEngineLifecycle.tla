-------------------------- MODULE MCEngineLifecycle --------------------------
(* Finite instances of EngineLifecycle.                                     *)
EXTENDS EngineLifecycle, TLC

CONSTANTS ma, mb,      \* models
          r1, r2, r3,  \* requests
          la, lb, ca, ba

\* Every task works on one model.
OneModelOf == [t \in Tasks |-> ma]

\* The second load task works on the other model.
TwoModelsOf == [t \in Tasks |-> IF t = lb THEN mb ELSE ma]

Interchangeable == Permutations(Engines) \cup Permutations(Locks) \cup Permutations({r1, r2})
===============================================================================
