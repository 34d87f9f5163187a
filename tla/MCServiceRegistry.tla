-------------------------- MODULE MCServiceRegistry --------------------------
\* Small instances of ServiceRegistry for TLC.
EXTENDS ServiceRegistry, TLC

CONSTANTS i1, i2, self, asr, config

\* Two instances of one service, and config-service.
MCServiceOf == (i1 :> asr) @@ (i2 :> asr) @@ (self :> config)

\* One instance of one service, and config-service.
MCOneServiceOf == (i1 :> asr) @@ (self :> config)

\* Handlers are interchangeable; used with invariants only.
Symmetry == Permutations(Handlers)
=============================================================================
