---------------------------- MODULE Idempotency ----------------------------
(***************************************************************************)
(* What the intake promises of webhooks and reruns, apart from how it      *)
(* keeps the promise: a key creates at most one run, every request with    *)
(* that key is answered with this run, and no run is created beside them.  *)
(***************************************************************************)
EXTENDS Naturals

CONSTANT Keys           \* idempotency keys

VARIABLES
    created,    \* how many runs exist; they are numbered in order
    binding,    \* the pairs <<key, run>>
    answers     \* the pairs <<key, run>> clients have been told

IInit == created = 0 /\ binding = {} /\ answers = {}

Bound(k) == \E b \in binding : b[1] = k

\* A key seen for the first time creates a run, in the same step.
Bind(k) ==
    /\ ~Bound(k)
    /\ created' = created + 1
    /\ binding' = binding \union {<<k, created'>>}
    /\ UNCHANGED answers

Answer(k) ==
    /\ \E b \in binding : b[1] = k /\ answers' = answers \union {b}
    /\ UNCHANGED <<created, binding>>

INext == \E k \in Keys : Bind(k) \/ Answer(k)

IVars == <<created, binding, answers>>

ISpec == IInit /\ [][INext]_IVars
=============================================================================
