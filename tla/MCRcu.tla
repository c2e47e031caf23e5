------------------------------- MODULE MCRcu --------------------------------
(* A server thread, which retires objects, and a benchmark thread.  Both    *)
(* work on one object, or the server thread has two to retire: a           *)
(* collection of its limbo list then stops at rcu_free_count and resumes.  *)
EXTENDS Rcu

CONSTANTS t1, t2, a, b

MCThreads == {t1, t2}
MCObjects == {a, b}
MCScenes == {[objects |-> {a}, early |-> {}, idle |-> {}],
             [objects |-> {a}, early |-> {a}, idle |-> {}],
             [objects |-> {a, b}, early |-> {}, idle |-> {t2}]}
=============================================================================
