-------------------------------- MODULE Once --------------------------------
(***************************************************************************)
(* What a lazily initialised cell promises to its callers, whatever the    *)
(* number of threads: a value is put in the cell at most once, and every   *)
(* call that returns hands out that value.  OnceCell implements it.        *)
(***************************************************************************)
CONSTANTS Threads, None

VARIABLES cell,    \* the published value, None before
          calling, \* the threads inside get()
          got      \* got[t]: what the reference t obtained last points at

vars == <<cell, calling, got>>

Init == /\ cell = None
        /\ calling = {}
        /\ got = [t \in Threads |-> None]

Call(t) == /\ t \notin calling
           /\ calling' = calling \cup {t}
           /\ UNCHANGED <<cell, got>>

\* One of the calling threads supplies the value.
Fill(t) == /\ t \in calling
           /\ cell = None
           /\ cell' = t
           /\ UNCHANGED <<calling, got>>

Return(t) == /\ t \in calling
             /\ cell # None
             /\ got' = [got EXCEPT ![t] = cell]
             /\ calling' = calling \ {t}
             /\ UNCHANGED cell

Next == \E t \in Threads : Call(t) \/ Fill(t) \/ Return(t)

Spec == Init /\ [][Next]_vars
=============================================================================
