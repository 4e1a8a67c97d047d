----------------------------- MODULE Snapshots -----------------------------
(***************************************************************************)
(* What the data update of OSRM promises: at any moment one dataset is     *)
(* current, and every router serves nothing or a whole dataset that was    *)
(* current when it was loaded.                                             *)
(***************************************************************************)
CONSTANTS Routers, Data, Lost, None

VARIABLES current, serving, forgotten

Init == current = None /\ serving = [r \in Routers |-> None] /\ forgotten = FALSE

Publish == \E d \in Data \ {current} : current' = d /\ UNCHANGED <<serving, forgotten>>

Load(r) ==
  /\ current # None /\ serving[r] # Lost
  /\ serving' = [serving EXCEPT ![r] = current]
  /\ UNCHANGED <<current, forgotten>>

Stop(r) == serving' = [serving EXCEPT ![r] = None] /\ UNCHANGED <<current, forgotten>>

\* The operator removes the register: its routers are on their own, and so is
\* one that had just opened it.
Forget ==
  /\ current' = None /\ forgotten' = TRUE
  /\ serving' = [r \in Routers |-> IF serving[r] = None THEN None ELSE Lost]

Stray(r) ==
  /\ forgotten
  /\ serving' = [serving EXCEPT ![r] = Lost]
  /\ UNCHANGED <<current, forgotten>>

Next == Publish \/ Forget \/ \E r \in Routers : Load(r) \/ Stop(r) \/ Stray(r)

Spec == Init /\ [][Next]_<<current, serving, forgotten>>
=============================================================================
