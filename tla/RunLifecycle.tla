---------------------------- MODULE RunLifecycle ----------------------------
(***************************************************************************)
(* What the queue promises about one run, with no process, thread or row:  *)
(* a run waits, is worked on by at most one executor, may be handed back   *)
(* while its budget of retries lasts, and once over is never worked on     *)
(* again.                                                                  *)
(***************************************************************************)
EXTENDS Naturals

CONSTANT Runs

VARIABLES phase,    \* "absent", "waiting", "working" or "over"
          attempts, \* how many times somebody began to work on the run
          budget    \* retries granted when the run was created

lifeVars == <<phase, attempts, budget>>

LInit == /\ phase = [r \in Runs |-> "absent"]
         /\ attempts = [r \in Runs |-> 0]
         /\ budget = [r \in Runs |-> 0]

\* The run is created with its budget.
LCreate(r, b) == /\ phase[r] = "absent"
                 /\ phase' = [phase EXCEPT ![r] = "waiting"]
                 /\ budget' = [budget EXCEPT ![r] = b]
                 /\ UNCHANGED attempts

LBegin(r) == /\ phase[r] = "waiting" /\ attempts[r] <= budget[r]
             /\ phase' = [phase EXCEPT ![r] = "working"]
             /\ attempts' = [attempts EXCEPT ![r] = @ + 1]
             /\ UNCHANGED budget

LRetry(r) == /\ phase[r] = "working" /\ attempts[r] <= budget[r]
             /\ phase' = [phase EXCEPT ![r] = "waiting"]
             /\ UNCHANGED <<attempts, budget>>

\* The runs of S end: one finishes or is cancelled, or all that a process
\* was working on are lost with it.
LEnd(S) == /\ \A r \in S : phase[r] \in {"waiting", "working"}
           /\ phase' = [r \in Runs |-> IF r \in S THEN "over" ELSE phase[r]]
           /\ UNCHANGED <<attempts, budget>>

LNext == \/ \E r \in Runs, b \in 0..5 : LCreate(r, b)
         \/ \E r \in Runs : LBegin(r) \/ LRetry(r)
         \/ \E S \in SUBSET Runs : LEnd(S)

LSpec == LInit /\ [][LNext]_lifeVars
=============================================================================
