-------------------------------- MODULE I2CBus --------------------------------
(***************************************************************************)
(* What an I2C controller promises its callers: one call at a time has the *)
(* bus, and a call that reports success had each of its bytes acknowledged *)
(* on the bus.  The promise holds as long as no failed call has left       *)
(* something behind; after that nothing is promised.                       *)
(***************************************************************************)
EXTENDS Naturals

CONSTANTS Tasks, NoTask

VARIABLES user,      \* the task whose call is running
          missing,   \* bytes of that call not yet acknowledged
          outcome,   \* result of the last call
          trusted    \* nothing has been left behind

busVars == <<user, missing, outcome, trusted>>

Init == user = NoTask /\ missing = 0 /\ outcome = "ok" /\ trusted = TRUE

Begin ==
    /\ user = NoTask
    /\ user' \in Tasks
    /\ missing' \in Nat \ {0}
    /\ UNCHANGED <<outcome, trusted>>

Acknowledge ==
    /\ user # NoTask
    /\ missing > 0
    /\ missing' = missing - 1
    /\ UNCHANGED <<user, outcome, trusted>>

Succeed ==
    /\ user # NoTask
    /\ missing = 0
    /\ user' = NoTask
    /\ outcome' = "ok"
    /\ UNCHANGED <<missing, trusted>>

Fail ==
    /\ user # NoTask
    /\ user' = NoTask
    /\ outcome' \in {"error", "timeout"}
    /\ missing' = 0
    /\ trusted' \in BOOLEAN

Next == trusted = TRUE /\ (Begin \/ Acknowledge \/ Succeed \/ Fail)

Broken == trusted = FALSE /\ trusted' = FALSE

Spec == Init /\ [][Next \/ Broken]_busVars
=============================================================================
