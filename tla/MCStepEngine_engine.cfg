\* Every workflow of up to three steps, one retry of the run, an executor with
\* the parameters the service passes.  A run that is over takes no step.
SPECIFICATION FairSpec
CHECK_DEADLOCK FALSE
CONSTANTS
  Workflows <- MCWorkflows
  Parameters = {"workflow", "inputs", "log", "should_cancel"}
  MaxRetries = 1
  MaxTimeout = 30000
  Forms <- MCForms
  Payloads <- MCPayloads
INVARIANTS BrowserFollowsAttempt BudgetOfActions OutcomeIsTrue OrderedEffects ProtectedOnce AcceptedIsExecutable GuidedIsAccepted
PROPERTY EveryRunEnds
