\* The parameters of WorkflowExecutor.run, a robot that needs no browser.
SPECIFICATION Spec
CHECK_DEADLOCK FALSE
CONSTANTS
  Workflows <- LocalWorkflow
  Parameters = {"workflow_data", "inputs", "log", "should_cancel"}
  MaxRetries = 1
  MaxTimeout = 30000
  Forms = {}
  Payloads = {}
INVARIANT FailsInAStep
