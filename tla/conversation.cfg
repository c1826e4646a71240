SPECIFICATION Spec
CONSTANTS
  Agents <- TwoAgents
  Prompt <- MCPrompt
  MaxEntries = 3
  MaxAsked <- MCAsked
  MaxCalls <- MCCalls
INVARIANTS
  CallsDetected
  ResultsResolve
  MultiTurnMeant
  ConversationStable
CHECK_DEADLOCK FALSE
