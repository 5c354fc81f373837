SPECIFICATION Spec
CONSTANTS
  Brace = Brace
  Words = {"ls", ".env"}
  Operators = {";"}
  Quotes = {"single quote", "double quote"}
  Raw = {"single quote"}
  Escaped = {"escaped double quote"}
  QuoteOf <- MCQuoteOf
  Substitution = {"backquote"}
  Rules <- MCRules
  DenyTable <- MCDenyTable
  RmFlags = {}
  Sealed = {}
  Devices = {}
  EnvFiles = {".env"}
  ReadOnly <- MCReadOnly
  Mutating <- MCMutating
  Chain <- MCChain
  Tools = {"terminal", "dispatch_subagent"}
  SessionKind = "orchestrator"
  AutoApproveEdits = FALSE
  MaxCalls = 2
  MaxPieces = 4
  MaxText = 1
INVARIANTS TypeOK ReplyOfOneTier CommandWhole StrictestWins
CHECK_DEADLOCK FALSE
