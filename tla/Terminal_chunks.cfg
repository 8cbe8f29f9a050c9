\* Two commands, what they write and how they end, cut into chunks anywhere.
SPECIFICATION Spec
CONSTANTS
  MaxCSI = 4
  MaxOSC = 3
  MaxCommands = 2
  MaxQueries = 2
  MaxUnparsed = 17
  MaxUnscanned = 4
INVARIANTS NoReplyInvented UncutAnswered CommandsExact AtPromptExact
CHECK_DEADLOCK FALSE
