SPECIFICATION Spec
CONSTANTS
  None = None
  Unset = Unset
  Chars <- MCChars
  Contexts <- MCContexts
  Projects <- MCProjects
  Tags <- MCTags
  Kinds = {"line", "add", "file", "plan", "edit", "defer", "rework"}
  Alphabet <- MCAlphabet
  MaxText = 5
  Phrases <- MCPhrases
  Words <- MCWords
  NewNames <- MCNewNames
  Labels <- MCLabels
  Page <- MCPage
  Actions <- MCActions
  Patterns <- MCPatterns
  Days = {1, 3}
  Lead = 1
  Weekdays = {1}
  MaxMoves = 3
  MaxAdds = 2
  MaxEdits = 1
INVARIANT TypeOK
PROPERTIES SavesWhatIsShown KeepsTheRest CompletionNames
CHECK_DEADLOCK FALSE
