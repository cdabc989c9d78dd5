SPECIFICATION Spec
CONSTANTS
  NI = 4
  Names = {"a", "b", "file-2", "file-3"}
  NameWords <- MCNameWords
  Numbered <- MCNumbered
  Short = {"a"}
  Letters = {1, 16}
  WORDS = 16
  MaxChanges = 5
  Layouts <- MCLayouts
INVARIANTS FilesRecovered LiveNamesFound NamedOutputs
CHECK_DEADLOCK FALSE
