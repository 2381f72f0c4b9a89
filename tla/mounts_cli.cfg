SPECIFICATION Spec
CONSTANTS
  vault = vault
  team = team
  Ids = {vault, team}
  Legacy = vault
  Places = {"", "Team/Alpha"}
  Top = ""
  Stores = {"encryptedFile"}
  MaxCommands = 3
  Names <- MCNames
  Folders <- MCFolders
  NamesOf <- MCNamesOf
  Notes <- MCNotes
  Handwritten <- MCHandwritten
  MaxFound = 2
INVARIANTS ConfigServes Recoverable NamespaceIsWhole GrepsAreHonest
CHECK_DEADLOCK FALSE
