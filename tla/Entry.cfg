SPECIFICATION Spec
CONSTANTS
  Programs <- MCPrograms
  Messages <- MCMessages
  Identifiers <- MCIdentifiers
  Modules <- MCModules
  Members <- MCMembers
  Builtins <- MCBuiltins
  Default <- default
  Underscore = 0
INVARIANTS
  TypeOK
  CursorAtStatement
  LoadedIsPrefix
  CalledWithWhatWasSent
