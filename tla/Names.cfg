SPECIFICATION Spec
CONSTANTS
  Identifiers <- MCIdentifiers
  Builtins <- MCBuiltins
  Values = {a, b}
  Unbound = Unbound
  Builtin = Builtin
  MaxDepth = 4
SYMMETRY Symmetry
INVARIANTS
  TypeOK
  BodyNamesAreNew
PROPERTIES
  CalleesKeepVariables
  ReadsWhatWasAssigned
