\* Two files with the same two words: only the race can go wrong.
CONSTANTS
  N = 2
  K = 2
  Token <- MCToken
  uppercase <- MCuppercase
  NoFile = NoFile
  Inputs <- WithTwo
  Programs <- Proc
  Huge = 99
SPECIFICATION TSpec
INVARIANT FindsTopK
