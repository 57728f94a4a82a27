\* Two files, the two most frequent words, every data set.
CONSTANTS
  N = 2
  K = 2
  Token <- MCToken
  uppercase <- MCuppercase
  NoFile = NoFile
  Inputs <- MCInputs
  Programs <- Both
  Huge = 99
SPECIFICATION TSpec
INVARIANTS PrintedIsSum WithinSlots
