SPECIFICATION Spec
CONSTANTS
  Rates <- MCRates
  Freqs <- MCFreqs
INVARIANTS
  TypeOK
  NeverDeaf
  TunedAsAsked
PROPERTY HearsAgain
