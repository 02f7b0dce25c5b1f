SPECIFICATION Spec
CONSTANTS
  Rates <- MCRates
  Freqs <- MCFreqs
INVARIANT FailureReported
