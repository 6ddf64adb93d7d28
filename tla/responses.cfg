\* Listings of up to two rows, with up to two malformed or missing fields in an answer.
SPECIFICATION Spec

CONSTANTS
  MaxRows = 2
  MaxFlaws = 2

INVARIANTS
  FirstFlawDecides
  PlainFailuresAreTransfers

PROPERTY KeepsItsPromise
