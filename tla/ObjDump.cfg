\* Complete and shortened files in every format, with every call failing
SPECIFICATION Spec
CONSTANTS
  Programs <- ProgramsAll
INVARIANTS ListingReadsBack SuccessMeansListed
PROPERTIES Terminates
