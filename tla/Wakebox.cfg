CONSTANTS
  NULL = NULL
  Specs <- SomeSpecs
  Toolchain <- SomeToolchain
  Statuses <- SomeStatuses
SPECIFICATION Spec
INVARIANTS
  ReportIsFinal
PROPERTIES
  TimeoutEnds
