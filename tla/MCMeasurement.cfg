\* A control and two variants with a visitor each; one observation is a sample.
CONSTANTS
  Confidence = 40
  NoWinner = 20
  MinSample = 1
  v1 = v1
  v2 = v2
  v3 = v3
  armA = armA
  armB = armB
  Visitor = {v1, v2, v3}
  Control = control
  ControlVersion = controlVersion
  Variants <- TwoVariants
  Assigned <- OneEach
  NoVersion = NoVersion
  MaxInserts = 2
SPECIFICATION Spec
INVARIANTS
  SamplesAreDisjoint
  EvidenceStays
  OverdueAlwaysEnds
PROPERTIES
  ImplementsExperiments
