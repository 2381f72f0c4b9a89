SPECIFICATION Spec
CONSTANTS
  p = p
  q = q
  Builders = {p, q}
  N = 2
  Terms = {"t"}
  Configs = {"sparse", "embedding"}
  MaxEdits = 3
  MaxJobs = 3
SYMMETRY BuilderSymmetry
INVARIANTS ManifestMeansIndexed FrequenciesCountRows
CHECK_DEADLOCK FALSE
