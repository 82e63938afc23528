SPECIFICATION Spec
CONSTANTS
  Personas = {"ann", "bob"}
  External = {"bob"}
  Communities = {"cooks", "homelab"}
  Candidates <- MCAllCorpora
  KNEE = 720
  CAP = 1200
  GENESIS_LAG = 1440
  WIDENED_LAG = 64800
  MAX_CORPUS_AGE = 60480
  RETRIES = 1
  MaxRuns = 2
CHECK_DEADLOCK FALSE
INVARIANTS RefusedOnlyUnproven RepliesFollowPosts RestoredUnlessConfigLost OkMeansSeeded
