\* Actors and directors added at the same time.
SPECIFICATION Spec
CONSTANTS
  Requests = {r1, r2, r3, r4}
  Loaded = Loaded
  Nobody = Nobody
  Genres = {}
  FirstIds = {2}
  MaxId = 6
  Pages = {"addActorDirector"}
  Failing = FALSE
  Dying = FALSE
INVARIANTS
  AddsSucceed
SYMMETRY Symmetry
CHECK_DEADLOCK FALSE
