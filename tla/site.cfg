\* Every page of the site, queries that fail, requests that die.
SPECIFICATION Spec
CONSTANTS
  Requests = {r1, r2, r3}
  Loaded = Loaded
  Nobody = Nobody
  Genres = {g1}
  FirstIds = {2}
  MaxId = 5
  Pages = {"addMovieInfo", "addActorDirector", "addMovieActor", "addMovieDirector", "addReview", "showMovieInfo"}
  Failing = TRUE
  Dying = TRUE
INVARIANTS
  TypeOK
  GenresAreTheMovies
  SubmittedIsThere
  CountIsCovered
PROPERTIES
  MovieCounterGrows
SYMMETRY Symmetry
CHECK_DEADLOCK FALSE
