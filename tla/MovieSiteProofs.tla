---------------------------- MODULE MovieSiteProofs ----------------------------
(***************************************************************************)
(* Proofs about MovieSite, for any number of requests, genres and ids,     *)
(* whatever queries fail and whichever requests die: a movie has only the  *)
(* genres of the request that added it, "Data submitted!" is true, the     *)
(* movie counter goes back only after a misread, and a page never counts   *)
(* more reviews than it lists.                                             *)
(***************************************************************************)
EXTENDS MovieSite, FiniteSetTheorems, WellFoundedInduction, TLAPS

(* A set of naturals that is not empty has a least element. *)
LEMMA LeastElementExists ==
  ASSUME NEW S \in SUBSET Nat, S # {}
  PROVE  \E i \in S : \A j \in S : i <= j
<1> DEFINE R == {ss \in Nat \X Nat : ss[1] < ss[2]}
<1>1. IsWellFoundedOn(R, Nat)
  BY NatLessThanWellFounded DEF OpToRel
<1>2. PICK i \in S : \A j \in S : <<j, i>> \notin R
  <2> HIDE DEF R
  <2> QED BY <1>1, WFMin
<1>3. \A j \in S : ~(j < i)
  BY <1>2
<1> QED BY <1>3

(* A set of integers that is not empty and has an upper bound has a        *)
(* greatest element.                                                       *)
LEMMA GreatestElementExists ==
  ASSUME NEW S \in SUBSET Int, S # {}, NEW top \in Int, \A k \in S : k <= top
  PROVE  \E g \in S : \A k \in S : k <= g
<1> DEFINE Gaps == {top - k : k \in S}
<1>1. Gaps \in SUBSET Nat /\ Gaps # {}
  <2>1. \A k \in S : top - k \in Nat
    OBVIOUS
  <2> QED BY <2>1
<1>2. PICK d \in Gaps : \A j \in Gaps : d <= j
  BY <1>1, LeastElementExists
<1>3. PICK g \in S : d = top - g
  BY <1>2
<1>4. \A k \in S : k <= g
  <2> TAKE k \in S
  <2>1. top - k \in Gaps
    OBVIOUS
  <2> HIDE DEF Gaps
  <2>2. top - g <= top - k
    BY <2>1, <1>2, <1>3
  <2> QED BY <2>2
<1> QED BY <1>4

-----------------------------------------------------------------------------
(* What a request remembers, by the page it is for *)

MovieReqs ==
  [undisturbed : BOOLEAN, page : {"addMovieInfo"},
   at : {"readMovieMax", "insertMovie", "genres", "submitted", "error", "dead"},
   max : Ids \cup {0}, genres : SUBSET Genres, todo : SUBSET Genres]

PersonReqs ==
  [undisturbed : BOOLEAN, page : {"addActorDirector"},
   at : {"readPersonMax", "insertActor", "insertDirector", "updatePerson", "submitted",
         "error", "dead"},
   max : Ids \cup {0}, identity : {"Actor", "Director", "Actor-Director"}]

LinkReqs ==
  [undisturbed : BOOLEAN, page : {"addMovieActor", "addMovieDirector"},
   at : {"searchPerson", "searchMovie", "insertLink", "submitted", "shown", "error", "dead"},
   person : Ids \cup {0}, movie : Ids \cup {0}]

ReviewReqs ==
  [undisturbed : BOOLEAN, page : {"addReview"},
   at : {"insertReview", "submitted", "error", "dead"}, movie : Ids]

ShowReqs ==
  [undisturbed : BOOLEAN, page : {"showMovieInfo"},
   at : {"showMovie", "showGenres", "showDirectors", "showActors", "showCount",
         "showReviews", "shown", "error", "dead"},
   movie : Ids, count : Nat, reviews : SUBSET [mid : Ids, by : Requests]]

Reqs == {Idle} \cup MovieReqs \cup PersonReqs \cup LinkReqs \cup ReviewReqs \cup ShowReqs

-----------------------------------------------------------------------------
(* The invariant *)

Mine(table, r) == NewId(r) \in Ids /\ table[NewId(r)] = r

(* A request that has inserted its movie still owns it, and the genres it  *)
(* has gone through are there.                                             *)
MovieRows(r) ==
  /\ req[r].at \in {"readMovieMax", "insertMovie"} => req[r].todo = req[r].genres
  /\ req[r].at \in {"genres", "submitted"} /\ req[r].page = "addMovieInfo" =>
       /\ Mine(Movie, r)
       /\ \A g \in req[r].genres \ req[r].todo :
            [mid |-> NewId(r), genre |-> g, by |-> r] \in MovieGenre
       /\ req[r].at = "submitted" => req[r].todo = {}

PersonRows(r) ==
  /\ req[r].at = "insertActor" => req[r].identity # "Director"
  /\ req[r].at = "insertDirector" =>
       /\ req[r].identity # "Actor"
       /\ req[r].identity = "Actor-Director" => Mine(Actor, r)
  /\ req[r].at \in {"updatePerson", "submitted"} /\ req[r].page = "addActorDirector" =>
       /\ req[r].identity # "Director" => Mine(Actor, r)
       /\ req[r].identity # "Actor" => Mine(Director, r)

LinkRows(r) ==
  /\ req[r].at \in {"searchMovie", "insertLink"} => req[r].person \in Ids
  /\ req[r].at = "insertLink" => req[r].movie \in Ids

ShowRows(r) ==
  /\ req[r].at \in {"showMovie", "showGenres", "showDirectors", "showActors", "showCount"} =>
       req[r].count = 0 /\ req[r].reviews = {}
  /\ req[r].at = "showReviews" => req[r].count <= Cardinality(ReviewsOf(req[r].movie))
  /\ req[r].at = "shown" /\ req[r].page = "showMovieInfo" =>
       req[r].count <= Cardinality(req[r].reviews)

ReviewRows(r) ==
  req[r].at = "submitted" /\ req[r].page = "addReview" =>
    /\ [mid |-> req[r].movie, by |-> r] \in Review
    /\ Movie[req[r].movie] # Nobody

RowsThere(r) == MovieRows(r) /\ PersonRows(r) /\ LinkRows(r) /\ ShowRows(r) /\ ReviewRows(r)

Typed == /\ TypeOK
         /\ req \in [Requests -> Reqs]
         /\ IsFiniteSet(Review)

(* As long as no misread number was written back: each number that the     *)
(* counter has reached belongs to a movie that is submitted, and no        *)
(* request has read a number that the counter has yet to reach.            *)
Trusted == ~ \E r \in Requests : /\ req[r].at = "submitted"
                                 /\ req[r].page = "addMovieInfo" /\ req[r].max = 0
Reached(i) == Movie[i] \in Requests /\ req[Movie[i]].at = "submitted"
Counting(r) == req[r].at \in {"insertMovie", "genres"} /\ req[r].max # 0 =>
                 req[r].max \in Largest(FirstIds) .. MaxMovieID
CounterOK == Trusted => /\ Largest(FirstIds) <= MaxMovieID
                        /\ \A i \in Largest(FirstIds) + 1 .. MaxMovieID : Reached(i)
                        /\ \A r \in Requests : Counting(r)

SiteInv == /\ Typed
           /\ \A r \in Requests : RowsThere(r)
           /\ GenresAreTheMovies
           /\ CounterOK

-----------------------------------------------------------------------------
(* Requests *)

LEMMA LargestProp ==
  /\ Largest(FirstIds) \in Ids
  /\ Largest(FirstIds) \in FirstIds
  /\ \A j \in FirstIds : j <= Largest(FirstIds)
<1>1. FirstIds # {} /\ FirstIds \subseteq 1 .. MaxId /\ MaxId \in Nat
  BY SiteAssumption
<1>2. FirstIds \in SUBSET Int /\ MaxId \in Int /\ \A j \in FirstIds : j <= MaxId
  BY <1>1
<1>3. \E i \in FirstIds : \A j \in FirstIds : j <= i
  BY <1>1, <1>2, GreatestElementExists
<1> QED BY <1>1, <1>3 DEF Largest, Ids

(* What another request's start does to one: it is no longer undisturbed. *)
Same(x, y) == y = x \/ (x.at # "idle" /\ y = [x EXCEPT !.undisturbed = FALSE])

LEMMA SameFields ==
  ASSUME NEW x \in Reqs, NEW y, Same(x, y)
  PROVE  /\ y \in Reqs /\ y.at = x.at /\ y.page = x.page
         /\ x \in MovieReqs \cup PersonReqs => y.max = x.max
         /\ x \in MovieReqs => y.genres = x.genres /\ y.todo = x.todo
         /\ x \in PersonReqs => y.identity = x.identity
         /\ x \in LinkReqs => y.person = x.person /\ y.movie = x.movie
         /\ x \in ShowReqs => y.movie = x.movie /\ y.count = x.count /\ y.reviews = x.reviews
         /\ x \in ReviewReqs => y.movie = x.movie
<1>1. CASE y = x
  BY <1>1
<1>2. CASE x.at # "idle" /\ y = [x EXCEPT !.undisturbed = FALSE]
  <2>0. x # Idle
    BY <1>2 DEF Idle
  <2>1. CASE x \in MovieReqs
    BY <1>2, <2>1 DEF MovieReqs, PersonReqs, LinkReqs, ReviewReqs, ShowReqs, Reqs
  <2>2. CASE x \in PersonReqs
    BY <1>2, <2>2 DEF MovieReqs, PersonReqs, LinkReqs, ReviewReqs, ShowReqs, Reqs
  <2>3. CASE x \in LinkReqs
    BY <1>2, <2>3 DEF MovieReqs, PersonReqs, LinkReqs, ReviewReqs, ShowReqs, Reqs
  <2>4. CASE x \in ReviewReqs
    BY <1>2, <2>4 DEF MovieReqs, PersonReqs, LinkReqs, ReviewReqs, ShowReqs, Reqs
  <2>5. CASE x \in ShowReqs
    BY <1>2, <2>5 DEF MovieReqs, PersonReqs, LinkReqs, ReviewReqs, ShowReqs, Reqs
  <2> QED BY <2>0, <2>1, <2>2, <2>3, <2>4, <2>5 DEF Reqs
<1> QED BY <1>1, <1>2 DEF Same

(* The page a request is for tells which variables it has, and so do the   *)
(* places that only one page has.                                          *)
LEMMA PageOf ==
  ASSUME NEW x \in Reqs, x.at # "idle"
  PROVE  /\ x.page = "addMovieInfo" <=> x \in MovieReqs
         /\ x.page = "addActorDirector" <=> x \in PersonReqs
         /\ x.page \in {"addMovieActor", "addMovieDirector"} <=> x \in LinkReqs
         /\ x.page = "addReview" <=> x \in ReviewReqs
         /\ x.page = "showMovieInfo" <=> x \in ShowReqs
         /\ x.at \in {"readMovieMax", "insertMovie", "genres"} => x \in MovieReqs
         /\ x.at \in {"readPersonMax", "insertActor", "insertDirector", "updatePerson"} =>
              x \in PersonReqs
         /\ x.at \in {"searchPerson", "searchMovie", "insertLink"} => x \in LinkReqs
         /\ x.at = "insertReview" => x \in ReviewReqs
         /\ x.at \in {"showMovie", "showGenres", "showDirectors", "showActors", "showCount",
                      "showReviews"} => x \in ShowReqs
<1>1. x # Idle
  BY DEF Idle
<1> QED BY <1>1 DEF Reqs, MovieReqs, PersonReqs, LinkReqs, ReviewReqs, ShowReqs

(* What the other requests may rely on while one of them takes a step *)
Kept == /\ \A i \in Ids : /\ Movie[i] # Nobody => Movie'[i] = Movie[i]
                          /\ Actor[i] # Nobody => Actor'[i] = Actor[i]
                          /\ Director[i] # Nobody => Director'[i] = Director[i]
        /\ MovieGenre \subseteq MovieGenre'
        /\ Review \subseteq Review'
        /\ IsFiniteSet(Review')

LEMMA MoreReviews ==
  ASSUME Kept, NEW i
  PROVE  Cardinality(ReviewsOf(i)) <= Cardinality(ReviewsOf(i)')
<1> DEFINE S == {v \in Review : v.mid = i}
           T == {v \in Review' : v.mid = i}
<1>1. S \subseteq T /\ T \subseteq Review'
  BY DEF Kept
<1>2. IsFiniteSet(T)
  BY <1>1, FS_Subset DEF Kept
<1>3. Cardinality(S) <= Cardinality(T)
  <2> HIDE DEF S, T
  <2> QED BY <1>1, <1>2, FS_Subset
<1> QED BY <1>3 DEF ReviewsOf

LEMMA OthersStay ==
  ASSUME Typed, Kept, NEW q \in Requests, RowsThere(q), Same(req[q], req'[q])
  PROVE  RowsThere(q)'
<1> DEFINE x == req[q]
           y == req'[q]
<1>1. x \in Reqs /\ q # Nobody
  BY SiteAssumption DEF Typed
<1>2. /\ y \in Reqs /\ y.at = x.at /\ y.page = x.page
      /\ x \in MovieReqs \cup PersonReqs => y.max = x.max
      /\ x \in MovieReqs => y.genres = x.genres /\ y.todo = x.todo
      /\ x \in PersonReqs => y.identity = x.identity
      /\ x \in LinkReqs => y.person = x.person /\ y.movie = x.movie
      /\ x \in ShowReqs => y.movie = x.movie /\ y.count = x.count /\ y.reviews = x.reviews
      /\ x \in ReviewReqs => y.movie = x.movie
  BY <1>1, SameFields
<1>3. CASE x.at = "idle"
  BY <1>2, <1>3 DEF RowsThere, MovieRows, PersonRows, LinkRows, ShowRows, ReviewRows
<1>4. ASSUME x \in MovieReqs \cup PersonReqs
      PROVE  /\ NewId(q)' = NewId(q)
             /\ Mine(Movie, q) => Mine(Movie, q)'
             /\ Mine(Actor, q) => Mine(Actor, q)'
             /\ Mine(Director, q) => Mine(Director, q)'
  BY <1>1, <1>2, <1>4 DEF Mine, NewId, Kept
<1>5. CASE x.at # "idle"
  <2>1. MovieRows(q)'
    <3>0. CASE x \notin MovieReqs
      <4>1. y.at \notin {"readMovieMax", "insertMovie"} /\ y.page # "addMovieInfo"
        BY <1>1, <1>2, <1>5, <3>0, PageOf
      <4> QED BY <4>1 DEF MovieRows
    <3>1. CASE x \in MovieReqs
      <4>1. y.at \in {"readMovieMax", "insertMovie"} => y.todo = y.genres
        BY <1>2, <3>1 DEF RowsThere, MovieRows
      <4>2. ASSUME y.at \in {"genres", "submitted"}, y.page = "addMovieInfo"
            PROVE  /\ Mine(Movie, q)'
                   /\ \A g \in y.genres \ y.todo :
                        [mid |-> NewId(q)', genre |-> g, by |-> q] \in MovieGenre'
                   /\ y.at = "submitted" => y.todo = {}
        <5>1. /\ Mine(Movie, q)
              /\ \A g \in x.genres \ x.todo :
                   [mid |-> NewId(q), genre |-> g, by |-> q] \in MovieGenre
              /\ x.at = "submitted" => x.todo = {}
          BY <1>2, <4>2 DEF RowsThere, MovieRows
        <5> QED BY <1>2, <1>4, <3>1, <5>1 DEF Kept
      <4> QED BY <4>1, <4>2 DEF MovieRows
    <3> QED BY <3>0, <3>1
  <2>2. PersonRows(q)'
    <3>1. CASE x \in PersonReqs
      BY <1>2, <1>4, <3>1 DEF RowsThere, PersonRows
    <3>2. CASE x \notin PersonReqs
      <4>1. /\ y.at \notin {"insertActor", "insertDirector", "updatePerson"}
            /\ y.page # "addActorDirector"
        BY <1>1, <1>2, <1>5, <3>2, PageOf
      <4> QED BY <4>1 DEF PersonRows
    <3> QED BY <3>1, <3>2
  <2>3. LinkRows(q)'
    <3>1. CASE x \in LinkReqs
      BY <1>2, <3>1 DEF RowsThere, LinkRows
    <3>2. CASE x \notin LinkReqs
      <4>1. y.at \notin {"searchMovie", "insertLink"}
        BY <1>1, <1>2, <1>5, <3>2, PageOf
      <4> QED BY <4>1 DEF LinkRows
    <3> QED BY <3>1, <3>2
  <2>4. ShowRows(q)'
    <3>1. CASE x \in ShowReqs
      <4>1. PICK m : m = x.movie
        OBVIOUS
      <4>2. /\ Cardinality(ReviewsOf(m)) <= Cardinality(ReviewsOf(m)')
            /\ Cardinality(ReviewsOf(m)) \in Nat /\ Cardinality(ReviewsOf(m)') \in Nat
            /\ x.count \in Nat
        <5>1. IsFiniteSet(ReviewsOf(m)) /\ IsFiniteSet(ReviewsOf(m)')
          BY FS_Subset DEF ReviewsOf, Typed, Kept
        <5> QED BY <5>1, <3>1, MoreReviews, FS_CardinalityType DEF ShowReqs
      <4>3. x.at = "showReviews" => x.count <= Cardinality(ReviewsOf(m)')
        BY <4>1, <4>2 DEF RowsThere, ShowRows
      <4>4. y.at = "showReviews" =>
              y.count <= Cardinality({v \in Review' : v.mid = y.movie})
        <5>1. {v \in Review' : v.mid = y.movie} = ReviewsOf(m)'
          BY <1>2, <3>1, <4>1 DEF ReviewsOf
        <5> QED BY <1>2, <3>1, <4>3, <5>1
      <4>5. /\ y.at \in {"showMovie", "showGenres", "showDirectors", "showActors", "showCount"} =>
                 y.count = 0 /\ y.reviews = {}
            /\ y.at = "shown" /\ y.page = "showMovieInfo" => y.count <= Cardinality(y.reviews)
        BY <1>2, <3>1 DEF RowsThere, ShowRows
      <4> QED BY <4>4, <4>5 DEF ShowRows, ReviewsOf
    <3>2. CASE x \notin ShowReqs
      <4>1. /\ y.at \notin {"showMovie", "showGenres", "showDirectors", "showActors",
                            "showCount", "showReviews"}
            /\ y.page # "showMovieInfo"
        BY <1>1, <1>2, <1>5, <3>2, PageOf
      <4> QED BY <4>1 DEF ShowRows
    <3> QED BY <3>1, <3>2
  <2>5. ReviewRows(q)'
    <3>1. CASE x \in ReviewReqs
      <4>1. x.at = "submitted" =>
              /\ [mid |-> x.movie, by |-> q] \in Review
              /\ Movie[x.movie] # Nobody
        BY <3>1 DEF RowsThere, ReviewRows, ReviewReqs
      <4>2. x.movie \in Ids /\ y.movie = x.movie
        BY <1>2, <3>1 DEF ReviewReqs
      <4>3. y.at = "submitted" =>
              /\ [mid |-> y.movie, by |-> q] \in Review'
              /\ Movie'[y.movie] # Nobody
        BY <1>2, <4>1, <4>2 DEF Kept
      <4> QED BY <4>3 DEF ReviewRows
    <3>2. CASE x \notin ReviewReqs
      <4>1. y.page # "addReview"
        BY <1>1, <1>2, <1>5, <3>2, PageOf
      <4> QED BY <4>1 DEF ReviewRows
    <3> QED BY <3>1, <3>2
  <2> QED BY <2>1, <2>2, <2>3, <2>4, <2>5 DEF RowsThere
<1> QED BY <1>3, <1>5

-----------------------------------------------------------------------------
(* What a step of a request leaves behind *)

Moves(r) == /\ req' \in [Requests -> Reqs]
            /\ \A q \in Requests \ {r} : Same(req[q], req'[q])

Fine(r) == /\ Moves(r)
           /\ Kept
           /\ TypeOK'
           /\ GenresAreTheMovies'
           /\ RowsThere(r)'

LEMMA OneMoves ==
  ASSUME Typed, NEW r \in Requests, NEW y \in Reqs, req' = [req EXCEPT ![r] = y]
  PROVE  Moves(r) /\ req'[r] = y
BY DEF Typed, Moves, Same

LEMMA OneStarts ==
  ASSUME Typed, NEW r \in Requests, NEW y \in Reqs, Starts(r, y)
  PROVE  Moves(r) /\ req'[r] = y
<1>1. ASSUME NEW q \in Requests, q # r
      PROVE  Same(req[q], req'[q]) /\ req'[q] \in Reqs
  <2>1. CASE q \in Running
    <3>1. req'[q] = [req[q] EXCEPT !.undisturbed = FALSE] /\ req[q].at # "idle"
      BY <1>1, <2>1 DEF Starts, Running
    <3>2. req[q] \in Reqs
      BY DEF Typed
    <3> QED BY <3>1, <3>2, SameFields DEF Same
  <2>2. CASE q \notin Running
    BY <1>1, <2>2 DEF Starts, Same, Typed
  <2> QED BY <2>1, <2>2
<1>2. req'[r] = y /\ DOMAIN req' = Requests
  <2>1. r \notin Running
    BY DEF Starts, Running
  <2> QED BY <2>1 DEF Starts
<1>3. req' = [q \in Requests |-> req'[q]]
  BY DEF Starts
<1> QED BY <1>1, <1>2, <1>3 DEF Moves

LEMMA SameTables ==
  ASSUME SiteInv, NEW r \in Requests, Moves(r), UNCHANGED tables
  PROVE  Kept /\ TypeOK' /\ GenresAreTheMovies'
<1>1. UNCHANGED <<Movie, Actor, Director, MovieGenre, MovieActor, MovieDirector, Review,
                  MaxMovieID, MaxPersonID>>
  BY DEF tables
<1>2. DOMAIN req' = Requests
  BY DEF Moves
<1> QED BY <1>1, <1>2 DEF SiteInv, Typed, Kept, TypeOK, GenresAreTheMovies

-----------------------------------------------------------------------------
(* A request starts, errs, or dies *)

LEMMA StartFine ==
  ASSUME SiteInv, NEW r \in Requests,
         \/ AddMovie(r) \/ AddPerson(r) \/ AddRole(r) \/ AddDirection(r)
         \/ AddReview(r) \/ ShowMovie(r)
  PROVE  /\ Fine(r) /\ UNCHANGED tables
         /\ req[r].at = "idle"
         /\ req'[r].at \notin {"submitted", "insertMovie", "genres"}
<1>1. Typed
  BY DEF SiteInv
<1>2. Alone \in BOOLEAN
  BY DEF Alone
<1>3. PICK y \in Reqs :
        /\ Starts(r, y)
        /\ y.at \notin {"submitted", "insertMovie", "genres", "insertActor", "insertDirector",
                        "updatePerson", "searchMovie", "insertLink", "showGenres",
                        "showDirectors", "showActors", "showCount", "showReviews", "shown"}
        /\ y.at = "showMovie" => y.count = 0 /\ y.reviews = {}
        /\ y.at = "readMovieMax" => y.todo = y.genres
  <2> HIDE DEF SiteInv
  <2>1. CASE AddMovie(r)
    <3>1. PICK G \in SUBSET Genres :
            Starts(r, [undisturbed |-> Alone, page |-> "addMovieInfo", at |-> "readMovieMax",
                       max |-> 0, genres |-> G, todo |-> G])
      BY <2>1 DEF AddMovie
    <3> DEFINE y == [undisturbed |-> Alone, page |-> "addMovieInfo", at |-> "readMovieMax",
                     max |-> 0, genres |-> G, todo |-> G]
    <3>2. y \in MovieReqs
      BY <1>2 DEF MovieReqs
    <3> QED BY <3>1, <3>2 DEF Reqs
  <2>2. CASE AddPerson(r)
    <3>1. PICK i \in {"Actor", "Director", "Actor-Director"} :
            Starts(r, [undisturbed |-> Alone, page |-> "addActorDirector",
                       at |-> "readPersonMax", max |-> 0, identity |-> i])
      BY <2>2 DEF AddPerson
    <3> DEFINE y == [undisturbed |-> Alone, page |-> "addActorDirector",
                     at |-> "readPersonMax", max |-> 0, identity |-> i]
    <3>2. y \in PersonReqs
      BY <1>2 DEF PersonReqs
    <3> QED BY <3>1, <3>2 DEF Reqs
  <2>3. CASE AddRole(r)
    <3> DEFINE y == [undisturbed |-> Alone, page |-> "addMovieActor",
                     at |-> "searchPerson", person |-> 0, movie |-> 0]
    <3>1. y \in LinkReqs
      BY <1>2 DEF LinkReqs
    <3> QED BY <2>3, <3>1 DEF Reqs, AddRole
  <2>4. CASE AddDirection(r)
    <3> DEFINE y == [undisturbed |-> Alone, page |-> "addMovieDirector",
                     at |-> "searchPerson", person |-> 0, movie |-> 0]
    <3>1. y \in LinkReqs
      BY <1>2 DEF LinkReqs
    <3> QED BY <2>4, <3>1 DEF Reqs, AddDirection
  <2>5. CASE AddReview(r)
    <3>1. PICK i \in Ids : Starts(r, [undisturbed |-> Alone, page |-> "addReview",
                                      at |-> "insertReview", movie |-> i])
      BY <2>5 DEF AddReview
    <3> DEFINE y == [undisturbed |-> Alone, page |-> "addReview",
                     at |-> "insertReview", movie |-> i]
    <3>2. y \in ReviewReqs
      BY <1>2 DEF ReviewReqs
    <3> QED BY <3>1, <3>2 DEF Reqs
  <2>6. CASE ShowMovie(r)
    <3>1. PICK i \in Ids : Starts(r, [undisturbed |-> Alone, page |-> "showMovieInfo",
                                      at |-> "showMovie", movie |-> i, count |-> 0,
                                      reviews |-> {}])
      BY <2>6 DEF ShowMovie
    <3> DEFINE y == [undisturbed |-> Alone, page |-> "showMovieInfo", at |-> "showMovie",
                     movie |-> i, count |-> 0, reviews |-> {}]
    <3>2. y \in ShowReqs
      BY <1>2 DEF ShowReqs
    <3> QED BY <3>1, <3>2 DEF Reqs
  <2> QED BY <2>1, <2>2, <2>3, <2>4, <2>5, <2>6
<1>4. Moves(r) /\ req'[r] = y
  BY <1>1, <1>3, OneStarts
<1>5. UNCHANGED tables
  BY DEF AddMovie, AddPerson, AddRole, AddDirection, AddReview, ShowMovie
<1>6. RowsThere(r)'
  BY <1>3, <1>4 DEF RowsThere, MovieRows, PersonRows, LinkRows, ShowRows, ReviewRows
<1> QED BY <1>3, <1>4, <1>5, <1>6, SameTables DEF Fine, Starts

(* A request that is over, not having been answered with success *)
LEMMA OverFine ==
  ASSUME SiteInv, NEW r \in Requests, req[r].at # "idle",
         (\E own \in BOOLEAN : Error(r, own)) \/ Goes(r, "dead")
  PROVE  Moves(r) /\ RowsThere(r)' /\ req'[r].at \in {"error", "dead"}
<1> DEFINE x == req[r]
<1>1. x \in Reqs /\ x # Idle /\ Typed
  BY DEF SiteInv, Typed, Idle
<1>2. PICK y \in Reqs : req' = [req EXCEPT ![r] = y] /\ y.at \in {"error", "dead"}
  <2>1. CASE Goes(r, "dead")
    <3> DEFINE y == [x EXCEPT !.at = "dead"]
    <3>1. y \in Reqs /\ y.at = "dead"
      BY <1>1 DEF Reqs, MovieReqs, PersonReqs, LinkReqs, ReviewReqs, ShowReqs
    <3> QED BY <2>1, <3>1 DEF Goes
  <2>2. ASSUME NEW own \in BOOLEAN, Error(r, own)
        PROVE  \E y \in Reqs : req' = [req EXCEPT ![r] = y] /\ y.at \in {"error", "dead"}
    <3> DEFINE u == x.undisturbed /\ own
               y == [x EXCEPT !.at = "error", !.undisturbed = u]
    <3>1. u \in BOOLEAN
      OBVIOUS
    <3>2. y \in Reqs /\ y.at = "error"
      <4> HIDE DEF u
      <4> QED BY <1>1, <3>1 DEF Reqs, MovieReqs, PersonReqs, LinkReqs, ReviewReqs, ShowReqs
    <3>3. req' = [req EXCEPT ![r] = y]
      BY <2>2 DEF Error
    <3> QED BY <3>2, <3>3
  <2> QED BY <2>1, <2>2
<1>3. Moves(r) /\ req'[r] = y
  BY <1>1, <1>2, OneMoves
<1>4. RowsThere(r)'
  BY <1>2, <1>3 DEF RowsThere, MovieRows, PersonRows, LinkRows, ShowRows, ReviewRows
<1> QED BY <1>2, <1>3, <1>4

-----------------------------------------------------------------------------
(* addMovieInfo.php *)

LEMMA MovieFine ==
  ASSUME SiteInv, NEW r \in Requests,
         ReadMovieMax(r) \/ InsertMovie(r) \/ InsertGenre(r) \/ SubmitMovie(r)
  PROVE  Fine(r)
<1> DEFINE x == req[r]
<1>1. Typed /\ x \in Reqs /\ r # Nobody /\ MaxId \in Nat
  BY SiteAssumption DEF SiteInv, Typed
<1>2. x \in MovieReqs /\ x.at # "idle"
  BY <1>1, PageOf DEF ReadMovieMax, InsertMovie, InsertGenre, SubmitMovie
<1>3. MovieRows(r)
  BY DEF SiteInv, RowsThere
<1>4. ASSUME NEW y \in MovieReqs, req' = [req EXCEPT ![r] = y], MovieRows(r)'
      PROVE  Moves(r) /\ RowsThere(r)'
  <2>1. Moves(r) /\ req'[r] = y
    BY <1>1, <1>4, OneMoves DEF Reqs
  <2>2. PersonRows(r)' /\ LinkRows(r)' /\ ShowRows(r)' /\ ReviewRows(r)'
    BY <2>1, <1>4 DEF PersonRows, LinkRows, ShowRows, ReviewRows, MovieReqs
  <2> QED BY <2>1, <2>2, <1>4 DEF RowsThere
<1>5. CASE ReadMovieMax(r)
  <2>1. PICK m \in Ids \cup {0}, u \in BOOLEAN :
          req' = [req EXCEPT ![r] = [x EXCEPT !.at = "insertMovie", !.max = m,
                                              !.undisturbed = u]]
    <3>1. x = [x EXCEPT !.undisturbed = x.undisturbed] /\ x.undisturbed \in BOOLEAN
      BY <1>2 DEF MovieReqs
    <3>2. MaxMovieID \in Ids
      BY <1>1 DEF Typed, TypeOK
    <3>3. CASE req' = [req EXCEPT ![r].at = "insertMovie", ![r].max = MaxMovieID]
      <4>1. req' = [req EXCEPT ![r] = [x EXCEPT !.at = "insertMovie", !.max = MaxMovieID]]
        BY <3>3
      <4>2. [x EXCEPT !.at = "insertMovie", !.max = MaxMovieID] =
              [x EXCEPT !.at = "insertMovie", !.max = MaxMovieID,
                        !.undisturbed = x.undisturbed]
        BY <1>2 DEF MovieReqs
      <4> QED BY <4>1, <4>2, <3>1, <3>2
    <3>4. CASE req' = [req EXCEPT ![r].at = "insertMovie", ![r].max = 0,
                                  ![r].undisturbed = FALSE]
      BY <3>4
    <3> QED BY <1>5, <3>3, <3>4 DEF ReadMovieMax, ReadCounter
  <2> DEFINE y == [x EXCEPT !.at = "insertMovie", !.max = m, !.undisturbed = u]
  <2>2. y \in MovieReqs /\ y.at = "insertMovie"
    BY <1>2 DEF MovieReqs
  <2>3. MovieRows(r)'
    <3>1. x.at = "readMovieMax" /\ x.todo = x.genres
      BY <1>3, <1>5 DEF MovieRows, ReadMovieMax
    <3>2. y.todo = x.todo /\ y.genres = x.genres /\ req'[r] = y
      BY <2>1, <1>1, <1>2 DEF MovieReqs, Typed
    <3> QED BY <2>2, <3>1, <3>2 DEF MovieRows
  <2>4. UNCHANGED tables
    BY <1>5 DEF ReadMovieMax
  <2> QED BY <2>1, <2>2, <2>3, <2>4, <1>4, SameTables DEF Fine
<1>6. CASE InsertMovie(r)
  <2>1. CASE Error(r, Movie[NewId(r)] # Nobody) /\ UNCHANGED Movie
    <3>1. UNCHANGED tables
      BY <1>6, <2>1 DEF InsertMovie, tables
    <3> QED BY <2>1, <3>1, <1>2, OverFine, SameTables DEF Fine
  <2>2. CASE /\ Movie[NewId(r)] = Nobody
             /\ Movie' = [Movie EXCEPT ![NewId(r)] = r]
             /\ Goes(r, "genres")
    <3> DEFINE y == [x EXCEPT !.at = "genres"]
               i == NewId(r)
    <3>1. y \in MovieReqs /\ y.at = "genres" /\ y.max = x.max
          /\ y.genres = x.genres /\ y.todo = x.todo
      BY <1>2 DEF MovieReqs
    <3>2. req' = [req EXCEPT ![r] = y]
      BY <2>2 DEF Goes
    <3>3. /\ i \in Ids /\ Movie \in [Ids -> Owners]
          /\ UNCHANGED <<Actor, Director, MovieGenre, MovieActor, MovieDirector, Review,
                         MaxMovieID, MaxPersonID>>
      BY <1>1, <1>6 DEF InsertMovie, InBounds, Typed, TypeOK
    <3>4. /\ Movie' \in [Ids -> Owners] /\ Movie'[i] = r
          /\ \A j \in Ids : Movie[j] # Nobody => Movie'[j] = Movie[j]
      BY <2>2, <3>3 DEF Owners
    <3>5. Kept /\ TypeOK' /\ GenresAreTheMovies'
      <4>1. DOMAIN req' = Requests
        BY <3>2, <1>1 DEF Typed
      <4>2. \A g \in MovieGenre : g.mid \in Ids /\ g.by # Nobody
        BY <1>1, SiteAssumption DEF Typed, TypeOK
      <4> QED BY <3>3, <3>4, <4>1, <4>2, <1>1
           DEF SiteInv, Typed, TypeOK, Kept, GenresAreTheMovies
    <3>6. MovieRows(r)'
      <4>1. NewId(r)' = i /\ req'[r] = y
        BY <3>1, <3>2, <1>1 DEF NewId, Typed
      <4>2. Mine(Movie, r)'
        BY <4>1, <3>3, <3>4 DEF Mine
      <4>3. y.todo = y.genres
        BY <1>3, <1>6, <3>1 DEF MovieRows, InsertMovie
      <4> QED BY <4>1, <4>2, <4>3, <3>1 DEF MovieRows
    <3> QED BY <3>1, <3>2, <3>5, <3>6, <1>4 DEF Fine
  <2> QED BY <1>6, <2>1, <2>2 DEF InsertMovie
<1>7. CASE InsertGenre(r)
  <2> DEFINE i == NewId(r)
  <2>1. /\ Mine(Movie, r)
        /\ \A g \in x.genres \ x.todo : [mid |-> i, genre |-> g, by |-> r] \in MovieGenre
        /\ x.at = "genres" /\ i \in Ids /\ Movie[i] = r
    BY <1>2, <1>3, <1>7 DEF MovieRows, InsertGenre, MovieReqs, Mine
  <2>2. CASE Error(r, FALSE) /\ UNCHANGED MovieGenre
    <3>1. UNCHANGED tables
      BY <1>7, <2>2 DEF InsertGenre, tables
    <3> QED BY <2>2, <3>1, <1>2, OverFine, SameTables DEF Fine
  <2>3. ASSUME NEW g \in x.todo,
               MovieGenre' = MovieGenre \cup {[mid |-> i, genre |-> g, by |-> r]},
               req' = [req EXCEPT ![r].todo = @ \ {g}]
        PROVE  Fine(r)
    <3> DEFINE y == [x EXCEPT !.todo = @ \ {g}]
    <3>1. y \in MovieReqs /\ y.at = x.at /\ y.max = x.max /\ y.genres = x.genres
          /\ y.todo = x.todo \ {g} /\ g \in Genres
      BY <1>2, <2>3 DEF MovieReqs
    <3>2. req' = [req EXCEPT ![r] = y]
      BY <2>3
    <3>3. UNCHANGED <<Movie, Actor, Director, MovieActor, MovieDirector, Review,
                      MaxMovieID, MaxPersonID>>
      BY <1>7 DEF InsertGenre
    <3>4. Kept /\ TypeOK' /\ GenresAreTheMovies'
      <4>1. DOMAIN req' = Requests
        BY <3>2, <1>1 DEF Typed
      <4> QED BY <2>1, <2>3, <3>1, <3>3, <4>1, <1>1
           DEF SiteInv, Typed, TypeOK, Kept, GenresAreTheMovies
    <3>5. MovieRows(r)'
      <4>1. NewId(r)' = i /\ req'[r] = y
        BY <3>1, <3>2, <1>1 DEF NewId, Typed
      <4>2. Mine(Movie, r)'
        BY <4>1, <2>1, <3>3 DEF Mine
      <4>3. ASSUME NEW h \in y.genres \ y.todo
            PROVE  [mid |-> i, genre |-> h, by |-> r] \in MovieGenre'
        BY <2>1, <2>3, <3>1, <4>3
      <4> QED BY <2>1, <3>1, <4>1, <4>2, <4>3 DEF MovieRows
    <3> QED BY <3>1, <3>2, <3>4, <3>5, <1>4 DEF Fine
  <2> QED BY <1>7, <2>2, <2>3 DEF InsertGenre
<1>8. CASE SubmitMovie(r)
  <2> DEFINE i == NewId(r)
  <2>1. /\ Mine(Movie, r)
        /\ \A g \in x.genres \ x.todo : [mid |-> i, genre |-> g, by |-> r] \in MovieGenre
        /\ x.at = "genres" /\ x.todo = {} /\ i \in Ids /\ Movie[i] = r
    BY <1>2, <1>3, <1>8 DEF MovieRows, SubmitMovie, MovieReqs, Mine
  <2>2. PICK u \in BOOLEAN :
          req' = [req EXCEPT ![r] = [x EXCEPT !.at = "submitted", !.undisturbed = u]]
    <3>1. CASE Goes(r, "submitted")
      <4>1. req' = [req EXCEPT ![r] = [x EXCEPT !.at = "submitted"]]
        BY <3>1 DEF Goes
      <4>2. [x EXCEPT !.at = "submitted"] =
              [x EXCEPT !.at = "submitted", !.undisturbed = x.undisturbed]
        BY <1>2 DEF MovieReqs
      <4>3. x.undisturbed \in BOOLEAN
        BY <1>2 DEF MovieReqs
      <4> QED BY <4>1, <4>2, <4>3
    <3>2. CASE req' = [req EXCEPT ![r].at = "submitted", ![r].undisturbed = FALSE]
      BY <3>2
    <3> QED BY <1>8, <3>1, <3>2 DEF SubmitMovie, Updated
  <2>3. MaxMovieID' \in Ids
    BY <1>1, <1>8, <2>1 DEF SubmitMovie, Updated, Typed, TypeOK
  <2> DEFINE y == [x EXCEPT !.at = "submitted", !.undisturbed = u]
  <2>4. y \in MovieReqs /\ y.at = "submitted" /\ y.max = x.max /\ y.genres = x.genres
        /\ y.todo = x.todo
    BY <1>2 DEF MovieReqs
  <2>5. UNCHANGED <<Movie, Actor, Director, MovieGenre, MovieActor, MovieDirector, Review,
                    MaxPersonID>>
    BY <1>8 DEF SubmitMovie
  <2>6. Kept /\ TypeOK' /\ GenresAreTheMovies'
    <3>1. DOMAIN req' = Requests
      BY <2>2, <1>1 DEF Typed
    <3> QED BY <2>3, <2>5, <3>1, <1>1 DEF SiteInv, Typed, TypeOK, Kept, GenresAreTheMovies
  <2>7. MovieRows(r)'
    <3>1. NewId(r)' = i /\ req'[r] = y
      BY <2>2, <2>4, <1>1 DEF NewId, Typed
    <3>2. Mine(Movie, r)'
      BY <3>1, <2>1, <2>5 DEF Mine
    <3> QED BY <2>1, <2>4, <2>5, <3>1, <3>2 DEF MovieRows
  <2> QED BY <2>2, <2>4, <2>6, <2>7, <1>4 DEF Fine
<1> QED BY <1>5, <1>6, <1>7, <1>8

-----------------------------------------------------------------------------
(* addActorDirector.php *)

LEMMA PersonFine ==
  ASSUME SiteInv, NEW r \in Requests,
         ReadPersonMax(r) \/ InsertActor(r) \/ InsertDirector(r) \/ SubmitPerson(r)
  PROVE  Fine(r)
<1> DEFINE x == req[r]
           i == NewId(r)
<1>1. Typed /\ x \in Reqs /\ r # Nobody /\ MaxId \in Nat
  BY SiteAssumption DEF SiteInv, Typed
<1>2. x \in PersonReqs /\ x.at # "idle"
  BY <1>1, PageOf DEF ReadPersonMax, InsertActor, InsertDirector, SubmitPerson
<1>3. PersonRows(r)
  BY DEF SiteInv, RowsThere
<1>4. ASSUME NEW y \in PersonReqs, req' = [req EXCEPT ![r] = y], PersonRows(r)'
      PROVE  Moves(r) /\ RowsThere(r)'
  <2>1. Moves(r) /\ req'[r] = y
    BY <1>1, <1>4, OneMoves DEF Reqs
  <2>2. MovieRows(r)' /\ LinkRows(r)' /\ ShowRows(r)' /\ ReviewRows(r)'
    BY <2>1, <1>4 DEF MovieRows, LinkRows, ShowRows, ReviewRows, PersonReqs
  <2> QED BY <2>1, <2>2, <1>4 DEF RowsThere
<1>5. ASSUME NEW a, Goes(r, a)
      PROVE  req' = [req EXCEPT ![r] = [x EXCEPT !.at = a, !.undisturbed = x.undisturbed]]
  <2>1. req' = [req EXCEPT ![r] = [x EXCEPT !.at = a]]
    BY <1>5 DEF Goes
  <2>2. [x EXCEPT !.at = a] = [x EXCEPT !.at = a, !.undisturbed = x.undisturbed]
    BY <1>2 DEF PersonReqs
  <2> QED BY <2>1, <2>2
<1>6. ASSUME NEW a \in {"insertDirector", "updatePerson", "submitted"}, NEW u \in BOOLEAN,
             req' = [req EXCEPT ![r] = [x EXCEPT !.at = a, !.undisturbed = u]]
      PROVE  /\ [x EXCEPT !.at = a, !.undisturbed = u] \in PersonReqs
             /\ req'[r].at = a /\ req'[r].identity = x.identity
             /\ req'[r].page = "addActorDirector"
             /\ NewId(r)' = i /\ DOMAIN req' = Requests
  BY <1>1, <1>2, <1>6 DEF Typed, PersonReqs, NewId
<1>7. CASE ReadPersonMax(r)
  <2> DEFINE a == IF x.identity = "Director" THEN "insertDirector" ELSE "insertActor"
  <2>1. PICK m \in Ids \cup {0}, u \in BOOLEAN :
          req' = [req EXCEPT ![r] = [x EXCEPT !.at = a, !.max = m, !.undisturbed = u]]
    <3>1. x.undisturbed \in BOOLEAN
      BY <1>2 DEF PersonReqs
    <3>2. MaxPersonID \in Ids
      BY <1>1 DEF Typed, TypeOK
    <3>3. CASE req' = [req EXCEPT ![r].at = a, ![r].max = MaxPersonID]
      <4>1. req' = [req EXCEPT ![r] = [x EXCEPT !.at = a, !.max = MaxPersonID]]
        BY <3>3
      <4>2. [x EXCEPT !.at = a, !.max = MaxPersonID] =
              [x EXCEPT !.at = a, !.max = MaxPersonID, !.undisturbed = x.undisturbed]
        BY <1>2 DEF PersonReqs
      <4> QED BY <4>1, <4>2, <3>1, <3>2
    <3>4. CASE req' = [req EXCEPT ![r].at = a, ![r].max = 0, ![r].undisturbed = FALSE]
      BY <3>4
    <3> QED BY <1>7, <3>3, <3>4 DEF ReadPersonMax, ReadCounter
  <2> DEFINE y == [x EXCEPT !.at = a, !.max = m, !.undisturbed = u]
  <2>2. y \in PersonReqs /\ y.at = a /\ y.identity = x.identity /\ req'[r] = y
    BY <1>1, <1>2, <2>1 DEF PersonReqs, Typed
  <2>3. PersonRows(r)'
    <3>1. x.identity \in {"Actor", "Director", "Actor-Director"}
      BY <1>2 DEF PersonReqs
    <3>2. CASE x.identity = "Director"
      BY <2>2, <3>2 DEF PersonRows
    <3>3. CASE x.identity # "Director"
      BY <2>2, <3>3 DEF PersonRows
    <3> QED BY <3>2, <3>3
  <2>4. UNCHANGED tables
    BY <1>7 DEF ReadPersonMax
  <2> QED BY <2>1, <2>2, <2>3, <2>4, <1>4, SameTables DEF Fine
<1>8. CASE InsertActor(r)
  <2>1. CASE Error(r, Actor[i] # Nobody) /\ UNCHANGED Actor
    <3>1. UNCHANGED tables
      BY <1>8, <2>1 DEF InsertActor, tables
    <3> QED BY <2>1, <3>1, <1>2, OverFine, SameTables DEF Fine
  <2>2. CASE /\ Actor[i] = Nobody /\ Actor' = [Actor EXCEPT ![i] = r]
             /\ Goes(r, IF x.identity = "Actor-Director" THEN "insertDirector"
                                                         ELSE "updatePerson")
    <3> DEFINE a == IF x.identity = "Actor-Director" THEN "insertDirector" ELSE "updatePerson"
               u == x.undisturbed
               y == [x EXCEPT !.at = a, !.undisturbed = u]
    <3>1. req' = [req EXCEPT ![r] = y] /\ u \in BOOLEAN /\ a \in {"insertDirector", "updatePerson"}
      BY <1>2, <1>5, <2>2 DEF PersonReqs
    <3>2. /\ y \in PersonReqs /\ req'[r].at = a /\ req'[r].identity = x.identity
          /\ req'[r].page = "addActorDirector" /\ NewId(r)' = i /\ DOMAIN req' = Requests
      BY <3>1, <1>6
    <3>3. /\ i \in Ids /\ Actor \in [Ids -> Owners]
          /\ UNCHANGED <<Movie, Director, MovieGenre, MovieActor, MovieDirector, Review,
                         MaxMovieID, MaxPersonID>>
      BY <1>1, <1>8 DEF InsertActor, InBounds, Typed, TypeOK
    <3>4. /\ Actor' \in [Ids -> Owners] /\ Actor'[i] = r
          /\ \A j \in Ids : Actor[j] # Nobody => Actor'[j] = Actor[j]
      BY <2>2, <3>3 DEF Owners
    <3>5. Kept /\ TypeOK' /\ GenresAreTheMovies'
      BY <3>2, <3>3, <3>4, <1>1 DEF SiteInv, Typed, TypeOK, Kept, GenresAreTheMovies
    <3>6. PersonRows(r)'
      <4>1. Mine(Actor, r)'
        BY <3>2, <3>3, <3>4 DEF Mine
      <4>2. x.identity \in {"Actor", "Actor-Director"}
        BY <1>2, <1>3, <1>8 DEF PersonRows, InsertActor, PersonReqs
      <4>3. CASE x.identity = "Actor"
        BY <3>2, <4>1, <4>3 DEF PersonRows
      <4>4. CASE x.identity = "Actor-Director"
        BY <3>2, <4>1, <4>4 DEF PersonRows
      <4> QED BY <4>2, <4>3, <4>4
    <3> QED BY <3>1, <3>2, <3>5, <3>6, <1>4 DEF Fine
  <2> QED BY <1>8, <2>1, <2>2 DEF InsertActor
<1>9. CASE InsertDirector(r)
  <2>1. CASE Error(r, Director[i] # Nobody) /\ UNCHANGED Director
    <3>1. UNCHANGED tables
      BY <1>9, <2>1 DEF InsertDirector, tables
    <3> QED BY <2>1, <3>1, <1>2, OverFine, SameTables DEF Fine
  <2>2. CASE /\ Director[i] = Nobody /\ Director' = [Director EXCEPT ![i] = r]
             /\ Goes(r, "updatePerson")
    <3> DEFINE u == x.undisturbed
               y == [x EXCEPT !.at = "updatePerson", !.undisturbed = u]
    <3>1. req' = [req EXCEPT ![r] = y] /\ u \in BOOLEAN
      BY <1>2, <1>5, <2>2 DEF PersonReqs
    <3>2. /\ y \in PersonReqs /\ req'[r].at = "updatePerson" /\ req'[r].identity = x.identity
          /\ req'[r].page = "addActorDirector" /\ NewId(r)' = i /\ DOMAIN req' = Requests
      BY <3>1, <1>6
    <3>3. /\ i \in Ids /\ Director \in [Ids -> Owners]
          /\ UNCHANGED <<Movie, Actor, MovieGenre, MovieActor, MovieDirector, Review,
                         MaxMovieID, MaxPersonID>>
      BY <1>1, <1>9 DEF InsertDirector, InBounds, Typed, TypeOK
    <3>4. /\ Director' \in [Ids -> Owners] /\ Director'[i] = r
          /\ \A j \in Ids : Director[j] # Nobody => Director'[j] = Director[j]
      BY <2>2, <3>3 DEF Owners
    <3>5. Kept /\ TypeOK' /\ GenresAreTheMovies'
      BY <3>2, <3>3, <3>4, <1>1 DEF SiteInv, Typed, TypeOK, Kept, GenresAreTheMovies
    <3>6. PersonRows(r)'
      <4>1. Mine(Director, r)'
        BY <3>2, <3>3, <3>4 DEF Mine
      <4>2. x.identity = "Actor-Director" => Mine(Actor, r)'
        BY <1>3, <1>9, <3>2, <3>3 DEF PersonRows, InsertDirector, Mine
      <4>3. x.identity \in {"Director", "Actor-Director"}
        BY <1>2, <1>3, <1>9 DEF PersonRows, InsertDirector, PersonReqs
      <4> QED BY <3>2, <4>1, <4>2, <4>3 DEF PersonRows
    <3> QED BY <3>1, <3>2, <3>5, <3>6, <1>4 DEF Fine
  <2> QED BY <1>9, <2>1, <2>2 DEF InsertDirector
<1>10. CASE SubmitPerson(r)
  <2>1. PICK u \in BOOLEAN :
          req' = [req EXCEPT ![r] = [x EXCEPT !.at = "submitted", !.undisturbed = u]]
    <3>1. CASE Goes(r, "submitted")
      BY <3>1, <1>2, <1>5 DEF PersonReqs
    <3>2. CASE req' = [req EXCEPT ![r].at = "submitted", ![r].undisturbed = FALSE]
      BY <3>2
    <3> QED BY <1>10, <3>1, <3>2 DEF SubmitPerson, Updated
  <2> DEFINE y == [x EXCEPT !.at = "submitted", !.undisturbed = u]
  <2>2. /\ y \in PersonReqs /\ req'[r].at = "submitted" /\ req'[r].identity = x.identity
        /\ req'[r].page = "addActorDirector" /\ NewId(r)' = i /\ DOMAIN req' = Requests
    BY <2>1, <1>6
  <2>3. /\ x.identity # "Director" => Mine(Actor, r)
        /\ x.identity # "Actor" => Mine(Director, r)
    BY <1>2, <1>3, <1>10 DEF PersonRows, SubmitPerson, PersonReqs
  <2>4. MaxPersonID' \in Ids
    <3>1. i \in Ids
      BY <1>2, <2>3 DEF PersonReqs, Mine
    <3> QED BY <3>1, <1>1, <1>10 DEF SubmitPerson, Updated, Typed, TypeOK
  <2>5. UNCHANGED <<Movie, Actor, Director, MovieGenre, MovieActor, MovieDirector, Review,
                    MaxMovieID>>
    BY <1>10 DEF SubmitPerson
  <2>6. Kept /\ TypeOK' /\ GenresAreTheMovies'
    BY <2>2, <2>4, <2>5, <1>1 DEF SiteInv, Typed, TypeOK, Kept, GenresAreTheMovies
  <2>7. PersonRows(r)'
    BY <2>2, <2>3, <2>5 DEF PersonRows, Mine
  <2> QED BY <2>1, <2>2, <2>6, <2>7, <1>4 DEF Fine
<1> QED BY <1>7, <1>8, <1>9, <1>10

-----------------------------------------------------------------------------
(* addMovieActor.php, addMovieDirector.php *)

LEMMA LinkFine ==
  ASSUME SiteInv, NEW r \in Requests,
         SearchPerson(r) \/ SearchMovie(r) \/ InsertRole(r) \/ InsertDirection(r)
  PROVE  Fine(r)
<1> DEFINE x == req[r]
<1>1. Typed /\ x \in Reqs
  BY DEF SiteInv, Typed
<1>2. x \in LinkReqs /\ x.at # "idle"
  BY <1>1, PageOf DEF SearchPerson, SearchMovie, InsertRole, InsertDirection
<1>3. LinkRows(r)
  BY DEF SiteInv, RowsThere
<1>4. ASSUME NEW y \in LinkReqs, req' = [req EXCEPT ![r] = y],
             y.at \in {"searchMovie", "insertLink"} => y.person \in Ids,
             y.at = "insertLink" => y.movie \in Ids
      PROVE  Moves(r) /\ RowsThere(r)' /\ DOMAIN req' = Requests
  <2>1. Moves(r) /\ req'[r] = y
    BY <1>1, <1>4, OneMoves DEF Reqs
  <2>2. MovieRows(r)' /\ PersonRows(r)' /\ LinkRows(r)' /\ ShowRows(r)' /\ ReviewRows(r)'
    BY <2>1, <1>4 DEF MovieRows, PersonRows, LinkRows, ShowRows, ReviewRows, LinkReqs
  <2> QED BY <2>1, <2>2, <1>1, <1>4 DEF RowsThere, Typed
<1>5. ASSUME NEW a \in {"shown", "submitted"}, Goes(r, a)
      PROVE  Moves(r) /\ RowsThere(r)' /\ DOMAIN req' = Requests
  <2> DEFINE y == [x EXCEPT !.at = a]
  <2>1. y \in LinkReqs /\ y.at = a
    BY <1>2, <1>5 DEF LinkReqs
  <2>2. req' = [req EXCEPT ![r] = y]
    BY <1>5 DEF Goes
  <2> QED BY <2>1, <2>2, <1>4
<1>6. CASE SearchPerson(r) \/ SearchMovie(r)
  <2>1. UNCHANGED tables
    BY <1>6 DEF SearchPerson, SearchMovie
  <2>2. Moves(r) /\ RowsThere(r)'
    <3>1. CASE Goes(r, "shown")
      BY <3>1, <1>5
    <3>2. CASE Error(r, FALSE)
      BY <3>2, <1>2, OverFine
    <3>3. ASSUME NEW i \in Ids, x.at = "searchPerson",
                 req' = [req EXCEPT ![r].at = "searchMovie", ![r].person = i]
          PROVE  Moves(r) /\ RowsThere(r)'
      <4> DEFINE y == [x EXCEPT !.at = "searchMovie", !.person = i]
      <4>1. y \in LinkReqs /\ y.at = "searchMovie" /\ y.person = i
        BY <1>2 DEF LinkReqs
      <4>2. req' = [req EXCEPT ![r] = y]
        BY <3>3
      <4> QED BY <4>1, <4>2, <1>4
    <3>4. ASSUME NEW i \in Ids, x.at = "searchMovie",
                 req' = [req EXCEPT ![r].at = "insertLink", ![r].movie = i]
          PROVE  Moves(r) /\ RowsThere(r)'
      <4> DEFINE y == [x EXCEPT !.at = "insertLink", !.movie = i]
      <4>1. y \in LinkReqs /\ y.at = "insertLink" /\ y.movie = i /\ y.person = x.person
        BY <1>2 DEF LinkReqs
      <4>2. req' = [req EXCEPT ![r] = y]
        BY <3>4
      <4>3. x.person \in Ids
        BY <1>3, <3>4 DEF LinkRows
      <4> QED BY <4>1, <4>2, <4>3, <1>4
    <3> QED BY <1>6, <3>1, <3>2, <3>3, <3>4 DEF SearchPerson, SearchMovie, IdsIn
  <2> QED BY <2>1, <2>2, SameTables DEF Fine
<1>7. CASE InsertRole(r) \/ InsertDirection(r)
  <2>1. x.person \in Ids /\ x.movie \in Ids
    BY <1>3, <1>7 DEF LinkRows, InsertRole, InsertDirection
  <2>2. CASE (\E own \in BOOLEAN : Error(r, own)) /\ UNCHANGED <<MovieActor, MovieDirector>>
    <3>1. UNCHANGED tables
      BY <1>7, <2>2 DEF InsertRole, InsertDirection, tables
    <3> QED BY <2>2, <3>1, <1>2, OverFine, SameTables DEF Fine
  <2>3. CASE Goes(r, "submitted")
    <3>1. Moves(r) /\ RowsThere(r)' /\ DOMAIN req' = Requests
      BY <2>3, <1>5
    <3>2. UNCHANGED <<Movie, Actor, Director, MovieGenre, Review, MaxMovieID, MaxPersonID>>
      BY <1>7 DEF InsertRole, InsertDirection
    <3>3. MovieActor' \subseteq [mid : Ids, aid : Ids, by : Requests]
      <4> DEFINE row == [mid |-> x.movie, aid |-> x.person, by |-> r]
      <4>1. MovieActor' = MovieActor \/ MovieActor' = MovieActor \cup {row}
        <5> HIDE DEF row
        <5>1. CASE InsertRole(r)
          BY <5>1 DEF InsertRole, row
        <5>2. CASE InsertDirection(r)
          BY <5>2 DEF InsertDirection
        <5> QED BY <1>7, <5>1, <5>2
      <4>2. row \in [mid : Ids, aid : Ids, by : Requests]
        BY <2>1
      <4> QED BY <4>1, <4>2, <1>1 DEF Typed, TypeOK
    <3>4. MovieDirector' \subseteq [mid : Ids, did : Ids]
      <4> DEFINE row == [mid |-> x.movie, did |-> x.person]
      <4>1. MovieDirector' = MovieDirector \/ MovieDirector' = MovieDirector \cup {row}
        <5>1. CASE InsertRole(r)
          BY <5>1 DEF InsertRole
        <5>2. CASE InsertDirection(r)
          BY <5>2 DEF InsertDirection
        <5> QED BY <1>7, <5>1, <5>2
      <4>2. row \in [mid : Ids, did : Ids]
        BY <2>1
      <4> QED BY <4>1, <4>2, <1>1 DEF Typed, TypeOK
    <3>5. Kept /\ TypeOK' /\ GenresAreTheMovies'
      BY <3>1, <3>2, <3>3, <3>4, <1>1 DEF SiteInv, Typed, TypeOK, Kept, GenresAreTheMovies
    <3> QED BY <3>1, <3>5 DEF Fine
  <2>4. CASE InsertRole(r)
    BY <2>2, <2>3, <2>4 DEF InsertRole
  <2>5. CASE InsertDirection(r)
    <3> DEFINE own == [mid |-> x.movie, did |-> x.person] \in MovieDirector
    <3>1. own \in BOOLEAN
      OBVIOUS
    <3>2. \/ Goes(r, "submitted")
          \/ Error(r, own) /\ UNCHANGED <<MovieActor, MovieDirector>>
      BY <2>5 DEF InsertDirection
    <3> HIDE DEF own
    <3> QED BY <2>2, <2>3, <3>1, <3>2
  <2> QED BY <1>7, <2>4, <2>5
<1> QED BY <1>6, <1>7

-----------------------------------------------------------------------------
(* addReview.php, showMovieInfo.php *)

LEMMA ReviewFine ==
  ASSUME SiteInv, NEW r \in Requests, InsertReview(r)
  PROVE  Fine(r)
<1> DEFINE x == req[r]
           m == x.movie
<1>1. Typed /\ x \in Reqs
  BY DEF SiteInv, Typed
<1>2. x \in ReviewReqs /\ x.at # "idle"
  BY <1>1, PageOf DEF InsertReview
<1>3. CASE Error(r, Movie[m] = Nobody) /\ UNCHANGED Review
  <2>1. UNCHANGED tables
    BY <1>3 DEF InsertReview, tables
  <2> QED BY <1>3, <2>1, <1>2, OverFine, SameTables DEF Fine
<1>4. CASE /\ Movie[m] # Nobody
           /\ Review' = Review \cup {[mid |-> m, by |-> r]} /\ Goes(r, "submitted")
  <2> DEFINE y == [x EXCEPT !.at = "submitted"]
  <2>1. y \in ReviewReqs /\ y.at = "submitted" /\ y.page = "addReview" /\ m \in Ids
    BY <1>2 DEF ReviewReqs
  <2>2. req' = [req EXCEPT ![r] = y]
    BY <1>4 DEF Goes
  <2>3. Moves(r) /\ req'[r] = y
    BY <2>1, <2>2, <1>1, OneMoves DEF Reqs
  <2>4. UNCHANGED <<Movie, Actor, Director, MovieGenre, MovieActor, MovieDirector,
                    MaxMovieID, MaxPersonID>>
    BY DEF InsertReview
  <2>5. RowsThere(r)'
    <3>1. MovieRows(r)' /\ PersonRows(r)' /\ LinkRows(r)' /\ ShowRows(r)'
      BY <2>1, <2>3 DEF MovieRows, PersonRows, LinkRows, ShowRows
    <3>2. y.movie = m /\ [mid |-> m, by |-> r] \in Review' /\ Movie'[m] # Nobody
      BY <1>2, <1>4, <2>4 DEF ReviewReqs
    <3>3. ReviewRows(r)'
      BY <2>3, <3>2 DEF ReviewRows
    <3> QED BY <3>1, <3>3 DEF RowsThere
  <2>6. IsFiniteSet(Review')
    BY <1>1, <1>4, FS_AddElement DEF Typed
  <2>7. Kept /\ TypeOK' /\ GenresAreTheMovies'
    BY <1>1, <1>4, <2>1, <2>3, <2>4, <2>6
       DEF SiteInv, Typed, TypeOK, Kept, GenresAreTheMovies, Moves
  <2> QED BY <2>3, <2>5, <2>7 DEF Fine
<1> QED BY <1>3, <1>4 DEF InsertReview

LEMMA ShowFine ==
  ASSUME SiteInv, NEW r \in Requests, Show(r)
  PROVE  Fine(r)
<1> DEFINE x == req[r]
           R == ReviewsOf(x.movie)
<1>1. Typed /\ x \in Reqs /\ UNCHANGED tables
  BY DEF SiteInv, Typed, Show
<1>2. x \in ShowReqs /\ x.at # "idle"
  BY <1>1, PageOf DEF Show
<1>3. /\ IsFiniteSet(R) /\ Cardinality(R) \in Nat /\ Cardinality({}) = 0
      /\ R \in SUBSET [mid : Ids, by : Requests]
  BY <1>1, FS_Subset, FS_CardinalityType, FS_EmptySet DEF Typed, TypeOK, ReviewsOf
<1>4. ShowRows(r)
  BY DEF SiteInv, RowsThere
<1> HIDE DEF R
<1>5. ASSUME NEW y \in ShowReqs, req' = [req EXCEPT ![r] = y], y.movie = x.movie,
             y.at \in {"showGenres", "showDirectors", "showActors", "showCount"} =>
               y.count = 0 /\ y.reviews = {},
             y.at = "showReviews" => y.count <= Cardinality(R),
             y.at = "shown" => y.count <= Cardinality(y.reviews),
             y.at # "showMovie"
      PROVE  Moves(r) /\ RowsThere(r)'
  <2>1. Moves(r) /\ req'[r] = y
    BY <1>1, <1>5, OneMoves DEF Reqs
  <2>2. MovieRows(r)' /\ PersonRows(r)' /\ LinkRows(r)' /\ ReviewRows(r)'
    BY <2>1, <1>5 DEF MovieRows, PersonRows, LinkRows, ReviewRows, ShowReqs
  <2>3. y.at = "showReviews" => y.count <= Cardinality({v \in Review' : v.mid = y.movie})
    <3>1. {v \in Review' : v.mid = y.movie} = R
      BY <1>1, <1>5 DEF R, ReviewsOf, tables
    <3> QED BY <3>1, <1>5
  <2>4. ShowRows(r)'
    BY <2>1, <2>3, <1>5 DEF ShowRows, ReviewsOf
  <2> QED BY <2>1, <2>2, <2>4 DEF RowsThere
<1>6. CASE x.at = "showMovie" /\ Goes(r, "shown")
  <2> DEFINE y == [x EXCEPT !.at = "shown"]
  <2>1. y \in ShowReqs /\ y.movie = x.movie /\ y.at = "shown"
        /\ y.count = x.count /\ y.reviews = x.reviews
    BY <1>2 DEF ShowReqs
  <2>2. req' = [req EXCEPT ![r] = y]
    BY <1>6 DEF Goes
  <2>3. y.count = 0 /\ y.reviews = {}
    BY <2>1, <1>4, <1>6 DEF ShowRows
  <2>4. y.count <= Cardinality(y.reviews)
    BY <2>3, <1>3
  <2>5. Moves(r) /\ RowsThere(r)'
    BY <2>1, <2>2, <2>4, <1>5
  <2> QED BY <1>1, <2>5, SameTables DEF Fine
<1>7. CASE Error(r, FALSE)
  BY <1>1, <1>2, <1>7, OverFine, SameTables DEF Fine
<1>8. CASE req' = [req EXCEPT ![r].at = AfterShown(@),
                     ![r].count = IF x.at = "showCount" THEN Cardinality(R) ELSE @,
                     ![r].reviews = IF x.at = "showReviews" THEN R ELSE @]
  <2> DEFINE c == IF x.at = "showCount" THEN Cardinality(R) ELSE x.count
             v == IF x.at = "showReviews" THEN R ELSE x.reviews
             y == [x EXCEPT !.at = AfterShown(x.at), !.count = c, !.reviews = v]
  <2>1. req' = [req EXCEPT ![r] = y]
    BY <1>8
  <2>2. /\ AfterShown(x.at) \in {"showGenres", "showDirectors", "showActors", "showCount",
                                "showReviews", "shown"}
        /\ AfterShown(x.at) = "showReviews" <=> x.at = "showCount"
        /\ AfterShown(x.at) = "shown" <=> x.at = "showReviews"
    BY DEF AfterShown, Show
  <2>3. c \in Nat /\ v \in SUBSET [mid : Ids, by : Requests]
    BY <1>2, <1>3 DEF ShowReqs
  <2>4. /\ y \in ShowReqs /\ y.movie = x.movie /\ y.at = AfterShown(x.at)
        /\ y.count = c /\ y.reviews = v
    <3> HIDE DEF c, v
    <3> QED BY <1>2, <2>2, <2>3 DEF ShowReqs
  <2>5. y.at \in {"showGenres", "showDirectors", "showActors", "showCount"} =>
          y.count = 0 /\ y.reviews = {}
    <3> SUFFICES ASSUME AfterShown(x.at) \notin {"showReviews", "shown"}
                 PROVE  c = 0 /\ v = {}
      BY <2>4
    <3>1. x.at \in {"showMovie", "showGenres", "showDirectors", "showActors"}
      BY <2>2 DEF Show
    <3> QED BY <3>1, <1>4 DEF ShowRows
  <2>6. y.at = "showReviews" => y.count <= Cardinality(R)
    BY <2>2, <2>4, <1>3
  <2>7. y.at = "shown" => y.count <= Cardinality(y.reviews)
    BY <2>2, <2>4, <1>4 DEF ShowRows, R
  <2>8. Moves(r) /\ RowsThere(r)'
    BY <2>1, <2>2, <2>4, <2>5, <2>6, <2>7, <1>5
  <2> QED BY <1>1, <2>8, SameTables DEF Fine
<1> QED BY <1>6, <1>7, <1>8 DEF Show, R

LEMMA DieFine ==
  ASSUME SiteInv, NEW r \in Requests, Die(r)
  PROVE  Fine(r)
<1>1. req[r].at # "idle" /\ UNCHANGED tables /\ Goes(r, "dead")
  BY DEF Die, Running
<1> QED BY <1>1, OverFine, SameTables DEF Fine

-----------------------------------------------------------------------------
(* The counter of movies *)

(* A request that owns its movie and has yet to write the counter read the *)
(* number that the counter still has.                                      *)
LEMMA SubmitCounts ==
  ASSUME SiteInv, Trusted, NEW r \in Requests, SubmitMovie(r), req[r].max # 0,
         MaxMovieID' # MaxMovieID
  PROVE  NewId(r) = MaxMovieID + 1 /\ MaxMovieID' = NewId(r)
<1> DEFINE x == req[r]
           i == NewId(r)
           top == Largest(FirstIds)
<1>1. x \in MovieReqs /\ x.at = "genres" /\ Typed
  <2>1. x \in Reqs /\ x.at = "genres" /\ Typed
    BY DEF SiteInv, Typed, SubmitMovie
  <2> QED BY <2>1, PageOf
<1>2. Mine(Movie, r)
  BY <1>1 DEF SiteInv, RowsThere, MovieRows, MovieReqs
<1>3. /\ \A j \in top + 1 .. MaxMovieID : Reached(j)
      /\ x.max \in top .. MaxMovieID
  BY <1>1 DEF SiteInv, CounterOK, Counting
<1>4. MaxMovieID' = i
  BY DEF SubmitMovie, Updated
<1>5. top \in Int /\ MaxMovieID \in Int /\ x.max \in Int
  BY <1>1, LargestProp DEF Ids, Typed, TypeOK, MovieReqs
<1>6. ~Reached(i)
  BY <1>1, <1>2 DEF Reached, Mine
<1>7. i = x.max + 1
  BY DEF NewId
<1> HIDE DEF x, i, top
<1>8. i \notin top + 1 .. MaxMovieID
  BY <1>3, <1>6
<1> QED BY <1>3, <1>4, <1>5, <1>7, <1>8 DEF i

LEMMA CounterStep ==
  ASSUME SiteInv, NEW r \in Requests, Fine(r), req[r].at # "submitted",
         \/ MaxMovieID' = MaxMovieID /\ (Trusted => Counting(r)')
         \/ SubmitMovie(r) /\ req'[r].at = "submitted"
                           /\ req'[r].page = "addMovieInfo" /\ req'[r].max = req[r].max
  PROVE  CounterOK'
<1> DEFINE top == Largest(FirstIds)
<1>1. Typed /\ MaxMovieID \in Int /\ top \in Int
  BY LargestProp DEF SiteInv, Typed, TypeOK, Ids
<1>2. ASSUME NEW q \in Requests, q # r
      PROVE  /\ req'[q].at = req[q].at /\ req'[q].page = req[q].page
             /\ req[q].at # "idle" /\ req[q].page = "addMovieInfo" => req'[q].max = req[q].max
             /\ req[q].at \in {"insertMovie", "genres"} => req'[q].max = req[q].max
  <2>1. req[q] \in Reqs /\ Same(req[q], req'[q])
    BY <1>1, <1>2 DEF Typed, Fine, Moves
  <2>2. req[q].at # "idle" /\ req[q].page = "addMovieInfo" => req[q] \in MovieReqs
    BY <2>1, PageOf
  <2>3. req[q].at \in {"insertMovie", "genres"} => req[q] \in MovieReqs
    BY <2>1, PageOf
  <2> QED BY <2>1, <2>2, <2>3, SameFields
<1>3. SUFFICES ASSUME Trusted'
               PROVE  /\ top <= MaxMovieID'
                      /\ \A j \in top + 1 .. MaxMovieID' : Reached(j)'
                      /\ \A q \in Requests : Counting(q)'
  BY DEF CounterOK
<1>4. Trusted
  <2> SUFFICES ASSUME NEW q \in Requests, req[q].at = "submitted",
                      req[q].page = "addMovieInfo", req[q].max = 0
               PROVE  FALSE
    BY DEF Trusted
  <2>1. q # r
    OBVIOUS
  <2>2. req'[q].at = "submitted" /\ req'[q].page = "addMovieInfo" /\ req'[q].max = 0
    BY <2>1, <1>2
  <2> QED BY <2>2, <1>3 DEF Trusted
<1>5. /\ top <= MaxMovieID
      /\ \A j \in top + 1 .. MaxMovieID : Reached(j)
      /\ \A q \in Requests : Counting(q)
  BY <1>4 DEF SiteInv, CounterOK
<1>6. ASSUME NEW j \in Ids, Reached(j) PROVE Reached(j)'
  <2>1. Movie[j] \in Requests /\ Movie[j] # r /\ req[Movie[j]].at = "submitted"
    BY <1>6 DEF Reached
  <2>2. Movie[j] # Nobody
    BY <2>1, SiteAssumption
  <2>3. Movie'[j] = Movie[j]
    BY <2>2 DEF Fine, Kept
  <2> QED BY <2>1, <2>3, <1>2 DEF Reached
<1>7. \A j \in top + 1 .. MaxMovieID : j \in Ids
  BY <1>1, LargestProp, SiteAssumption DEF Typed, TypeOK, Ids
<1>8. ASSUME NEW q \in Requests, q # r PROVE Counting(q) /\ MaxMovieID' >= MaxMovieID /\
                                             MaxMovieID' \in Int => Counting(q)'
  <2> SUFFICES ASSUME req[q].at \in {"insertMovie", "genres"}, req[q].max # 0,
                      req[q].max \in top .. MaxMovieID,
                      MaxMovieID' >= MaxMovieID, MaxMovieID' \in Int
               PROVE  req[q].max \in top .. MaxMovieID'
    BY <1>2, <1>8 DEF Counting
  <2> QED BY <1>1
<1>9. CASE MaxMovieID' = MaxMovieID /\ (Trusted => Counting(r)')
  <2>1. \A j \in top + 1 .. MaxMovieID' : Reached(j)'
    BY <1>5, <1>6, <1>7, <1>9
  <2>2. \A q \in Requests : Counting(q)'
    <3> TAKE q \in Requests
    <3>1. CASE q = r
      BY <3>1, <1>4, <1>9
    <3>2. CASE q # r
      BY <3>2, <1>1, <1>5, <1>8, <1>9
    <3> QED BY <3>1, <3>2
  <2> QED BY <2>1, <2>2, <1>5, <1>9
<1>10. CASE /\ SubmitMovie(r) /\ req'[r].at = "submitted" /\ req'[r].page = "addMovieInfo"
            /\ req'[r].max = req[r].max
  <2>1. req[r].max # 0 /\ Counting(r)'
    BY <1>3, <1>10 DEF Trusted, Counting
  <2>2. CASE MaxMovieID' = MaxMovieID
    BY <2>1, <2>2, <1>9
  <2>3. CASE MaxMovieID' # MaxMovieID
    <3>1. NewId(r) = MaxMovieID + 1 /\ MaxMovieID' = MaxMovieID + 1
      BY <2>1, <2>3, <1>4, <1>10, SubmitCounts
    <3>2. \A k : k = MaxMovieID + 1 => Reached(k)'
      <4>1. req[r] \in Reqs /\ req[r].at = "genres"
        BY <1>1, <1>10 DEF Typed, SubmitMovie
      <4>2. req[r] \in MovieReqs
        BY <4>1, PageOf
      <4>3. Mine(Movie, r)
        BY <4>1, <4>2 DEF SiteInv, RowsThere, MovieRows, MovieReqs
      <4>4. Movie'[MaxMovieID + 1] = r
        BY <3>1, <4>3, <1>10 DEF Mine, SubmitMovie
      <4> TAKE k
      <4>5. k = MaxMovieID + 1 => Movie'[k] = r
        BY <4>4
      <4> QED BY <4>5, <1>10 DEF Reached
    <3>3. \A j \in top + 1 .. MaxMovieID' : Reached(j)'
      <4> TAKE j \in top + 1 .. MaxMovieID'
      <4>1. j \in top + 1 .. MaxMovieID \/ j = MaxMovieID + 1
        BY <3>1, <1>1
      <4>2. CASE j \in top + 1 .. MaxMovieID
        BY <4>2, <1>5, <1>6, <1>7
      <4>3. CASE j = MaxMovieID + 1
        BY <4>3, <3>2
      <4> QED BY <4>1, <4>2, <4>3
    <3>4. \A q \in Requests : Counting(q)'
      <4> TAKE q \in Requests
      <4>1. MaxMovieID' >= MaxMovieID /\ MaxMovieID' \in Int
        BY <3>1, <1>1
      <4>2. CASE q = r
        BY <4>2, <2>1
      <4>3. CASE q # r
        BY <4>1, <4>3, <1>5, <1>8
      <4> QED BY <4>2, <4>3
    <3> QED BY <3>1, <3>3, <3>4, <1>1, <1>5
  <2> QED BY <2>2, <2>3
<1> QED BY <1>9, <1>10

(* What the steps that do not write the counter do to it: nothing. *)
LEMMA CounterFine ==
  ASSUME SiteInv, NEW r \in Requests, Fine(r),
         \/ AddMovie(r) \/ ReadMovieMax(r) \/ InsertMovie(r) \/ InsertGenre(r) \/ SubmitMovie(r)
         \/ AddPerson(r) \/ ReadPersonMax(r) \/ InsertActor(r) \/ InsertDirector(r)
         \/ SubmitPerson(r)
         \/ AddRole(r) \/ AddDirection(r) \/ SearchPerson(r) \/ SearchMovie(r)
         \/ InsertRole(r) \/ InsertDirection(r) \/ AddReview(r) \/ InsertReview(r)
         \/ ShowMovie(r) \/ Show(r) \/ Die(r)
  PROVE  CounterOK' /\ (SubmitMovie(r) \/ MaxMovieID' = MaxMovieID)
<1> DEFINE x == req[r]
<1>1. Typed /\ x \in Reqs /\ r \in DOMAIN req
  BY DEF SiteInv, Typed
<1>2. CASE AddMovie(r) \/ AddPerson(r) \/ AddRole(r) \/ AddDirection(r) \/ AddReview(r)
           \/ ShowMovie(r)
  <2>1. /\ x.at = "idle" /\ MaxMovieID' = MaxMovieID
        /\ req'[r].at \notin {"submitted", "insertMovie", "genres"}
    BY <1>2, StartFine DEF tables
  <2> QED BY <2>1, CounterStep DEF Counting
<1>3. ASSUME x.at # "submitted", MaxMovieID' = MaxMovieID,
             req'[r].at \notin {"insertMovie", "genres"}
      PROVE  CounterOK'
  BY <1>3, CounterStep DEF Counting
<1>4. ASSUME NEW a, Goes(r, a) PROVE req'[r].at = a
  <2>1. req' = [req EXCEPT ![r] = [x EXCEPT !.at = a]]
    BY <1>4 DEF Goes
  <2>2. [x EXCEPT !.at = a].at = a
    BY <1>1 DEF Reqs, Idle, MovieReqs, PersonReqs, LinkReqs, ReviewReqs, ShowReqs
  <2> QED BY <2>1, <2>2, <1>1
<1>5. ASSUME NEW own, x.at # "idle", Error(r, own) PROVE req'[r].at = "error"
  <2> DEFINE y == [x EXCEPT !.at = "error", !.undisturbed = x.undisturbed /\ own]
  <2>1. req' = [req EXCEPT ![r] = y]
    BY <1>5 DEF Error
  <2>2. y.at = "error"
    BY <1>1, <1>5 DEF Reqs, Idle, MovieReqs, PersonReqs, LinkReqs, ReviewReqs, ShowReqs
  <2> QED BY <2>1, <2>2, <1>1
<1>6. CASE ReadMovieMax(r)
  <2>1. x \in MovieReqs /\ x.at = "readMovieMax" /\ MaxMovieID' = MaxMovieID
    BY <1>1, <1>6, PageOf DEF ReadMovieMax, tables
  <2>2. req'[r].at = "insertMovie" /\ req'[r].max \in {MaxMovieID, 0}
    BY <1>1, <1>6, <2>1 DEF ReadMovieMax, ReadCounter, MovieReqs
  <2>3. Trusted => Counting(r)'
    <3>1. MaxMovieID \in Int /\ Largest(FirstIds) \in Int
      BY <1>1, LargestProp DEF Typed, TypeOK, Ids
    <3> QED BY <2>1, <2>2, <3>1 DEF Counting, SiteInv, CounterOK
  <2> QED BY <2>1, <2>3, CounterStep
<1>7. CASE InsertMovie(r) \/ InsertGenre(r)
  <2>1. /\ x \in MovieReqs /\ x.at \in {"insertMovie", "genres"}
        /\ MaxMovieID' = MaxMovieID
    BY <1>1, <1>7, PageOf DEF InsertMovie, InsertGenre
  <2>2. CASE \E own : Error(r, own)
    BY <1>3, <1>5, <2>1, <2>2
  <2>3. CASE ~ \E own : Error(r, own)
    <3>1. req'[r].max = x.max
      <4>1. CASE InsertMovie(r)
        BY <1>1, <2>1, <2>3, <4>1 DEF InsertMovie, Goes, MovieReqs
      <4>2. CASE InsertGenre(r)
        BY <1>1, <2>1, <2>3, <4>2 DEF InsertGenre, MovieReqs
      <4> QED BY <1>7, <4>1, <4>2
    <3>2. Trusted => Counting(r)'
      BY <2>1, <3>1 DEF Counting, SiteInv, CounterOK
    <3> QED BY <2>1, <3>2, CounterStep
  <2> QED BY <2>2, <2>3
<1>8. CASE SubmitMovie(r)
  <2>1. x \in MovieReqs /\ x.at = "genres"
    BY <1>1, <1>8, PageOf DEF SubmitMovie
  <2>2. req'[r].at = "submitted" /\ req'[r].page = "addMovieInfo" /\ req'[r].max = x.max
    BY <1>1, <1>8, <2>1 DEF SubmitMovie, Updated, Goes, MovieReqs
  <2> QED BY <1>8, <2>1, <2>2, CounterStep
<1>9. CASE ReadPersonMax(r)
  <2>1. x \in PersonReqs /\ x.at = "readPersonMax" /\ MaxMovieID' = MaxMovieID
    BY <1>1, <1>9, PageOf DEF ReadPersonMax, tables
  <2>2. req'[r].at \in {"insertDirector", "insertActor"}
    BY <1>1, <1>9, <2>1 DEF ReadPersonMax, ReadCounter, PersonReqs
  <2> QED BY <1>3, <2>1, <2>2
<1>10. CASE InsertActor(r) \/ InsertDirector(r) \/ SubmitPerson(r)
  <2>1. /\ x \in PersonReqs /\ MaxMovieID' = MaxMovieID
        /\ x.at \in {"insertActor", "insertDirector", "updatePerson"}
    BY <1>1, <1>10, PageOf DEF InsertActor, InsertDirector, SubmitPerson
  <2>2. req'[r].at \in {"insertDirector", "updatePerson", "submitted", "error"}
    <3>1. CASE InsertActor(r)
      BY <3>1, <1>4, <1>5, <2>1 DEF InsertActor
    <3>2. CASE InsertDirector(r)
      BY <3>2, <1>4, <1>5, <2>1 DEF InsertDirector
    <3>3. CASE SubmitPerson(r)
      <4>1. Goes(r, "submitted") \/ req' = [req EXCEPT ![r].at = "submitted",
                                                       ![r].undisturbed = FALSE]
        BY <3>3 DEF SubmitPerson, Updated
      <4> QED BY <1>1, <1>4, <2>1, <4>1 DEF PersonReqs
    <3> QED BY <1>10, <3>1, <3>2, <3>3
  <2> QED BY <1>3, <2>1, <2>2
<1>11. CASE SearchPerson(r) \/ SearchMovie(r) \/ InsertRole(r) \/ InsertDirection(r)
  <2>1. /\ x \in LinkReqs /\ MaxMovieID' = MaxMovieID
        /\ x.at \in {"searchPerson", "searchMovie", "insertLink"}
    BY <1>1, <1>11, PageOf DEF SearchPerson, SearchMovie, InsertRole, InsertDirection, tables
  <2>2. req'[r].at \in {"searchMovie", "insertLink", "submitted", "shown", "error"}
    <3>1. CASE SearchPerson(r)
      BY <3>1, <1>1, <1>4, <1>5, <2>1 DEF SearchPerson, LinkReqs
    <3>2. CASE SearchMovie(r)
      BY <3>2, <1>1, <1>4, <1>5, <2>1 DEF SearchMovie, LinkReqs
    <3>3. CASE InsertRole(r) \/ InsertDirection(r)
      BY <3>3, <1>4, <1>5, <2>1 DEF InsertRole, InsertDirection
    <3> QED BY <1>11, <3>1, <3>2, <3>3
  <2> QED BY <1>3, <2>1, <2>2
<1>12. CASE InsertReview(r)
  BY <1>3, <1>4, <1>5, <1>12 DEF InsertReview
<1>13. CASE Show(r)
  <2>1. x \in ShowReqs /\ MaxMovieID' = MaxMovieID /\ x.at # "submitted" /\ x.at # "idle"
    BY <1>1, <1>13, PageOf DEF Show, tables
  <2>2. req'[r].at \notin {"insertMovie", "genres"}
    <3>1. CASE \/ Goes(r, "shown")
               \/ \E own : Error(r, own)
      BY <3>1, <1>4, <1>5, <2>1
    <3>2. CASE ~ \/ Goes(r, "shown")
                 \/ \E own : Error(r, own)
      <4> DEFINE c == IF x.at = "showCount" THEN Cardinality(ReviewsOf(x.movie)) ELSE x.count
                 v == IF x.at = "showReviews" THEN ReviewsOf(x.movie) ELSE x.reviews
                 y == [x EXCEPT !.at = AfterShown(x.at), !.count = c, !.reviews = v]
      <4>1. req' = [req EXCEPT ![r] = y]
        <5>1. /\ ~ \E own : Error(r, own)
              /\ ~ Goes(r, "shown")
          BY <3>2
        <5> QED BY <5>1, <1>13 DEF Show
      <4>3. req'[r].at = AfterShown(x.at)
        BY <4>1, <1>1, <2>1 DEF ShowReqs
      <4>2. x.at \in {"showMovie", "showGenres", "showDirectors", "showActors", "showCount",
                      "showReviews"}
        BY <1>13 DEF Show
      <4> QED BY <4>2, <4>3 DEF AfterShown
    <3> QED BY <3>1, <3>2
  <2> QED BY <1>3, <2>1, <2>2
<1>14. CASE Die(r)
  <2>1. /\ x.at \notin {"idle", "submitted"} /\ MaxMovieID' = MaxMovieID
        /\ req'[r].at = "dead"
    BY <1>4, <1>14 DEF Die, Running, tables
  <2> QED BY <1>3, <2>1
<1> QED BY <1>2, <1>6, <1>7, <1>8, <1>9, <1>10, <1>11, <1>12, <1>13, <1>14

-----------------------------------------------------------------------------
(* The invariant holds *)

LEMMA SiteInvInit == Init => SiteInv
<1> SUFFICES ASSUME Init PROVE SiteInv
  OBVIOUS
<1>1. Largest(FirstIds) \in Ids /\ Loaded \in Owners /\ Nobody \in Owners
  BY LargestProp DEF Owners
<1>2. req = [r \in Requests |-> Idle] /\ Idle \in Reqs /\ Idle.at = "idle"
  BY DEF Init, Idle, Reqs
<1>3. Typed
  BY <1>1, <1>2, FS_EmptySet DEF Init, Typed, TypeOK
<1>4. \A r \in Requests : RowsThere(r)
  BY <1>2 DEF RowsThere, MovieRows, PersonRows, LinkRows, ShowRows, ReviewRows
<1>5. GenresAreTheMovies
  BY DEF Init, GenresAreTheMovies
<1>6. CounterOK
  <2>1. Largest(FirstIds) \in Int /\ MaxMovieID = Largest(FirstIds)
    BY <1>1 DEF Init, Ids
  <2>2. \A r \in Requests : Counting(r)
    BY <1>2 DEF Counting
  <2>3. Largest(FirstIds) + 1 .. MaxMovieID = {}
    BY <2>1
  <2> QED BY <2>1, <2>2, <2>3 DEF CounterOK
<1> QED BY <1>3, <1>4, <1>5, <1>6 DEF SiteInv

LEMMA StepFine ==
  ASSUME SiteInv, NEW r \in Requests,
         \/ AddMovie(r) \/ ReadMovieMax(r) \/ InsertMovie(r) \/ InsertGenre(r) \/ SubmitMovie(r)
         \/ AddPerson(r) \/ ReadPersonMax(r) \/ InsertActor(r) \/ InsertDirector(r)
         \/ SubmitPerson(r)
         \/ AddRole(r) \/ AddDirection(r) \/ SearchPerson(r) \/ SearchMovie(r)
         \/ InsertRole(r) \/ InsertDirection(r) \/ AddReview(r) \/ InsertReview(r)
         \/ ShowMovie(r) \/ Show(r) \/ Die(r)
  PROVE  Fine(r)
<1>1. CASE ReadMovieMax(r) \/ InsertMovie(r) \/ InsertGenre(r) \/ SubmitMovie(r)
  BY <1>1, MovieFine
<1>2. CASE ReadPersonMax(r) \/ InsertActor(r) \/ InsertDirector(r) \/ SubmitPerson(r)
  BY <1>2, PersonFine
<1>3. CASE SearchPerson(r) \/ SearchMovie(r) \/ InsertRole(r) \/ InsertDirection(r)
  BY <1>3, LinkFine
<1>4. CASE InsertReview(r)
  BY <1>4, ReviewFine
<1>5. CASE Show(r)
  BY <1>5, ShowFine
<1>6. CASE \/ AddMovie(r) \/ AddPerson(r) \/ AddRole(r) \/ AddDirection(r)
           \/ AddReview(r) \/ ShowMovie(r)
  BY <1>6, StartFine
<1>7. CASE Die(r)
  BY <1>7, DieFine
<1> QED BY <1>1, <1>2, <1>3, <1>4, <1>5, <1>6, <1>7

LEMMA SiteInvNext == SiteInv /\ [Next]_vars => SiteInv'
<1> SUFFICES ASSUME SiteInv, [Next]_vars PROVE SiteInv'
  OBVIOUS
<1>1. CASE UNCHANGED vars
  BY <1>1 DEF SiteInv, Typed, TypeOK, GenresAreTheMovies, CounterOK, Trusted, Reached,
              Counting, RowsThere, MovieRows, PersonRows, LinkRows, ShowRows, ReviewRows, Mine, NewId,
              ReviewsOf, vars, tables
<1>2. CASE Next
  <2>1. PICK r \in Requests : Fine(r) /\ CounterOK'
    BY <1>2, StepFine, CounterFine DEF Next
  <2>2. Typed'
    BY <2>1 DEF Fine, Moves, Kept, Typed
  <2>3. \A q \in Requests : RowsThere(q)'
    <3> TAKE q \in Requests
    <3>1. CASE q = r
      BY <2>1, <3>1 DEF Fine
    <3>2. CASE q # r
      <4>1. Typed /\ Kept /\ RowsThere(q) /\ Same(req[q], req'[q])
        BY <2>1, <3>2 DEF SiteInv, Fine, Moves
      <4> QED BY <4>1, OthersStay
    <3> QED BY <3>1, <3>2
  <2> QED BY <2>1, <2>2, <2>3 DEF SiteInv, Fine
<1> QED BY <1>1, <1>2

(* SiteInv is an invariant of the site. *)
THEOREM SiteInvariant == Spec => []SiteInv
BY SiteInvInit, SiteInvNext, PTL DEF Spec

-----------------------------------------------------------------------------
(* What the pages promise *)

(* Every table keeps its columns, with or without errors, and the counters *)
(* stay ids.                                                               *)
THEOREM TypeCorrect == Spec => []TypeOK
<1>1. SiteInv => TypeOK
  BY DEF SiteInv, Typed
<1> QED BY <1>1, SiteInvariant, PTL

(* addMovieInfo.php: two requests that read the same number never mix      *)
(* their genres in one movie.                                              *)
THEOREM GenresStayApart == Spec => []GenresAreTheMovies
<1>1. SiteInv => GenresAreTheMovies
  BY DEF SiteInv
<1> QED BY <1>1, SiteInvariant, PTL

(* addMovieInfo.php, addActorDirector.php, addReview.php: "Data            *)
(* submitted!" is printed only when all rows of the submission are in the  *)
(* database, whatever queries failed and whoever else was adding.          *)
THEOREM SubmittedIsTrue == Spec => []SubmittedIsThere
<1>1. SiteInv => SubmittedIsThere
  <2> SUFFICES ASSUME SiteInv, NEW r \in Requests, req[r].at = "submitted"
               PROVE  /\ req[r].page = "addMovieInfo" =>
                           /\ Movie[NewId(r)] = r
                           /\ \A g \in req[r].genres :
                                [mid |-> NewId(r), genre |-> g, by |-> r] \in MovieGenre
                      /\ req[r].page = "addActorDirector" =>
                           /\ req[r].identity # "Director" => Actor[NewId(r)] = r
                           /\ req[r].identity # "Actor" => Director[NewId(r)] = r
                      /\ req[r].page = "addReview" =>
                           /\ [mid |-> req[r].movie, by |-> r] \in Review
                           /\ Movie[req[r].movie] # Nobody
    BY DEF SubmittedIsThere
  <2>1. MovieRows(r) /\ PersonRows(r) /\ ReviewRows(r)
    BY DEF SiteInv, RowsThere
  <2> QED BY <2>1 DEF MovieRows, PersonRows, ReviewRows, Mine
<1> QED BY <1>1, SiteInvariant, PTL

(* showMovieInfo.php: the number of reviews is never larger than the list  *)
(* below it, though the two are read by two queries.                       *)
THEOREM CountIsNeverMore == Spec => []CountIsCovered
<1>1. SiteInv => CountIsCovered
  BY DEF SiteInv, RowsThere, ShowRows, CountIsCovered
<1> QED BY <1>1, SiteInvariant, PTL

(* addMovieInfo.php: the counter goes back only after a request whose      *)
(* reading of it failed: of the requests that read one number only the     *)
(* one that inserted the movie writes the next, and it does so before any  *)
(* other can get past it.                                                  *)
THEOREM CounterOnlyGrows == Spec => MovieCounterGrows
<1>1. SiteInv /\ Next /\ MaxMovieID' < MaxMovieID => \E r \in Requests : Misread(r)
  <2> SUFFICES ASSUME SiteInv, Next, MaxMovieID' < MaxMovieID,
                      \A r \in Requests : ~Misread(r)
               PROVE  FALSE
    OBVIOUS
  <2>1. Typed /\ MaxMovieID \in Int
    BY DEF SiteInv, Typed, TypeOK, Ids
  <2>2. PICK r \in Requests : SubmitMovie(r) \/ MaxMovieID' = MaxMovieID
    BY StepFine, CounterFine DEF Next
  <2>3. SubmitMovie(r) /\ MaxMovieID' # MaxMovieID
    BY <2>1, <2>2
  <2>4. Trusted
    BY DEF Trusted, Misread
  <2>5. req[r] \in MovieReqs /\ req[r].at = "genres"
    BY <2>1, <2>3, PageOf DEF Typed, SubmitMovie
  <2>6. req[r].max # 0
    BY <2>5 DEF Misread, MovieReqs
  <2>7. MaxMovieID' = MaxMovieID + 1
    BY <2>3, <2>4, <2>6, SubmitCounts
  <2> QED BY <2>1, <2>7
<1>2. SiteInv /\ [Next]_vars =>
        [MaxMovieID' < MaxMovieID => \E r \in Requests : Misread(r)]_vars
  BY <1>1
<1> QED BY <1>2, SiteInvariant, PTL DEF Spec, MovieCounterGrows
=============================================================================
