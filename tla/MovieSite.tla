------------------------------- MODULE MovieSite -------------------------------
(***************************************************************************)
(* The pages of the movie web site that write to its MySQL database, and   *)
(* the one that shows a movie: addMovieInfo.php, addActorDirector.php,     *)
(* addMovieActor.php, addMovieDirector.php, addReview.php and              *)
(* showMovieInfo.php.                                                      *)
(*                                                                         *)
(* Every request is a process of the web server.  It sends its queries one *)
(* by one, with no transaction around them: each query is a step, queries  *)
(* of other requests come in between, any of them may fail, and a request  *)
(* may die between two of them.  Ids are handed out by reading a counter,  *)
(* inserting under the next number, and writing the counter back.          *)
(*                                                                         *)
(* The database is modelled from create.sql and load.sql: primary keys and *)
(* foreign keys are checked, nothing is ever deleted, and the content of a *)
(* row is abstracted to the request that inserted it.                      *)
(***************************************************************************)
EXTENDS Integers, FiniteSets

CONSTANTS Requests,  \* the requests, each of which is sent once
          Loaded,    \* the owner of the rows that load.sql inserts
          Nobody,    \* the owner of a row that is not there
          Genres,    \* the genres a visitor can tick
          FirstIds,  \* the ids that load.sql inserts, in every table
          MaxId,     \* bound: the largest id
          Pages,     \* the pages that visitors use
          Failing,   \* whether a query may fail for no visible reason
          Dying      \* whether a request may die between two queries

ASSUME SiteAssumption ==
  /\ Loaded \notin Requests /\ Nobody \notin Requests \cup {Loaded}
  /\ FirstIds # {} /\ FirstIds \subseteq 1 .. MaxId
  /\ MaxId \in Nat
  /\ Pages \subseteq {"addMovieInfo", "addActorDirector", "addMovieActor",
                      "addMovieDirector", "addReview", "showMovieInfo"}
  /\ {Failing, Dying} \subseteq BOOLEAN

Ids    == 1 .. MaxId
Owners == Requests \cup {Loaded, Nobody}

VARIABLES
  Movie,         \* Movie[id]: who inserted the row, PRIMARY KEY (id)
  Actor,         \* likewise
  Director,      \* likewise
  MovieGenre,    \* rows [mid, genre, by]; by is not a column
  MovieActor,    \* rows [mid, aid, by]; there is no key
  MovieDirector, \* rows [mid, did], PRIMARY KEY (mid, did)
  Review,        \* rows [mid, by]
  MaxMovieID,    \* the one row of the table
  MaxPersonID,   \* likewise
  req            \* the requests: where each one is, and its variables

tables == <<Movie, Actor, Director, MovieGenre, MovieActor, MovieDirector, Review,
            MaxMovieID, MaxPersonID>>
vars   == <<tables, req>>

Largest(S) == CHOOSE i \in S : \A j \in S : j <= i
IdsIn(table) == {i \in Ids : table[i] # Nobody}

Idle == [at |-> "idle"]

Init ==
  /\ Movie = [i \in Ids |-> IF i \in FirstIds THEN Loaded ELSE Nobody]
  /\ Actor = Movie
  /\ Director = Movie
  /\ MovieGenre = {} /\ MovieActor = {} /\ MovieDirector = {} /\ Review = {}
  /\ MaxMovieID = Largest(FirstIds)
  /\ MaxPersonID = Largest(FirstIds)
  /\ req = [r \in Requests |-> Idle]

-----------------------------------------------------------------------------
(* Slips that the runs must notice *)

Goes_Plain(r, at)    == req' = [req EXCEPT ![r].at = at]
Error_GoesOn(r, own) == IF req[r].at = "insertMovie" THEN Goes_Plain(r, "genres")
                        ELSE req' = [req EXCEPT ![r].at = "error",
                                                ![r].undisturbed = @ /\ own]
AfterShown_ListFirst(at) ==
  CASE at = "showMovie"    -> "showGenres"
    [] at = "showGenres"   -> "showDirectors"
    [] at = "showDirectors" -> "showActors"
    [] at = "showActors"   -> "showReviews"
    [] at = "showReviews"  -> "showCount"
    [] at = "showCount"    -> "shown"

-----------------------------------------------------------------------------
(* Requests *)

Running == {r \in Requests : req[r].at \notin {"idle", "submitted", "error", "shown", "dead"}}

(* undisturbed is history: no other request runs at the same time, and no  *)
(* query of this one has failed for no visible reason.                     *)
Alone == Running = {}

Starts(r, first) ==
  /\ req[r].at = "idle"
  /\ req' = [q \in Requests |->
               CASE q = r          -> first
                 [] q \in Running  -> [req[q] EXCEPT !.undisturbed = FALSE]
                 [] OTHER          -> req[q]]

Goes(r, at) == req' = [req EXCEPT ![r].at = at]

(* "An error occurred!", and exit.  own: the statement violates a key. *)
Error(r, own) == req' = [req EXCEPT ![r].at = "error", ![r].undisturbed = @ /\ own]

(* SELECT * FROM MaxMovieID.  The query's failure is not looked at: the    *)
(* row is then NULL, and NULL + 1 is 1.                                    *)
ReadCounter(r, counter, next) ==
  \/ req' = [req EXCEPT ![r].at = next, ![r].max = counter]
  \/ Failing /\ req' = [req EXCEPT ![r].at = next, ![r].max = 0, ![r].undisturbed = FALSE]

NewId(r) == req[r].max + 1

(* bound: the ids a request may take *)
InBounds(r) == NewId(r) \in Ids

(* A slip: the number that was read is written back. *)
Updated_NotNext(r, old, new) ==
  \/ new = req[r].max /\ Goes(r, "submitted")
  \/ Failing /\ new = old /\ req' = [req EXCEPT ![r].at = "submitted", ![r].undisturbed = FALSE]

(* The UPDATE of a counter.  Whether it succeeds is not looked at. *)
Updated(r, old, new) ==
  \/ new = NewId(r) /\ Goes(r, "submitted")
  \/ Failing /\ new = old /\ req' = [req EXCEPT ![r].at = "submitted", ![r].undisturbed = FALSE]

-----------------------------------------------------------------------------
(* addMovieInfo.php *)

AddMovie(r) ==
  /\ "addMovieInfo" \in Pages
  /\ \E genres \in SUBSET Genres :
       Starts(r, [undisturbed |-> Alone, page |-> "addMovieInfo", at |-> "readMovieMax",
                  max |-> 0, genres |-> genres, todo |-> genres])
  /\ UNCHANGED tables

ReadMovieMax(r) == /\ req[r].at = "readMovieMax"
                   /\ ReadCounter(r, MaxMovieID, "insertMovie")
                   /\ UNCHANGED tables

InsertMovie(r) ==
  /\ req[r].at = "insertMovie" /\ InBounds(r)
  /\ \/ /\ Movie[NewId(r)] = Nobody
        /\ Movie' = [Movie EXCEPT ![NewId(r)] = r]
        /\ Goes(r, "genres")
     \/ /\ Failing \/ Movie[NewId(r)] # Nobody
        /\ Error(r, Movie[NewId(r)] # Nobody)
        /\ UNCHANGED Movie
  /\ UNCHANGED <<Actor, Director, MovieGenre, MovieActor, MovieDirector, Review,
                 MaxMovieID, MaxPersonID>>

(* The genres are inserted one by one, in the order of the form. *)
InsertGenre(r) ==
  /\ req[r].at = "genres"
  /\ \E g \in req[r].todo :
       \/ /\ Movie[NewId(r)] # Nobody
          /\ MovieGenre' = MovieGenre \cup {[mid |-> NewId(r), genre |-> g, by |-> r]}
          /\ req' = [req EXCEPT ![r].todo = @ \ {g}]
       \/ /\ Failing
          /\ Error(r, FALSE)
          /\ UNCHANGED MovieGenre
  /\ UNCHANGED <<Movie, Actor, Director, MovieActor, MovieDirector, Review,
                 MaxMovieID, MaxPersonID>>

SubmitMovie(r) ==
  /\ req[r].at = "genres" /\ req[r].todo = {}
  /\ \E new \in Ids \cup {0} : Updated(r, MaxMovieID, new) /\ MaxMovieID' = new
  /\ UNCHANGED <<Movie, Actor, Director, MovieGenre, MovieActor, MovieDirector,
                 Review, MaxPersonID>>

-----------------------------------------------------------------------------
(* addActorDirector.php *)

AddPerson(r) ==
  /\ "addActorDirector" \in Pages
  /\ \E identity \in {"Actor", "Director", "Actor-Director"} :
       Starts(r, [undisturbed |-> Alone, page |-> "addActorDirector", at |-> "readPersonMax",
                  max |-> 0, identity |-> identity])
  /\ UNCHANGED tables

ReadPersonMax(r) ==
  /\ req[r].at = "readPersonMax"
  /\ ReadCounter(r, MaxPersonID,
                 IF req[r].identity = "Director" THEN "insertDirector" ELSE "insertActor")
  /\ UNCHANGED tables

InsertActor(r) ==
  /\ req[r].at = "insertActor" /\ InBounds(r)
  /\ \/ /\ Actor[NewId(r)] = Nobody
        /\ Actor' = [Actor EXCEPT ![NewId(r)] = r]
        /\ Goes(r, IF req[r].identity = "Actor-Director" THEN "insertDirector"
                                                        ELSE "updatePerson")
     \/ /\ Failing \/ Actor[NewId(r)] # Nobody
        /\ Error(r, Actor[NewId(r)] # Nobody)
        /\ UNCHANGED Actor
  /\ UNCHANGED <<Movie, Director, MovieGenre, MovieActor, MovieDirector, Review,
                 MaxMovieID, MaxPersonID>>

InsertDirector(r) ==
  /\ req[r].at = "insertDirector" /\ InBounds(r)
  /\ \/ /\ Director[NewId(r)] = Nobody
        /\ Director' = [Director EXCEPT ![NewId(r)] = r]
        /\ Goes(r, "updatePerson")
     \/ /\ Failing \/ Director[NewId(r)] # Nobody
        /\ Error(r, Director[NewId(r)] # Nobody)
        /\ UNCHANGED Director
  /\ UNCHANGED <<Movie, Actor, MovieGenre, MovieActor, MovieDirector, Review,
                 MaxMovieID, MaxPersonID>>

SubmitPerson(r) ==
  /\ req[r].at = "updatePerson"
  /\ \E new \in Ids \cup {0} : Updated(r, MaxPersonID, new) /\ MaxPersonID' = new
  /\ UNCHANGED <<Movie, Actor, Director, MovieGenre, MovieActor, MovieDirector,
                 Review, MaxMovieID>>

-----------------------------------------------------------------------------
(* addMovieActor.php, addMovieDirector.php: the visitor searches for a     *)
(* person and a movie, chooses one of each among the rows found, and sends *)
(* the choice.                                                             *)

AddRole(r) == /\ "addMovieActor" \in Pages
              /\ Starts(r, [undisturbed |-> Alone, page |-> "addMovieActor",
                            at |-> "searchPerson", person |-> 0, movie |-> 0])
              /\ UNCHANGED tables

AddDirection(r) == /\ "addMovieDirector" \in Pages
                   /\ Starts(r, [undisturbed |-> Alone, page |-> "addMovieDirector",
                                 at |-> "searchPerson", person |-> 0, movie |-> 0])
                   /\ UNCHANGED tables

(* Without a row to choose there is no form to send. *)
SearchPerson(r) ==
  /\ req[r].at = "searchPerson"
  /\ \/ \E i \in IdsIn(IF req[r].page = "addMovieActor" THEN Actor ELSE Director) :
          req' = [req EXCEPT ![r].at = "searchMovie", ![r].person = i]
     \/ Goes(r, "shown")
     \/ Failing /\ Error(r, FALSE)
  /\ UNCHANGED tables

SearchMovie(r) ==
  /\ req[r].at = "searchMovie"
  /\ \/ \E i \in IdsIn(Movie) : req' = [req EXCEPT ![r].at = "insertLink", ![r].movie = i]
     \/ Goes(r, "shown")
     \/ Failing /\ Error(r, FALSE)
  /\ UNCHANGED tables

InsertRole(r) ==
  /\ req[r].at = "insertLink" /\ req[r].page = "addMovieActor"
  /\ \/ /\ Movie[req[r].movie] # Nobody /\ Actor[req[r].person] # Nobody
        /\ MovieActor' = MovieActor \cup {[mid |-> req[r].movie, aid |-> req[r].person, by |-> r]}
        /\ Goes(r, "submitted")
     \/ Failing /\ Error(r, FALSE) /\ UNCHANGED MovieActor
  /\ UNCHANGED <<Movie, Actor, Director, MovieGenre, MovieDirector, Review,
                 MaxMovieID, MaxPersonID>>

InsertDirection(r) ==
  /\ req[r].at = "insertLink" /\ req[r].page = "addMovieDirector"
  /\ LET row == [mid |-> req[r].movie, did |-> req[r].person]
     IN \/ /\ row \notin MovieDirector
           /\ Movie[row.mid] # Nobody /\ Director[row.did] # Nobody
           /\ MovieDirector' = MovieDirector \cup {row}
           /\ Goes(r, "submitted")
        \/ /\ Failing \/ row \in MovieDirector
           /\ Error(r, row \in MovieDirector)
           /\ UNCHANGED MovieDirector
  /\ UNCHANGED <<Movie, Actor, Director, MovieGenre, MovieActor, Review,
                 MaxMovieID, MaxPersonID>>

-----------------------------------------------------------------------------
(* addReview.php: the visitor may type the id of a movie that is not there. *)

AddReview(r) ==
  /\ "addReview" \in Pages
  /\ \E i \in Ids : Starts(r, [undisturbed |-> Alone, page |-> "addReview",
                               at |-> "insertReview", movie |-> i])
  /\ UNCHANGED tables

(* A slip: the page goes on when the INSERT was rejected. *)
InsertReview_Unchecked(r) ==
  /\ req[r].at = "insertReview"
  /\ \/ /\ Movie[req[r].movie] # Nobody
        /\ Review' = Review \cup {[mid |-> req[r].movie, by |-> r]}
     \/ /\ Failing \/ Movie[req[r].movie] = Nobody
        /\ UNCHANGED Review
  /\ Goes(r, "submitted")
  /\ UNCHANGED <<Movie, Actor, Director, MovieGenre, MovieActor, MovieDirector,
                 MaxMovieID, MaxPersonID>>

InsertReview(r) ==
  /\ req[r].at = "insertReview"
  /\ \/ /\ Movie[req[r].movie] # Nobody
        /\ Review' = Review \cup {[mid |-> req[r].movie, by |-> r]}
        /\ Goes(r, "submitted")
     \/ /\ Failing \/ Movie[req[r].movie] = Nobody
        /\ Error(r, Movie[req[r].movie] = Nobody)
        /\ UNCHANGED Review
  /\ UNCHANGED <<Movie, Actor, Director, MovieGenre, MovieActor, MovieDirector,
                 MaxMovieID, MaxPersonID>>

-----------------------------------------------------------------------------
(* showMovieInfo.php: six queries, one after the other *)

AfterShown(at) == CASE at = "showMovie"     -> "showGenres"
                    [] at = "showGenres"    -> "showDirectors"
                    [] at = "showDirectors" -> "showActors"
                    [] at = "showActors"    -> "showCount"
                    [] at = "showCount"     -> "showReviews"
                    [] at = "showReviews"   -> "shown"

ShowMovie(r) ==
  /\ "showMovieInfo" \in Pages
  /\ \E i \in Ids : Starts(r, [undisturbed |-> Alone, page |-> "showMovieInfo", at |-> "showMovie",
                               movie |-> i, count |-> 0, reviews |-> {}])
  /\ UNCHANGED tables

ReviewsOf(i) == {v \in Review : v.mid = i}

Show(r) ==
  /\ req[r].at \in {"showMovie", "showGenres", "showDirectors", "showActors", "showCount",
                    "showReviews"}
  /\ \/ /\ req[r].at = "showMovie" /\ Movie[req[r].movie] = Nobody
        /\ Goes(r, "shown")
     \/ /\ Movie[req[r].movie] # Nobody
        /\ req' = [req EXCEPT ![r].at = AfterShown(@),
                     ![r].count = IF req[r].at = "showCount"
                                  THEN Cardinality(ReviewsOf(req[r].movie)) ELSE @,
                     ![r].reviews = IF req[r].at = "showReviews"
                                    THEN ReviewsOf(req[r].movie) ELSE @]
     \/ Failing /\ Error(r, FALSE)
  /\ UNCHANGED tables

-----------------------------------------------------------------------------
(* The process of a request ends half way. *)
Die(r) == /\ Dying
          /\ r \in Running
          /\ Goes(r, "dead")
          /\ UNCHANGED tables

Next == \E r \in Requests :
  \/ AddMovie(r) \/ ReadMovieMax(r) \/ InsertMovie(r) \/ InsertGenre(r) \/ SubmitMovie(r)
  \/ AddPerson(r) \/ ReadPersonMax(r) \/ InsertActor(r) \/ InsertDirector(r) \/ SubmitPerson(r)
  \/ AddRole(r) \/ AddDirection(r) \/ SearchPerson(r) \/ SearchMovie(r)
  \/ InsertRole(r) \/ InsertDirection(r)
  \/ AddReview(r) \/ InsertReview(r)
  \/ ShowMovie(r) \/ Show(r)
  \/ Die(r)

Spec == Init /\ [][Next]_vars

-----------------------------------------------------------------------------
(* Properties *)

TypeOK ==
  /\ Movie \in [Ids -> Owners] /\ Actor \in [Ids -> Owners] /\ Director \in [Ids -> Owners]
  /\ MovieGenre \subseteq [mid : Ids, genre : Genres, by : Requests]
  /\ MovieActor \subseteq [mid : Ids, aid : Ids, by : Requests]
  /\ MovieDirector \subseteq [mid : Ids, did : Ids]
  /\ Review \subseteq [mid : Ids, by : Requests]
  /\ MaxMovieID \in Ids /\ MaxPersonID \in Ids
  /\ DOMAIN req = Requests

(* The genres of a movie were all given by the request that added it: two  *)
(* requests that read the same number never end up in one movie.           *)
GenresAreTheMovies == \A g \in MovieGenre : Movie[g.mid] = g.by

(* addMovieInfo.php:109, addActorDirector.php:103, addReview.php:69:       *)
(* "Data submitted!" is printed only when every row of the submission is   *)
(* in the database, under the id that the request took, and not one of the *)
(* INSERTs was rejected or failed.                                         *)
SubmittedIsThere ==
  \A r \in Requests : req[r].at = "submitted" =>
    /\ req[r].page = "addMovieInfo" =>
         /\ Movie[NewId(r)] = r
         /\ \A g \in req[r].genres : [mid |-> NewId(r), genre |-> g, by |-> r] \in MovieGenre
    /\ req[r].page = "addActorDirector" =>
         /\ req[r].identity # "Director" => Actor[NewId(r)] = r
         /\ req[r].identity # "Actor" => Director[NewId(r)] = r
    /\ req[r].page = "addReview" =>
         [mid |-> req[r].movie, by |-> r] \in Review /\ Movie[req[r].movie] # Nobody

(* MaxMovieID goes back only if the SELECT of a request failed and its     *)
(* movie was inserted all the same: of two requests that read one number,  *)
(* the key of Movie lets one write the counter, so that the slower one     *)
(* cannot undo what others did meanwhile.                                  *)
Misread(r) == /\ req[r].at \in {"genres", "submitted"}
              /\ req[r].page = "addMovieInfo" /\ req[r].max = 0
MovieCounterGrows ==
  [][MaxMovieID' < MaxMovieID => \E r \in Requests : Misread(r)]_vars

(* readme.md:5-7: the web site supports "Adding new movies and actors into *)
(* the system": a request that runs alone and has no query fail on it for  *)
(* another reason is not rejected, whatever other requests did before it.  *)
AddsSucceed ==
  \A r \in Requests :
    req[r].at = "error" /\ req[r].page \in {"addMovieInfo", "addActorDirector"}
      => ~req[r].undisturbed

(* The number of reviews that a movie's page shows is never larger than    *)
(* the list under it, though reviews are added between the two queries.    *)
CountIsCovered ==
  \A r \in Requests : req[r].at = "shown" /\ req[r].page = "showMovieInfo"
                       => req[r].count <= Cardinality(req[r].reviews)
=============================================================================
