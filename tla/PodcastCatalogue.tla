-------------------------- MODULE PodcastCatalogue --------------------------
(***************************************************************************)
(* What listeners find of the podcast of a Topic, whatever its workflows,  *)
(* retries and late attempts do behind it: a Podcast Episode is listed     *)
(* with at least one chapter in the next place of a season, stays as it is  *)
(* until it is withdrawn or replaced, keeps its place after that, and      *)
(* nothing is listed of a deleted Topic.                                   *)
(***************************************************************************)
EXTENDS Naturals, FiniteSetsExt

CONSTANTS
  Episode,
  Season,
  MaxChapters \* bound on the chapters of a Podcast Episode

VARIABLES
  catalogue, \* the entry of each Podcast Episode that is listed
  places,    \* the season of each Podcast Episode and its number in it, or 0 and 0
  isOpen     \* the Topic exists

Listed == DOMAIN catalogue

\* A short Podcast Episode takes the place of the other short ones.
Replaced(isShort) == {d \in Listed : isShort /\ catalogue[d].isShort}

Only(episodes) == [d \in episodes |-> catalogue[d]]

NextPlace(season) ==
  [season |-> season,
   number |-> Max({places[d].number : d \in {c \in Episode : places[c].season = season}} \cup {0}) + 1]

Init ==
  /\ catalogue = [d \in {} |-> 0]
  /\ places = [e \in Episode |-> [season |-> 0, number |-> 0]]
  /\ isOpen = TRUE

\* What is listed already is not listed again, nor put in another place.
List(e, season, chapters, isShort) ==
  /\ isOpen /\ e \notin Listed
  /\ places' = [places EXCEPT ![e] = NextPlace(season)]
  /\ catalogue' =
       [d \in (Listed \ Replaced(isShort)) \cup {e} |->
          IF d = e THEN [chapters |-> chapters, isShort |-> isShort] ELSE catalogue[d]]
  /\ UNCHANGED isOpen

Withdraw(e) ==
  /\ catalogue' = Only(Listed \ {e})
  /\ UNCHANGED <<places, isOpen>>

Close ==
  /\ isOpen' = FALSE
  /\ catalogue' = Only({})
  /\ UNCHANGED places

Next ==
  \/ \E e \in Episode, season \in Season, chapters \in 1..MaxChapters, isShort \in BOOLEAN :
       List(e, season, chapters, isShort)
  \/ \E e \in Listed : Withdraw(e)
  \/ Close

Spec == Init /\ [][Next]_<<catalogue, places, isOpen>>

-----------------------------------------------------------------------------

\* Listeners find at most one short Podcast Episode, and no two ever share a place: the
\* numbers of one season differ, those of withdrawn Podcast Episodes included.
Distinct ==
  \A d, e \in Episode : d # e =>
    /\ d \in Listed /\ e \in Listed => ~(catalogue[d].isShort /\ catalogue[e].isShort)
    /\ places[d].season # 0 => places[d] # places[e]

=============================================================================
