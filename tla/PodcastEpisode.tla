--------------------------- MODULE PodcastEpisode ---------------------------
(***************************************************************************)
(* The Podcast Episodes of one Topic: their rows, the workflow that records *)
(* each one, their audio in the object store, and the removals of a        *)
(* Podcast Episode and of the Topic.                                       *)
(*                                                                         *)
(* Each activity may fail, its result may be lost, and an attempt that      *)
(* Temporal timed out may take effect later.  Objects are deleted through  *)
(* ObjectStore.                                                            *)
(***************************************************************************)
EXTENDS Naturals, FiniteSets, FiniteSetsExt

CONSTANTS
  Episode,     \* the Scans that may record a Podcast Episode
  MaxChapters, \* bound on the chapters of a script
  Years,       \* bound on the years in which Podcast Episodes are published
  MaxFaults    \* bound on failed requests and statements, lost results and exits

ASSUME EpisodeAssumption ==
  /\ Episode # {} /\ IsFiniteSet(Episode)
  /\ MaxChapters \in Nat \ {0} /\ Years \in Nat \ {0} /\ MaxFaults \in Nat

VARIABLES
  objects, pending, deleting, faults, \* the object store
  hasTopic, \* the Topic exists
  rows,     \* the row of each Podcast Episode
  flows,    \* recordPodcastEpisodeWorkflow of each Scan
  late,     \* the timed out attempts that may still take effect
  orphans,  \* the objects that a fault stored behind the workflow's back
  revived   \* what one of two attempts published that was no longer recording

-----------------------------------------------------------------------------
(* Types *)

Chapter == 1..MaxChapters

\* A season is the UTC year of a publication.
Season == 1..Years

\* The finished audio of a Podcast Episode is part 0, and its chapters follow.
Audio == Episode \X (0..MaxChapters)

INSTANCE ObjectStore WITH Object <- Audio

store == <<objects, pending, deleting, faults>>
vars == <<store, hasTopic, rows, flows, late, orphans, revived>>

Row == [status : {"none", "recording", "published", "failed", "removed"}, isShort : BOOLEAN,
        script : 0..MaxChapters, season : 0..Years, number : Nat, hasChapters : BOOLEAN]

Flow == [pc : {"plan", "insert", "script", "chapters", "encode", "publish", "save", "fail", "done", "unplanned", "failed"},
         isShort : BOOLEAN, open : SUBSET Chapter, recorded : SUBSET Chapter]

Attempt == [episode : Episode, of : {"chapter", "encode", "publish"}, chapter : 0..MaxChapters]

TypeOK ==
  /\ StoreTypeOK
  /\ hasTopic \in BOOLEAN
  /\ rows \in [Episode -> Row]
  /\ flows \in [Episode -> Flow]
  /\ late \subseteq Attempt
  /\ orphans \subseteq Audio
  /\ revived \subseteq Episode

-----------------------------------------------------------------------------

Init ==
  /\ StoreInit
  /\ hasTopic = TRUE
  /\ rows = [e \in Episode |-> [status |-> "none", isShort |-> FALSE, script |-> 0, season |-> 0,
                                number |-> 0, hasChapters |-> FALSE]]
  /\ flows = [e \in Episode |-> [pc |-> "plan", isShort |-> FALSE, open |-> {}, recorded |-> {}]]
  /\ late = {}
  /\ orphans = {}
  /\ revived = {}

Is(e, status) == rows[e].status = status
At(e, pc) == flows[e].pc = pc
GoesTo(e, pc) == flows' = [flows EXCEPT ![e].pc = pc]

\* An activity whose result is lost runs again, or is given up on.
RunsAgain(e, again, givenUp) == GoesTo(e, again) \/ GoesTo(e, givenUp)

AudioKey(e) == <<e, 0>>

ChapterKey(e, c) == <<e, c>>

ChapterKeys(e, chapters) == {ChapterKey(e, c) : c \in chapters}

\* toPodcastEpisodeAudioKeys: what the script on the row names.
AudioKeys(e) == {AudioKey(e)} \cup {<<e, c>> : c \in 1..rows[e].script}

Uploads(key) == objects' = objects \cup {key}

\* The attempt goes on after its timeout.
OutlivesTimeout(e, of, c) ==
  /\ Fault
  /\ late' = late \cup {[episode |-> e, of |-> of, chapter |-> c]}

-----------------------------------------------------------------------------
(* planPodcastEpisode *)

HasRecordingShort == \E e \in Episode : Is(e, "recording") /\ rows[e].isShort

\* The checks.  A row that an earlier attempt created is used if it is recording.
PlanReads(e) ==
  /\ At(e, "plan")
  /\ \/ Is(e, "none") /\ hasTopic
        /\ \E isShort \in BOOLEAN :
             IF isShort /\ HasRecordingShort THEN GoesTo(e, "unplanned")
             ELSE flows' = [flows EXCEPT ![e] = [@ EXCEPT !.pc = "insert", !.isShort = isShort]]
     \/ ~Is(e, "none") /\ GoesTo(e, IF Is(e, "recording") /\ hasTopic THEN "script" ELSE "unplanned")
     \/ GoesTo(e, "unplanned")
  /\ UNCHANGED <<store, hasTopic, rows, late, orphans, revived>>

PlanInserts(e) ==
  /\ At(e, "insert")
  /\ IF ~hasTopic THEN GoesTo(e, "unplanned") /\ UNCHANGED <<rows, faults>>
     ELSE /\ rows' = [rows EXCEPT ![e] = [@ EXCEPT !.status = "recording", !.isShort = flows[e].isShort]]
          /\ \/ GoesTo(e, "script") /\ UNCHANGED faults
             \/ Fault /\ RunsAgain(e, "plan", "failed")
  /\ UNCHANGED <<objects, pending, deleting, hasTopic, late, orphans, revived>>

\* A plan that fails for good ends the workflow, and fails no Podcast Episode.
PlanFails(e) ==
  /\ flows[e].pc \in {"plan", "insert"}
  /\ Fault
  /\ RunsAgain(e, "plan", "failed")
  /\ UNCHANGED <<objects, pending, deleting, hasTopic, rows, late, orphans, revived>>

-----------------------------------------------------------------------------
(* The script and the chapters *)

\* The outline, the segments and savePodcastEpisodeScript.
WriteScript(e) ==
  /\ At(e, "script")
  /\ \E n \in Chapter :
       /\ rows' = [rows EXCEPT ![e].script = n]
       /\ flows' = [flows EXCEPT ![e] = [@ EXCEPT !.pc = "chapters", !.open = 1..n]]
  /\ UNCHANGED <<store, hasTopic, late, orphans, revived>>

\* A rejected script, a spent budget, or an activity that failed on every attempt.
ActivityFails(e) ==
  /\ flows[e].pc \in {"script", "encode", "publish", "save"}
  /\ GoesTo(e, "fail")
  /\ UNCHANGED <<store, hasTopic, rows, late, orphans, revived>>

LeavesOut(e, c) == flows' = [flows EXCEPT ![e].open = @ \ {c}]

RecordChapter(e, c) ==
  /\ At(e, "chapters") /\ c \in flows[e].open
  /\ Uploads(ChapterKey(e, c))
  /\ flows' = [flows EXCEPT ![e].open = @ \ {c}, ![e].recorded = @ \cup {c}]
  /\ UNCHANGED <<pending, deleting, faults, hasTopic, rows, late, orphans, revived>>

\* The speech fails for good, and the chapter is left out.
ChapterFails(e, c) ==
  /\ At(e, "chapters") /\ c \in flows[e].open
  /\ LeavesOut(e, c)
  /\ UNCHANGED <<store, hasTopic, rows, late, orphans, revived>>

\* The last attempt stored the chapter, and its result is lost.
ChapterIsLost(e, c) ==
  /\ At(e, "chapters") /\ c \in flows[e].open
  /\ Fault
  /\ Uploads(ChapterKey(e, c)) /\ orphans' = orphans \cup {ChapterKey(e, c)}
  /\ LeavesOut(e, c)
  /\ UNCHANGED <<pending, deleting, hasTopic, rows, late, revived>>

ChapterTimesOut(e, c) ==
  /\ At(e, "chapters") /\ c \in flows[e].open
  /\ OutlivesTimeout(e, "chapter", c)
  /\ UNCHANGED flows \/ LeavesOut(e, c)
  /\ UNCHANGED <<objects, pending, deleting, hasTopic, rows, orphans, revived>>

ChaptersEnd(e) ==
  /\ At(e, "chapters") /\ flows[e].open = {}
  /\ GoesTo(e, IF flows[e].recorded = {} THEN "fail" ELSE "encode")
  /\ UNCHANGED <<store, hasTopic, rows, late, orphans, revived>>

-----------------------------------------------------------------------------
(* encodePodcastEpisode *)

Encode(e) ==
  /\ At(e, "encode") /\ ChapterKeys(e, flows[e].recorded) \subseteq objects
  /\ Uploads(AudioKey(e))
  /\ \/ GoesTo(e, "publish") /\ UNCHANGED faults
     \/ Fault /\ RunsAgain(e, "encode", "fail")
  /\ UNCHANGED <<pending, deleting, hasTopic, rows, late, orphans, revived>>

EncodeTimesOut(e) ==
  /\ At(e, "encode")
  /\ OutlivesTimeout(e, "encode", 0)
  /\ RunsAgain(e, "encode", "fail")
  /\ UNCHANGED <<objects, pending, deleting, hasTopic, rows, orphans, revived>>

-----------------------------------------------------------------------------
(* publishPodcastEpisode *)

\* Only a recording Podcast Episode is published, and one without its Topic fails.
PublishReads(e) ==
  /\ At(e, "publish")
  /\ GoesTo(e, IF ~Is(e, "recording") THEN "done" ELSE IF hasTopic THEN "save" ELSE "fail")
  /\ UNCHANGED <<store, hasTopic, rows, late, orphans, revived>>

\* Mutant: a removed Podcast Episode gives its number back.
KeptNumbers(season) == {rows[e].number : e \in {d \in Episode : Is(d, "published") /\ rows[d].season = season}}

\* The numbers that were taken in the season.  A removed Podcast Episode keeps its number.
TakenNumbers(season) == {rows[e].number : e \in {d \in Episode : rows[d].season = season}}
LastNumber(season) == Max(TakenNumbers(season) \cup {0})

\* A short Podcast Episode replaces the other short ones.
Replaces(e) ==
  IF rows[e].isShort THEN {d \in Episode \ {e} : Is(d, "published") /\ rows[d].isShort} ELSE {}

Removed(row, hasChapters) ==
  [row EXCEPT !.status = "removed", !.script = 0, !.hasChapters = hasChapters]

\* Mutant: the finished audio goes with its chapters.
RecordedAudio(e) == AudioKeys(e)

\* The recorded chapters, which are in the finished audio.
RecordedChapters(e) == ChapterKeys(e, flows[e].recorded)

\* Mutant: the chapters are written whether they are there already or not.
CanSaveAgain(e) == hasTopic

\* The transaction, under the lock of the Topic.  Chapters that are there already
\* make it fail.
CanSave(e) == hasTopic /\ ~rows[e].hasChapters

\* The season is read off the clock before the transaction, which may commit when the
\* next year has begun and another attempt has published in it.
SavesPublished(e) ==
  /\ \E season \in Season : rows' = [d \in Episode |->
       IF d = e THEN [rows[e] EXCEPT !.status = "published", !.season = season, !.number = LastNumber(season) + 1,
                                     !.script = Cardinality(flows[e].recorded), !.hasChapters = TRUE]
       ELSE IF d \in Replaces(e) THEN Removed(rows[d], rows[d].hasChapters)
       ELSE rows[d]]
  /\ GivesUp(RecordedChapters(e) \cup UNION {AudioKeys(d) : d \in Replaces(e)})
  /\ revived' = IF Is(e, "recording") THEN revived ELSE revived \cup {e}

SavePublished(e) ==
  /\ At(e, "save")
  /\ IF CanSave(e)
     THEN /\ SavesPublished(e)
          /\ \/ GoesTo(e, "done") /\ UNCHANGED faults
             \/ Fault /\ RunsAgain(e, "publish", "fail")
     ELSE GoesTo(e, "fail") /\ UNCHANGED <<rows, pending, deleting, faults, revived>>
  /\ UNCHANGED <<objects, hasTopic, late, orphans>>

PublishTimesOut(e) ==
  /\ At(e, "save")
  /\ OutlivesTimeout(e, "publish", 0)
  /\ RunsAgain(e, "publish", "fail")
  /\ UNCHANGED <<objects, pending, deleting, hasTopic, rows, orphans, revived>>

-----------------------------------------------------------------------------
(* failPodcastEpisode *)

\* Mutant: what has no script yet is not failed.
FailsScripted(e) == Is(e, "recording") /\ rows[e].script > 0

Fails(e) == Is(e, "recording")

\* Mutant: the chapters of a failed recording are deleted, not its audio.
LeftBehindChapters(e) == AudioKeys(e) \ {AudioKey(e)}

\* Whatever audio the recording has left behind.
LeftBehind(e) == AudioKeys(e)

FailEpisode(e) ==
  /\ At(e, "fail")
  /\ IF Fails(e) THEN rows' = [rows EXCEPT ![e].status = "failed"] /\ GivesUp(LeftBehind(e))
     ELSE UNCHANGED <<rows, pending, deleting>>
  /\ GoesTo(e, "done")
  /\ UNCHANGED <<objects, faults, hasTopic, late, orphans, revived>>

\* A failure that cannot be saved ends the workflow.
FailFails(e) ==
  /\ At(e, "fail")
  /\ Fault
  /\ GoesTo(e, "failed")
  /\ UNCHANGED <<objects, pending, deleting, hasTopic, rows, late, orphans, revived>>

-----------------------------------------------------------------------------
(* A timed out attempt takes effect *)

LateUpload(a) ==
  /\ a.of \in {"chapter", "encode"}
  /\ LET key == ChapterKey(a.episode, a.chapter)
     IN Uploads(key) /\ orphans' = orphans \cup {key}
  /\ UNCHANGED <<pending, deleting, rows, revived>>

LatePublish(a) ==
  /\ a.of = "publish"
  /\ IF CanSave(a.episode) THEN SavesPublished(a.episode)
     ELSE UNCHANGED <<rows, pending, deleting, revived>>
  /\ UNCHANGED <<objects, orphans>>

LateAttempt(a) ==
  /\ a \in late
  /\ LateUpload(a) \/ LatePublish(a)
  /\ late' = late \ {a}
  /\ UNCHANGED <<faults, hasTopic, flows>>

-----------------------------------------------------------------------------
(* Removals *)

\* removePodcastEpisode: a recording Podcast Episode belongs to its workflow.
RemoveEpisode(e) ==
  /\ hasTopic /\ rows[e].status \in {"published", "failed"}
  /\ rows' = [rows EXCEPT ![e] = Removed(rows[e], FALSE)]
  /\ GivesUp(AudioKeys(e))
  /\ UNCHANGED <<objects, faults, hasTopic, flows, late, orphans, revived>>

\* deleteTopic: the rows stay.
DeleteTopic ==
  /\ hasTopic
  /\ hasTopic' = FALSE
  /\ GivesUp(UNION {AudioKeys(e) : e \in {d \in Episode : ~Is(d, "none")}})
  /\ UNCHANGED <<objects, faults, rows, flows, late, orphans, revived>>

-----------------------------------------------------------------------------

FlowStep(e) ==
  \/ PlanReads(e) \/ PlanInserts(e) \/ PlanFails(e)
  \/ WriteScript(e) \/ ActivityFails(e)
  \/ \E c \in Chapter : RecordChapter(e, c) \/ ChapterFails(e, c) \/ ChapterIsLost(e, c) \/ ChapterTimesOut(e, c)
  \/ ChaptersEnd(e) \/ Encode(e) \/ EncodeTimesOut(e)
  \/ PublishReads(e) \/ SavePublished(e) \/ PublishTimesOut(e)
  \/ FailEpisode(e) \/ FailFails(e)

StoreStep == StoreNext /\ UNCHANGED <<hasTopic, rows, flows, late, orphans, revived>>

Next ==
  \/ \E e \in Episode : FlowStep(e) \/ RemoveEpisode(e)
  \/ \E a \in late : LateAttempt(a)
  \/ DeleteTopic
  \/ StoreStep

\* Temporal runs the workflows on, and the sweep runs every hour.
Spec == Init /\ [][Next]_vars /\ WF_vars(\E e \in Episode : FlowStep(e)) /\ StoreFairness

-----------------------------------------------------------------------------
(* Properties *)

\* What listeners can find they can play: a published Podcast Episode has its audio,
\* and nothing is about to delete it, unless one of two attempts published it after
\* it had failed or been removed.
PublishedHasAudio ==
  hasTopic => \A e \in Episode \ revived : Is(e, "published") =>
    /\ AudioKey(e) \in objects
    /\ pending[AudioKey(e)] = "none" /\ AudioKey(e) \notin deleting

\* No audio is left behind: what is stored belongs to a recording, is played, is
\* pending deletion, or was stored by an attempt that the workflow had given up on.
NoAudioLeaks ==
  \A k \in objects \ orphans :
    \/ Is(k[1], "recording")
    \/ hasTopic /\ Is(k[1], "published") /\ k = AudioKey(k[1])
    \/ pending[k] # "none"

Place(e) == [season |-> rows[e].season, number |-> rows[e].number]

\* A new number is above all that the rows of its season have, those of removed Podcast
\* Episodes included.
NumberIsNew(e) == \A d \in Episode : rows[d].season = rows'[e].season => rows'[e].number > rows[d].number

\* A Podcast Episode keeps the number that it has, unless one of two attempts published
\* it again after its removal, which frees its number if the year has turned.
KeepsNumber(e) == e \in revived' \/ rows[e].season = 0

\* No number is given out twice in one season, but for those that such an attempt frees:
\* what gets a number gets a new one, and has none before.
NumbersOnlyGrow == [][\A e \in Episode : Place(e)' # Place(e) => NumberIsNew(e) /\ KeepsNumber(e)]_vars

\* In the end nothing is pending: every object that was given up is deleted, whatever
\* failed on the way.
PendingIsDeleted == <>[](\A k \in Audio : pending[k] = "none")

\* In the end nothing is recording: each Podcast Episode is published or failed, unless
\* its workflow lost the result of its plan or could not save its failure.
RecordingEnds ==
  <>[](\A e \in Episode : Is(e, "recording") => flows[e].pc \in {"unplanned", "failed"})

\* What listeners find.
OnAir == {e \in Episode : hasTopic /\ Is(e, "published")}

Entry(e) == [chapters |-> rows[e].script, isShort |-> rows[e].isShort]

Listing == [e \in OnAir |-> Entry(e)]

Places == [e \in Episode |-> Place(e)]

Catalogue == INSTANCE PodcastCatalogue WITH
  catalogue <- Listing,
  places <- Places,
  isOpen <- hasTopic

\* Listeners see the workflows keep the PodcastCatalogue: no retry, late attempt, race
\* of two short Podcast Episodes or fault lists one twice, renumbers, changes or drops
\* one that is listed, lists one without chapters, or lists any of a deleted Topic.
KeepsCatalogue == Catalogue!Spec

=============================================================================
