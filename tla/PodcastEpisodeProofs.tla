------------------------ MODULE PodcastEpisodeProofs -------------------------
(***************************************************************************)
(* What PodcastEpisode promises for every number of Podcast Episodes,      *)
(* chapters, years and faults.                                             *)
(*                                                                         *)
(* A transaction looks at the rows and not at the bucket, so what it gives  *)
(* up is right only if the rows say what was stored.  The invariant IInv   *)
(* adds to the promises how far a workflow is by the status of its row,    *)
(* and that only what was published has a season (FlowFits), that nobody   *)
(* gives up the audio of a Podcast Episode that may still be published     *)
(* (AudioIsKept), that the chapters stored are the ones that the workflow  *)
(* has recorded (ChaptersAreRecorded), and that the numbers given out have *)
(* a bound (NumbersAreBounded).                                            *)
(***************************************************************************)
EXTENDS PodcastEpisode, FiniteSetTheorems, WellFoundedInduction, TLAPS

-----------------------------------------------------------------------------
(* The inductive invariant *)

\* A timed out publish of e may still take effect.
MayPublishLate(e) == \E a \in late : a.episode = e /\ a.of = "publish"

\* How far a workflow and its timed out attempts are by the status of the row.
FlowFits(e) ==
  /\ At(e, "insert") => Is(e, "none")
  /\ Is(e, "none") => flows[e].pc \in {"plan", "insert", "unplanned", "failed"} /\ ~MayPublishLate(e)
  /\ flows[e].pc \in {"plan", "insert", "script", "chapters", "encode"} => ~MayPublishLate(e)
  /\ flows[e].pc \in {"script", "chapters", "encode"} => Is(e, "recording")
  /\ flows[e].pc \in {"plan", "insert", "script"} => flows[e].recorded = {}
  /\ At(e, "chapters") => flows[e].open \subseteq 1..rows[e].script
  /\ Is(e, "recording") => flows[e].recorded \subseteq 1..rows[e].script
  /\ rows[e].status \in {"none", "recording"} => rows[e].season = 0

\* Nobody deletes or is about to delete the object.
IsSafe(k) == pending[k] = "none" /\ k \notin deleting

\* What may still be published has its audio, and so has what was.
AudioIsKept(e) ==
  /\ rows[e].status \in {"none", "recording"} => \A c \in 0..MaxChapters : IsSafe(<<e, c>>)
  /\ Is(e, "recording") /\ (flows[e].pc \in {"publish", "save"} \/ MayPublishLate(e)) =>
       AudioKey(e) \in objects
  /\ Is(e, "published") /\ e \notin revived => AudioKey(e) \in objects /\ IsSafe(AudioKey(e))

\* A chapter is stored only if the workflow has recorded it, but for a fault.
ChaptersAreRecorded ==
  \A e \in Episode : \A c \in Chapter : <<e, c>> \in objects \ orphans => c \in flows[e].recorded

NumbersAreBounded == \E n \in Nat : \A e \in Episode : rows[e].number <= n

IInv ==
  /\ TypeOK
  /\ \A e \in Episode : FlowFits(e)
  /\ hasTopic => \A e \in Episode : AudioIsKept(e)
  /\ ChaptersAreRecorded
  /\ NoAudioLeaks
  /\ NumbersAreBounded

-----------------------------------------------------------------------------
(* Keys *)

\* The bounds are natural numbers.
LEMMA Bounds ==
  /\ MaxChapters \in Nat /\ MaxFaults \in Nat /\ 0 \in 0..MaxChapters /\ Chapter \subseteq 0..MaxChapters
  /\ Years \in Nat /\ 0 \in 0..Years /\ Season \subseteq 0..Years /\ 0 \notin Season
BY EpisodeAssumption DEF Chapter, Season

\* A key is of a Podcast Episode and a part.
LEMMA KeyParts ==
  ASSUME NEW k \in Audio
  PROVE  k[1] \in Episode /\ k[2] \in 0..MaxChapters /\ k = <<k[1], k[2]>>
BY DEF Audio

\* A part of a Podcast Episode has a key.
LEMMA KeyOf ==
  ASSUME NEW e \in Episode, NEW c \in 0..MaxChapters
  PROVE  <<e, c>> \in Audio /\ <<e, c>>[1] = e /\ <<e, c>>[2] = c
BY DEF Audio

\* The finished audio of a Podcast Episode.
LEMMA AudioKeyOf ==
  ASSUME NEW e \in Episode
  PROVE  AudioKey(e) \in Audio /\ AudioKey(e)[1] = e /\ AudioKey(e)[2] = 0
         /\ AudioKey(e) = <<e, 0>> /\ AudioKey(e) \in AudioKeys(e)
BY Bounds, KeyOf DEF AudioKey, AudioKeys

\* What the script of a row names is of its Podcast Episode.
LEMMA AudioKeysOf ==
  ASSUME TypeOK, NEW e \in Episode
  PROVE  /\ AudioKeys(e) \subseteq Audio
         /\ \A k \in AudioKeys(e) : k[1] = e
         /\ \A c \in 1..rows[e].script : <<e, c>> \in AudioKeys(e)
<1>1. rows[e].script \in 0..MaxChapters BY DEF TypeOK, Row
<1>2. 1..rows[e].script \subseteq 0..MaxChapters BY <1>1, Bounds
<1>. QED BY <1>2, AudioKeyOf, KeyOf DEF AudioKeys, AudioKey

\* The chapters that a workflow has recorded are not the finished audio.
LEMMA RecordedChaptersOf ==
  ASSUME TypeOK, NEW e \in Episode
  PROVE  /\ RecordedChapters(e) \subseteq Audio
         /\ \A k \in RecordedChapters(e) : k[1] = e /\ k # AudioKey(e)
         /\ \A c \in flows[e].recorded : <<e, c>> \in RecordedChapters(e)
<1>1. flows[e].recorded \subseteq Chapter BY DEF TypeOK, Flow
<1>2. RecordedChapters(e) = {<<e, c>> : c \in flows[e].recorded}
  BY DEF RecordedChapters, ChapterKeys, ChapterKey
<1>3. ASSUME NEW c \in flows[e].recorded
      PROVE  <<e, c>> \in Audio /\ <<e, c>>[1] = e /\ <<e, c>> # AudioKey(e)
  <2>1. c \in 0..MaxChapters /\ c # 0 BY <1>1, Bounds DEF Chapter
  <2>2. <<e, c>> \in Audio /\ <<e, c>>[1] = e /\ <<e, c>>[2] = c BY <2>1, KeyOf
  <2>. QED BY <2>1, <2>2, AudioKeyOf
<1>. QED BY <1>2, <1>3

\* What is given up is pending and about to be deleted, and nothing else changes.
LEMMA GivingUp ==
  ASSUME TypeOK, NEW keys \in SUBSET Audio, GivesUp(keys)
  PROVE  /\ pending' \in [Audio -> {"none", "waiting", "due"}] /\ deleting' \in SUBSET Audio
         /\ \A k \in Audio : (pending[k] # "none" \/ k \in keys) => pending'[k] # "none"
         /\ \A k \in Audio \ keys : IsSafe(k) => IsSafe(k)'
<1>1. pending \in [Audio -> {"none", "waiting", "due"}] /\ deleting \subseteq Audio
  BY DEF TypeOK, StoreTypeOK
<1>2. pending' = [k \in Audio |-> IF k \in keys /\ pending[k] = "none" THEN "due" ELSE pending[k]]
  BY DEF GivesUp, Recorded
<1>3. deleting' = deleting \cup keys BY DEF GivesUp
<1>. QED BY <1>1, <1>2, <1>3 DEF IsSafe

-----------------------------------------------------------------------------
(* What a step leaves alone *)

Pc == {"plan", "insert", "script", "chapters", "encode", "publish", "save", "fail", "done", "unplanned", "failed"}

\* Only the workflow of e moves.
OnlyFlow(e) ==
  /\ flows' \in [Episode -> Flow]
  /\ \A d \in Episode \ {e} : flows'[d] = flows[d]

\* A workflow that goes on keeps its chapters.
LEMMA GoingOn ==
  ASSUME TypeOK, NEW e \in Episode, NEW pc \in Pc, GoesTo(e, pc)
  PROVE  /\ OnlyFlow(e) /\ flows'[e].pc = pc
         /\ flows'[e].open = flows[e].open /\ flows'[e].recorded = flows[e].recorded
<1>1. flows \in [Episode -> Flow] BY DEF TypeOK
<1>2. flows' = [flows EXCEPT ![e] = [flows[e] EXCEPT !.pc = pc]] BY DEF GoesTo
<1>. QED BY <1>1, <1>2 DEF OnlyFlow, Flow, Pc

\* Only the row of e moves.
OnlyRow(e) ==
  /\ rows' \in [Episode -> Row]
  /\ \A d \in Episode \ {e} : rows'[d] = rows[d]

\* The step does not touch the workflow of d nor its row.
SameFlow(d) ==
  /\ rows'[d] = rows[d] /\ flows'[d] = flows[d]
  /\ MayPublishLate(d)' => MayPublishLate(d)

\* The step does not touch the audio of d, but for what is about to be deleted.
SameAudio(d) ==
  /\ \A c \in 0..MaxChapters : IsSafe(<<d, c>>) =>
       IsSafe(<<d, c>>)' /\ (<<d, c>> \in objects => <<d, c>> \in objects')
  /\ d \in revived => d \in revived'

\* What a step does not touch keeps the invariant.
LEMMA SameFits == ASSUME NEW d \in Episode, SameFlow(d), FlowFits(d) PROVE FlowFits(d)'
BY DEF SameFlow, FlowFits, At, Is

\* The audio of what a step does not touch is kept.
LEMMA SameIsKept ==
  ASSUME NEW d \in Episode, SameFlow(d), SameAudio(d), AudioIsKept(d) PROVE AudioIsKept(d)'
<1>1. 0 \in 0..MaxChapters BY Bounds
<1>2. \A c \in 0..MaxChapters : IsSafe(<<d, c>>) => IsSafe(<<d, c>>)' /\ (<<d, c>> \in objects => <<d, c>> \in objects')
  BY DEF SameAudio
<1>3. rows'[d] = rows[d] /\ flows'[d] = flows[d] /\ (MayPublishLate(d)' => MayPublishLate(d)) /\ (d \in revived => d \in revived')
  BY DEF SameFlow, SameAudio
<1>4. AudioKey(d) = <<d, 0>> BY DEF AudioKey
<1> HIDE DEF IsSafe, MayPublishLate
<1>. QED BY <1>1, <1>2, <1>3, <1>4 DEF AudioIsKept, Is, AudioKey

\* A step of the workflow of e alone.
LEMMA FlowStepHolds ==
  ASSUME IInv, NEW e \in Episode, TypeOK', UNCHANGED hasTopic,
         \A d \in Episode \ {e} : SameFlow(d) /\ SameAudio(d),
         FlowFits(e)', hasTopic => AudioIsKept(e)',
         ChaptersAreRecorded', NoAudioLeaks', NumbersAreBounded'
  PROVE  IInv'
<1>1. ASSUME NEW d \in Episode PROVE FlowFits(d)' /\ (hasTopic => AudioIsKept(d)')
  <2>1. CASE d = e BY <2>1
  <2>2. CASE d # e
    <3>1. SameFlow(d) /\ SameAudio(d) /\ FlowFits(d) /\ (hasTopic => AudioIsKept(d)) BY <2>2 DEF IInv
    <3>. QED BY <3>1, SameFits, SameIsKept
  <2>. QED BY <2>1, <2>2
<1>. QED BY <1>1 DEF IInv

-----------------------------------------------------------------------------
(* Steps of a workflow that touch no row *)

\* A step that leaves the rows and the bucket alone.
QuietStep == UNCHANGED <<objects, pending, deleting, hasTopic, rows, orphans, revived>>

\* An attempt may outlive its timeout, and only a publish of a saving workflow is one.
LateGrows(e) ==
  /\ late' \subseteq Attempt
  /\ \A d \in Episode : MayPublishLate(d)' => MayPublishLate(d) \/ (d = e /\ At(e, "save"))

\* Nothing is late.
LEMMA LateStays == ASSUME TypeOK, NEW e \in Episode, UNCHANGED late PROVE LateGrows(e)
BY DEF TypeOK, LateGrows, MayPublishLate

\* One more attempt is late.
LEMMA LateOutlives ==
  ASSUME TypeOK, NEW e \in Episode, NEW of \in {"chapter", "encode", "publish"}, NEW c \in 0..MaxChapters,
         OutlivesTimeout(e, of, c), of = "publish" => At(e, "save")
  PROVE  LateGrows(e) /\ faults' \in 0..MaxFaults
<1>1. late' = late \cup {[episode |-> e, of |-> of, chapter |-> c]} BY DEF OutlivesTimeout
<1>2. [episode |-> e, of |-> of, chapter |-> c] \in Attempt BY DEF Attempt
<1>3. faults' \in 0..MaxFaults BY Bounds DEF OutlivesTimeout, Fault, TypeOK, StoreTypeOK
<1>. QED BY <1>1, <1>2, <1>3 DEF LateGrows, MayPublishLate, TypeOK

\* A quiet step of the workflow of e keeps the invariant if the workflow still fits.
LEMMA QuietHolds ==
  ASSUME IInv, NEW e \in Episode, QuietStep, OnlyFlow(e), LateGrows(e), faults' \in 0..MaxFaults,
         FlowFits(e)', flows'[e].recorded = flows[e].recorded,
         flows'[e].pc \in {"publish", "save"} => flows[e].pc \in {"publish", "save"}
  PROVE  IInv'
<1>1. TypeOK' BY DEF IInv, TypeOK, StoreTypeOK, QuietStep, OnlyFlow, LateGrows
<1>2. ASSUME NEW d \in Episode \ {e} PROVE SameFlow(d) /\ SameAudio(d)
  <2>1. rows'[d] = rows[d] /\ flows'[d] = flows[d] /\ (MayPublishLate(d)' => MayPublishLate(d))
    BY DEF QuietStep, OnlyFlow, LateGrows
  <2>. QED BY <2>1 DEF SameFlow, SameAudio, QuietStep, IsSafe
<1>3. ASSUME hasTopic PROVE AudioIsKept(e)'
  <2>1. AudioIsKept(e) BY <1>3 DEF IInv
  <2>2. MayPublishLate(e)' => MayPublishLate(e) \/ At(e, "save") BY DEF LateGrows
  <2> HIDE DEF MayPublishLate
  <2>. QED BY <2>1, <2>2 DEF AudioIsKept, Is, At, IsSafe, AudioKey, QuietStep
<1>4. ASSUME NEW d \in Episode PROVE flows'[d].recorded = flows[d].recorded
  BY <1>2 DEF SameFlow
<1>5. ChaptersAreRecorded' BY <1>4 DEF IInv, ChaptersAreRecorded, QuietStep
<1>6. NoAudioLeaks' BY DEF IInv, NoAudioLeaks, QuietStep, Is, AudioKey
<1>7. NumbersAreBounded' BY DEF IInv, NumbersAreBounded, QuietStep
<1>8. UNCHANGED hasTopic BY DEF QuietStep
<1>. QED BY <1>1, <1>2, <1>3, <1>5, <1>6, <1>7, <1>8, FlowStepHolds

\* The places that ask nothing of the row.
IdlePc == {"publish", "save", "fail", "done", "unplanned", "failed"}

\* A workflow that fits its row fits it when it only goes to another place.
LEMMA GoingFits ==
  ASSUME IInv, NEW e \in Episode, QuietStep, LateGrows(e), NEW pc \in Pc, GoesTo(e, pc),
         \/ pc \in IdlePc /\ (Is(e, "none") => pc \in {"unplanned", "failed"})
         \/ pc = flows[e].pc /\ pc # "save"
         \/ pc = "plan" /\ flows[e].pc \in {"plan", "insert"}
         \/ pc = "insert" /\ At(e, "plan") /\ Is(e, "none")
         \/ pc = "script" /\ At(e, "plan") /\ Is(e, "recording")
         \/ pc = "encode" /\ At(e, "chapters")
  PROVE  FlowFits(e)'
<1>1. FlowFits(e) BY DEF IInv
<1>2. flows'[e].pc = pc /\ flows'[e].open = flows[e].open /\ flows'[e].recorded = flows[e].recorded
  BY GoingOn DEF IInv
<1>3. MayPublishLate(e)' => MayPublishLate(e) \/ At(e, "save") BY DEF LateGrows
<1>4. rows'[e] = rows[e] BY DEF QuietStep
<1> HIDE DEF MayPublishLate
<1>. QED BY <1>1, <1>2, <1>3, <1>4 DEF FlowFits, At, Is, IdlePc

\* Where a quiet step may take a workflow.
MayGo(e, pc) ==
  \/ pc \in {"fail", "done", "failed"} /\ ~Is(e, "none")
  \/ pc \in {"publish", "save"} /\ flows[e].pc \in {"publish", "save"}
  \/ pc \in {"unplanned", "failed", "plan"} /\ flows[e].pc \in {"plan", "insert"}
  \/ pc = "insert" /\ At(e, "plan") /\ Is(e, "none")
  \/ pc = "script" /\ At(e, "plan") /\ Is(e, "recording")
  \/ pc = "encode" /\ flows[e].pc \in {"chapters", "encode"}

\* A quiet step to such a place keeps the invariant.
LEMMA GoingHolds ==
  ASSUME IInv, NEW e \in Episode, QuietStep, LateGrows(e), faults' \in 0..MaxFaults,
         NEW pc \in Pc, GoesTo(e, pc), MayGo(e, pc)
  PROVE  IInv'
<1>1. FlowFits(e) BY DEF IInv
<1>2. FlowFits(e)' BY <1>1, GoingFits DEF MayGo, FlowFits, At, Is, IdlePc
<1>3. OnlyFlow(e) /\ flows'[e].pc = pc /\ flows'[e].recorded = flows[e].recorded BY GoingOn DEF IInv
<1>4. pc \in {"publish", "save"} => flows[e].pc \in {"publish", "save"} BY DEF MayGo
<1>. QED BY <1>2, <1>3, <1>4, QuietHolds

\* The store's faults stay within their bound.
LEMMA Faulty == ASSUME TypeOK, Fault \/ UNCHANGED faults PROVE faults' \in 0..MaxFaults
BY Bounds DEF Fault, TypeOK, StoreTypeOK

\* The checks of a plan start a row only where there is none.
LEMMA PlanReadsHolds == ASSUME IInv, NEW e \in Episode, PlanReads(e) PROVE IInv'
<1>1. TypeOK BY DEF IInv
<1>2. QuietStep /\ UNCHANGED late /\ UNCHANGED faults /\ At(e, "plan") BY DEF PlanReads, QuietStep, store
<1>3. LateGrows(e) /\ faults' \in 0..MaxFaults BY <1>1, <1>2, LateStays, Faulty
<1>4. CASE GoesTo(e, "unplanned") BY <1>2, <1>3, <1>4, GoingHolds DEF MayGo, Pc, At
<1>5. CASE GoesTo(e, "script") /\ Is(e, "recording") BY <1>2, <1>3, <1>5, GoingHolds DEF MayGo, Pc
<1>6. CASE Is(e, "none") /\ \E isShort \in BOOLEAN :
             flows' = [flows EXCEPT ![e] = [@ EXCEPT !.pc = "insert", !.isShort = isShort]]
  <2>1. PICK isShort \in BOOLEAN :
          flows' = [flows EXCEPT ![e] = [@ EXCEPT !.pc = "insert", !.isShort = isShort]]
    BY <1>6
  <2>2. flows \in [Episode -> Flow] BY <1>1 DEF TypeOK
  <2>3. flows' = [flows EXCEPT ![e] = [flows[e] EXCEPT !.pc = "insert", !.isShort = isShort]] BY <2>1
  <2>4. OnlyFlow(e) /\ flows'[e].pc = "insert" /\ flows'[e].recorded = flows[e].recorded
    BY <2>2, <2>3 DEF OnlyFlow, Flow
  <2>5. FlowFits(e) BY DEF IInv
  <2>6. FlowFits(e)' BY <1>2, <1>3, <1>6, <2>4, <2>5 DEF FlowFits, At, Is, QuietStep, LateGrows
  <2>. QED BY <1>2, <1>3, <2>4, <2>6, QuietHolds
<1>. QED BY <1>4, <1>5, <1>6 DEF PlanReads

\* A plan that fails has written nothing.
LEMMA PlanFailsHolds == ASSUME IInv, NEW e \in Episode, PlanFails(e) PROVE IInv'
<1>1. TypeOK BY DEF IInv
<1>2. QuietStep /\ UNCHANGED late /\ Fault BY DEF PlanFails, QuietStep
<1>3. LateGrows(e) /\ faults' \in 0..MaxFaults BY <1>1, <1>2, LateStays, Faulty
<1>4. flows[e].pc \in {"plan", "insert"} BY DEF PlanFails
<1>5. \E pc \in {"plan", "failed"} : GoesTo(e, pc) BY DEF PlanFails, RunsAgain
<1>. QED BY <1>2, <1>3, <1>4, <1>5, GoingHolds DEF MayGo, Pc

\* A workflow that has come past its plan has a row.
LEMMA PastPlanHasRow ==
  ASSUME IInv, NEW e \in Episode, flows[e].pc \in Pc \ {"plan", "insert", "unplanned", "failed"}
  PROVE  ~Is(e, "none")
BY DEF IInv, FlowFits, Pc

\* An activity that failed leads to the failure, which looks at the row again.
LEMMA ActivityFailsHolds == ASSUME IInv, NEW e \in Episode, ActivityFails(e) PROVE IInv'
<1>1. TypeOK BY DEF IInv
<1>2. QuietStep /\ UNCHANGED late /\ UNCHANGED faults BY DEF ActivityFails, QuietStep, store
<1>3. LateGrows(e) /\ faults' \in 0..MaxFaults BY <1>1, <1>2, LateStays, Faulty
<1>4. ~Is(e, "none") BY PastPlanHasRow DEF ActivityFails, Pc
<1>. QED BY <1>2, <1>3, <1>4, GoingHolds DEF ActivityFails, MayGo, Pc

\* The finished audio is made once no chapter is open.
LEMMA ChaptersEndHolds == ASSUME IInv, NEW e \in Episode, ChaptersEnd(e) PROVE IInv'
<1>1. TypeOK BY DEF IInv
<1>2. QuietStep /\ UNCHANGED late /\ UNCHANGED faults BY DEF ChaptersEnd, QuietStep, store
<1>3. LateGrows(e) /\ faults' \in 0..MaxFaults BY <1>1, <1>2, LateStays, Faulty
<1>4. flows[e].pc = "chapters" BY DEF ChaptersEnd, At
<1>5. ~Is(e, "none") BY <1>4, PastPlanHasRow DEF Pc
<1>6. \E pc \in {"fail", "encode"} : GoesTo(e, pc) BY DEF ChaptersEnd
<1>. QED BY <1>2, <1>3, <1>4, <1>5, <1>6, GoingHolds DEF MayGo, Pc

\* An encoding that outlives its timeout stores an object of its own Podcast Episode.
LEMMA EncodeTimesOutHolds == ASSUME IInv, NEW e \in Episode, EncodeTimesOut(e) PROVE IInv'
<1>1. TypeOK BY DEF IInv
<1>2. QuietStep /\ OutlivesTimeout(e, "encode", 0) BY DEF EncodeTimesOut, QuietStep
<1>3. LateGrows(e) /\ faults' \in 0..MaxFaults BY <1>1, <1>2, Bounds, LateOutlives
<1>4. flows[e].pc = "encode" BY DEF EncodeTimesOut, At
<1>5. ~Is(e, "none") BY <1>4, PastPlanHasRow DEF Pc
<1>6. \E pc \in {"fail", "encode"} : GoesTo(e, pc) BY DEF EncodeTimesOut, RunsAgain
<1>. QED BY <1>2, <1>3, <1>4, <1>5, <1>6, GoingHolds DEF MayGo, Pc

\* A publish reads the row before its transaction.
LEMMA PublishReadsHolds == ASSUME IInv, NEW e \in Episode, PublishReads(e) PROVE IInv'
<1>1. TypeOK BY DEF IInv
<1>2. QuietStep /\ UNCHANGED late /\ UNCHANGED faults BY DEF PublishReads, QuietStep, store
<1>3. LateGrows(e) /\ faults' \in 0..MaxFaults BY <1>1, <1>2, LateStays, Faulty
<1>4. flows[e].pc = "publish" BY DEF PublishReads, At
<1>5. ~Is(e, "none") BY <1>4, PastPlanHasRow DEF Pc
<1>6. \E pc \in {"done", "save", "fail"} : GoesTo(e, pc) BY DEF PublishReads
<1>. QED BY <1>2, <1>3, <1>4, <1>5, <1>6, GoingHolds DEF MayGo, Pc

\* A publish may outlive its timeout once the audio is there.
LEMMA PublishTimesOutHolds == ASSUME IInv, NEW e \in Episode, PublishTimesOut(e) PROVE IInv'
<1>1. TypeOK BY DEF IInv
<1>2. QuietStep /\ OutlivesTimeout(e, "publish", 0) /\ At(e, "save") BY DEF PublishTimesOut, QuietStep
<1>3. LateGrows(e) /\ faults' \in 0..MaxFaults BY <1>1, <1>2, Bounds, LateOutlives
<1>4. flows[e].pc = "save" BY <1>2 DEF At
<1>5. ~Is(e, "none") BY <1>4, PastPlanHasRow DEF Pc
<1>6. \E pc \in {"fail", "publish"} : GoesTo(e, pc) BY DEF PublishTimesOut, RunsAgain
<1>. QED BY <1>2, <1>3, <1>4, <1>5, <1>6, GoingHolds DEF MayGo, Pc

\* A failure that is not saved leaves the row recording, and its audio with it.
LEMMA FailFailsHolds == ASSUME IInv, NEW e \in Episode, FailFails(e) PROVE IInv'
<1>1. TypeOK BY DEF IInv
<1>2. QuietStep /\ UNCHANGED late /\ Fault BY DEF FailFails, QuietStep
<1>3. LateGrows(e) /\ faults' \in 0..MaxFaults BY <1>1, <1>2, LateStays, Faulty
<1>4. ~Is(e, "none") BY PastPlanHasRow DEF FailFails, At, Pc
<1>. QED BY <1>2, <1>3, <1>4, GoingHolds DEF FailFails, MayGo, Pc

-----------------------------------------------------------------------------
(* Chapters and the finished audio *)

\* A chapter that is left out is not open any more.
LEMMA LeavingOut ==
  ASSUME TypeOK, NEW e \in Episode, NEW c \in Chapter, LeavesOut(e, c)
  PROVE  /\ OnlyFlow(e) /\ flows'[e].pc = flows[e].pc
         /\ flows'[e].open = flows[e].open \ {c} /\ flows'[e].recorded = flows[e].recorded
<1>1. flows \in [Episode -> Flow] BY DEF TypeOK
<1>2. flows' = [flows EXCEPT ![e] = [flows[e] EXCEPT !.open = flows[e].open \ {c}]] BY DEF LeavesOut
<1>. QED BY <1>1, <1>2 DEF OnlyFlow, Flow

\* A workflow that leaves a chapter out, or waits for it, fits its row.
LEMMA LeavingFits ==
  ASSUME IInv, NEW e \in Episode, NEW c \in Chapter, At(e, "chapters"), LateGrows(e), UNCHANGED rows,
         LeavesOut(e, c) \/ UNCHANGED flows
  PROVE  OnlyFlow(e) /\ flows'[e].pc = flows[e].pc /\ flows'[e].recorded = flows[e].recorded /\ FlowFits(e)'
<1>1. FlowFits(e) /\ TypeOK BY DEF IInv
<1>2. MayPublishLate(e)' => MayPublishLate(e) BY DEF LateGrows, At
<1>3. OnlyFlow(e) /\ flows'[e].pc = flows[e].pc /\ flows'[e].recorded = flows[e].recorded
      /\ flows'[e].open \subseteq flows[e].open
  BY <1>1, LeavingOut DEF TypeOK, OnlyFlow
<1> HIDE DEF MayPublishLate
<1>4. FlowFits(e)' BY <1>1, <1>2, <1>3 DEF FlowFits, At, Is
<1>. QED BY <1>3, <1>4

\* A chapter that is left out was not stored.
LEMMA ChapterFailsHolds ==
  ASSUME IInv, NEW e \in Episode, NEW c \in Chapter, ChapterFails(e, c) PROVE IInv'
<1>1. QuietStep /\ UNCHANGED late /\ UNCHANGED faults /\ TypeOK BY DEF ChapterFails, QuietStep, store, IInv
<1>2. LateGrows(e) /\ faults' \in 0..MaxFaults BY <1>1, LateStays, Faulty
<1>3. OnlyFlow(e) /\ flows'[e].pc = flows[e].pc /\ flows'[e].recorded = flows[e].recorded /\ FlowFits(e)'
  BY <1>2, LeavingFits DEF ChapterFails
<1>. QED BY <1>1, <1>2, <1>3, QuietHolds

\* A chapter that outlives its timeout has stored nothing yet.
LEMMA ChapterTimesOutHolds ==
  ASSUME IInv, NEW e \in Episode, NEW c \in Chapter, ChapterTimesOut(e, c) PROVE IInv'
<1>1. QuietStep /\ OutlivesTimeout(e, "chapter", c) /\ TypeOK BY DEF ChapterTimesOut, QuietStep, IInv
<1>2. LateGrows(e) /\ faults' \in 0..MaxFaults BY <1>1, Bounds, LateOutlives
<1>3. OnlyFlow(e) /\ flows'[e].pc = flows[e].pc /\ flows'[e].recorded = flows[e].recorded /\ FlowFits(e)'
  BY <1>2, LeavingFits DEF ChapterTimesOut
<1>. QED BY <1>1, <1>2, <1>3, QuietHolds

\* A step that stores one object of e, and keeps the promises about it, keeps the invariant.
LEMMA UploadHolds ==
  ASSUME IInv, NEW e \in Episode, NEW c \in 0..MaxChapters, Uploads(<<e, c>>),
         OnlyFlow(e), FlowFits(e)', orphans' \subseteq Audio, orphans \subseteq orphans',
         late' \subseteq late, faults' \in 0..MaxFaults,
         UNCHANGED <<pending, deleting, hasTopic, rows, revived>>,
         flows[e].recorded \subseteq flows'[e].recorded,
         flows'[e].pc \in {"publish", "save"} => flows[e].pc \in {"publish", "save"} \/ c = 0,
         <<e, c>> \in orphans' \/ (Is(e, "recording") /\ (c = 0 \/ c \in flows'[e].recorded))
  PROVE  IInv'
<1>1. <<e, c>> \in Audio /\ <<e, c>>[1] = e BY KeyOf
<1>2. objects' = objects \cup {<<e, c>>} BY DEF Uploads
<1>3. TypeOK' BY <1>1, <1>2 DEF IInv, TypeOK, StoreTypeOK, OnlyFlow
<1>4. ASSUME NEW d \in Episode PROVE MayPublishLate(d)' => MayPublishLate(d) BY DEF MayPublishLate
<1>5. ASSUME NEW d \in Episode \ {e} PROVE SameFlow(d) /\ SameAudio(d)
  BY <1>2, <1>4 DEF SameFlow, SameAudio, OnlyFlow, IsSafe
<1>6. ASSUME hasTopic PROVE AudioIsKept(e)'
  <2>1. AudioIsKept(e) BY <1>6 DEF IInv
  <2>2. AudioKey(e) \in objects => AudioKey(e) \in objects' BY <1>2
  <2>3. c = 0 => AudioKey(e) \in objects' BY <1>2 DEF AudioKey
  <2> HIDE DEF MayPublishLate
  <2>. QED BY <2>1, <2>2, <2>3, <1>4 DEF AudioIsKept, Is, IsSafe, AudioKey
<1>7. ASSUME NEW d \in Episode, NEW q \in Chapter, <<d, q>> \in objects' \ orphans'
      PROVE  q \in flows'[d].recorded
  <2>1. q # 0 BY DEF Chapter
  <2>2. CASE <<d, q>> \in objects
    BY <1>7, <2>2 DEF IInv, ChaptersAreRecorded, OnlyFlow
  <2>3. CASE <<d, q>> = <<e, c>> BY <1>7, <2>1, <2>3
  <2>. QED BY <1>2, <1>7, <2>2, <2>3
<1>8. ChaptersAreRecorded' BY <1>7 DEF ChaptersAreRecorded
<1>9. NoAudioLeaks' BY <1>1, <1>2 DEF IInv, NoAudioLeaks, Is, AudioKey
<1>10. NumbersAreBounded' BY DEF IInv, NumbersAreBounded
<1>. QED BY <1>3, <1>5, <1>6, <1>8, <1>9, <1>10, FlowStepHolds

\* A recorded chapter is stored and named together.
LEMMA RecordChapterHolds ==
  ASSUME IInv, NEW e \in Episode, NEW c \in Chapter, RecordChapter(e, c) PROVE IInv'
<1>1. TypeOK /\ FlowFits(e) BY DEF IInv
<1>2. At(e, "chapters") /\ c \in flows[e].open /\ Uploads(<<e, c>>)
      /\ UNCHANGED <<pending, deleting, faults, hasTopic, rows, late, orphans, revived>>
  BY DEF RecordChapter, ChapterKey
<1>3. c \in Chapter /\ flows \in [Episode -> Flow] BY <1>1 DEF TypeOK
<1>4. OnlyFlow(e) /\ flows'[e].pc = "chapters" /\ flows'[e].open = flows[e].open \ {c}
      /\ flows'[e].recorded = flows[e].recorded \cup {c}
  BY <1>2, <1>3 DEF RecordChapter, Flow, OnlyFlow, At
<1>5. MayPublishLate(e)' = MayPublishLate(e) BY <1>2 DEF MayPublishLate
<1>6. FlowFits(e)' BY <1>1, <1>2, <1>4, <1>5 DEF FlowFits, At, Is
<1>7. Is(e, "recording") BY <1>1, <1>2 DEF FlowFits, At
<1>8. c \in 0..MaxChapters BY Bounds
<1>9. orphans' \subseteq Audio /\ faults' \in 0..MaxFaults BY <1>1, <1>2 DEF TypeOK, StoreTypeOK
<1>. QED BY <1>2, <1>4, <1>6, <1>7, <1>8, <1>9, UploadHolds

\* A chapter whose result is lost is the fault's.
LEMMA ChapterIsLostHolds ==
  ASSUME IInv, NEW e \in Episode, NEW c \in Chapter, ChapterIsLost(e, c) PROVE IInv'
<1>1. TypeOK BY DEF IInv
<1>2. At(e, "chapters") /\ Uploads(<<e, c>>) /\ orphans' = orphans \cup {<<e, c>>} /\ LeavesOut(e, c) /\ Fault
      /\ UNCHANGED <<pending, deleting, hasTopic, rows, late, revived>>
  BY DEF ChapterIsLost, ChapterKey
<1>3. LateGrows(e) /\ faults' \in 0..MaxFaults BY <1>1, <1>2, LateStays, Faulty
<1>4. OnlyFlow(e) /\ flows'[e].pc = flows[e].pc /\ flows'[e].recorded = flows[e].recorded /\ FlowFits(e)'
  BY <1>2, <1>3, LeavingFits
<1>5. c \in 0..MaxChapters /\ <<e, c>> \in Audio BY Bounds, KeyOf
<1>6. orphans' \subseteq Audio BY <1>1, <1>2, <1>5 DEF TypeOK
<1>. QED BY <1>2, <1>3, <1>4, <1>5, <1>6, UploadHolds

\* The finished audio is stored before the workflow comes to publish it.
LEMMA EncodeHolds == ASSUME IInv, NEW e \in Episode, Encode(e) PROVE IInv'
<1>1. TypeOK /\ FlowFits(e) BY DEF IInv
<1>2. At(e, "encode") /\ Uploads(<<e, 0>>)
      /\ UNCHANGED <<pending, deleting, hasTopic, rows, late, orphans, revived>>
  BY DEF Encode, AudioKey
<1>3. \E pc \in {"publish", "encode", "fail"} : GoesTo(e, pc) BY DEF Encode, RunsAgain
<1>4. OnlyFlow(e) /\ flows'[e].pc \in {"publish", "encode", "fail"} /\ flows'[e].recorded = flows[e].recorded
  BY <1>1, <1>3, GoingOn DEF Pc
<1>5. MayPublishLate(e)' = MayPublishLate(e) BY <1>2 DEF MayPublishLate
<1>6. Is(e, "recording") BY <1>1, <1>2 DEF FlowFits, At
<1>7. FlowFits(e)' BY <1>1, <1>2, <1>4, <1>5, <1>6 DEF FlowFits, At, Is
<1>8. 0 \in 0..MaxChapters BY Bounds
<1>9. faults' \in 0..MaxFaults BY <1>1, Faulty DEF Encode
<1>10. orphans' \subseteq Audio BY <1>1, <1>2 DEF TypeOK
<1>. QED BY <1>2, <1>4, <1>6, <1>7, <1>8, <1>9, <1>10, UploadHolds

\* A late upload is the fault's, whatever became of its row.
LEMMA LateUploadHolds ==
  ASSUME IInv, NEW a \in late, LateUpload(a), late' = late \ {a}, UNCHANGED <<faults, hasTopic, flows>>
  PROVE  IInv'
<1>1. TypeOK BY DEF IInv
<1>2. a.episode \in Episode /\ a.chapter \in 0..MaxChapters BY <1>1 DEF TypeOK, Attempt
<1> DEFINE e == a.episode
           c == a.chapter
<1>3. Uploads(<<e, c>>) /\ orphans' = orphans \cup {<<e, c>>} /\ UNCHANGED <<pending, deleting, rows, revived>>
  BY DEF LateUpload, ChapterKey
<1>4. <<e, c>> \in Audio BY <1>2, KeyOf
<1>5. orphans' \subseteq Audio /\ faults' \in 0..MaxFaults BY <1>1, <1>3, <1>4 DEF TypeOK, StoreTypeOK
<1>6. MayPublishLate(e)' => MayPublishLate(e) BY DEF MayPublishLate
<1>7. OnlyFlow(e) BY <1>1 DEF TypeOK, OnlyFlow
<1>8. FlowFits(e) BY <1>2 DEF IInv
<1>9. FlowFits(e)' BY <1>3, <1>6, <1>8 DEF FlowFits, At, Is
<1> HIDE DEF e, c
<1>. QED BY <1>2, <1>3, <1>5, <1>7, <1>9, UploadHolds DEF e, c

-----------------------------------------------------------------------------
(* Steps that write the row of one Podcast Episode *)

\* The number of a row is a natural number.
LEMMA RowFields ==
  ASSUME TypeOK, NEW e \in Episode
  PROVE  /\ rows[e] \in Row /\ rows[e].number \in Nat /\ rows[e].script \in 0..MaxChapters
         /\ flows[e] \in Flow /\ flows[e].recorded \subseteq Chapter /\ flows[e].open \subseteq Chapter
BY DEF TypeOK, Row, Flow

\* Numbers that stay are bounded as before.
LEMMA NumbersStay ==
  ASSUME IInv, \A e \in Episode : rows'[e].number = rows[e].number PROVE NumbersAreBounded'
BY DEF IInv, NumbersAreBounded

\* The chapters that are stored stay recorded.
LEMMA ChaptersStay ==
  ASSUME IInv, UNCHANGED <<objects, orphans>>, \A e \in Episode : flows[e].recorded \subseteq flows'[e].recorded
  PROVE  ChaptersAreRecorded'
BY DEF IInv, ChaptersAreRecorded

\* A new row has no audio yet, and nothing of it is given up.
LEMMA PlanInsertsHolds == ASSUME IInv, NEW e \in Episode, PlanInserts(e) PROVE IInv'
<1>1. TypeOK /\ FlowFits(e) /\ At(e, "insert") /\ Is(e, "none") BY DEF IInv, PlanInserts, FlowFits
<1>2. UNCHANGED <<objects, pending, deleting, hasTopic, late, orphans, revived>> BY DEF PlanInserts
<1>3. LateGrows(e) BY <1>1, <1>2, LateStays
<1>4. CASE ~hasTopic
  <2>1. GoesTo(e, "unplanned") /\ UNCHANGED <<rows, faults>> BY <1>4 DEF PlanInserts
  <2>2. faults' \in 0..MaxFaults BY <1>1, <2>1, Faulty
  <2>. QED BY <1>1, <1>2, <1>3, <2>1, <2>2, GoingHolds DEF QuietStep, MayGo, At, Pc
<1>5. CASE hasTopic
  <2>1. rows' = [rows EXCEPT ![e] = [rows[e] EXCEPT !.status = "recording", !.isShort = flows[e].isShort]]
    BY <1>5 DEF PlanInserts
  <2>2. OnlyRow(e) /\ rows'[e].status = "recording" /\ rows'[e].number = rows[e].number
        /\ rows'[e].script = rows[e].script /\ rows'[e].season = rows[e].season
    BY <1>1, <2>1 DEF TypeOK, OnlyRow, Row, Flow
  <2>3. \E pc \in {"script", "plan", "failed"} : GoesTo(e, pc) BY <1>5 DEF PlanInserts, RunsAgain
  <2>4. OnlyFlow(e) /\ flows'[e].pc \in {"script", "plan", "failed"} /\ flows'[e].recorded = flows[e].recorded
    BY <1>1, <2>3, GoingOn DEF Pc
  <2>5. faults' \in 0..MaxFaults BY <1>1, <1>5, Faulty DEF PlanInserts
  <2>6. TypeOK' BY <1>1, <1>2, <2>2, <2>4, <2>5 DEF TypeOK, StoreTypeOK, OnlyRow, OnlyFlow
  <2>7. ASSUME NEW d \in Episode PROVE MayPublishLate(d)' = MayPublishLate(d) BY <1>2 DEF MayPublishLate
  <2>8. ~MayPublishLate(e) /\ flows[e].recorded = {} BY <1>1 DEF FlowFits, At
  <2>9. FlowFits(e)' BY <1>1, <2>2, <2>4, <2>7, <2>8 DEF FlowFits, At, Is
  <2>10. ASSUME NEW d \in Episode \ {e} PROVE SameFlow(d) /\ SameAudio(d)
    BY <1>2, <2>2, <2>4, <2>7 DEF SameFlow, SameAudio, OnlyRow, OnlyFlow, IsSafe
  <2>11. AudioIsKept(e) BY <1>5 DEF IInv
  <2>12. AudioIsKept(e)'
    BY <1>1, <1>2, <2>2, <2>4, <2>7, <2>8, <2>11 DEF AudioIsKept, Is, IsSafe
  <2>13. ChaptersAreRecorded' BY <1>2, <2>4, ChaptersStay DEF OnlyFlow
  <2>14. NoAudioLeaks'
    <3>1. ASSUME NEW k \in objects' \ orphans'
          PROVE  \/ Is(k[1], "recording")'
                 \/ hasTopic' /\ Is(k[1], "published")' /\ k = AudioKey(k[1])
                 \/ pending'[k] # "none"
      <4>1. k \in Audio /\ k \in objects \ orphans BY <1>1, <1>2 DEF TypeOK, StoreTypeOK
      <4>2. k[1] \in Episode BY <4>1, KeyParts
      <4>3. CASE k[1] = e BY <2>2, <4>3 DEF Is
      <4>4. CASE k[1] # e
        BY <1>2, <2>2, <4>1, <4>2, <4>4 DEF IInv, NoAudioLeaks, Is, OnlyRow
      <4>. QED BY <4>3, <4>4
    <3>. QED BY <3>1 DEF NoAudioLeaks, AudioKey
  <2>15. NumbersAreBounded' BY <2>2, NumbersStay DEF OnlyRow
  <2>. QED BY <1>2, <1>5, <2>6, <2>9, <2>10, <2>12, <2>13, <2>14, <2>15, FlowStepHolds
<1>. QED BY <1>4, <1>5

\* A script is written before its chapters are recorded.
LEMMA WriteScriptHolds == ASSUME IInv, NEW e \in Episode, WriteScript(e) PROVE IInv'
<1>1. TypeOK /\ FlowFits(e) /\ At(e, "script") BY DEF IInv, WriteScript
<1>2. Is(e, "recording") /\ flows[e].recorded = {} /\ ~MayPublishLate(e) BY <1>1 DEF FlowFits, At
<1>3. UNCHANGED <<objects, pending, deleting, faults, hasTopic, late, orphans, revived>> BY DEF WriteScript, store
<1>4. PICK n \in Chapter :
        /\ rows' = [rows EXCEPT ![e].script = n]
        /\ flows' = [flows EXCEPT ![e] = [flows[e] EXCEPT !.pc = "chapters", !.open = 1..n]]
  BY DEF WriteScript
<1>5. n \in 0..MaxChapters /\ 1..n \subseteq Chapter BY Bounds DEF Chapter
<1>6. OnlyRow(e) /\ rows'[e].status = rows[e].status /\ rows'[e].number = rows[e].number /\ rows'[e].script = n
      /\ rows'[e].season = rows[e].season
  BY <1>1, <1>4, <1>5 DEF TypeOK, OnlyRow, Row
<1>7. OnlyFlow(e) /\ flows'[e].pc = "chapters" /\ flows'[e].open = 1..n /\ flows'[e].recorded = flows[e].recorded
  BY <1>1, <1>4, <1>5 DEF TypeOK, OnlyFlow, Flow
<1>8. TypeOK' BY <1>1, <1>3, <1>6, <1>7 DEF TypeOK, StoreTypeOK, OnlyRow, OnlyFlow
<1>9. ASSUME NEW d \in Episode PROVE MayPublishLate(d)' = MayPublishLate(d) BY <1>3 DEF MayPublishLate
<1>10. FlowFits(e)' BY <1>1, <1>2, <1>6, <1>7, <1>9 DEF FlowFits, At, Is
<1>11. ASSUME NEW d \in Episode \ {e} PROVE SameFlow(d) /\ SameAudio(d)
  BY <1>3, <1>6, <1>7, <1>9 DEF SameFlow, SameAudio, OnlyRow, OnlyFlow, IsSafe
<1>12. hasTopic => AudioIsKept(e)'
  BY <1>2, <1>3, <1>6, <1>7, <1>9 DEF IInv, AudioIsKept, Is, IsSafe
<1>13. ChaptersAreRecorded' BY <1>3, <1>7, ChaptersStay DEF OnlyFlow
<1>14. ASSUME NEW d \in Episode PROVE rows'[d].status = rows[d].status /\ rows'[d].number = rows[d].number
  BY <1>6 DEF OnlyRow
<1>15. NoAudioLeaks'
  <2>1. \A k \in objects : k[1] \in Episode BY <1>1, KeyParts DEF TypeOK, StoreTypeOK
  <2>. QED BY <1>3, <1>14, <2>1 DEF IInv, NoAudioLeaks, Is, AudioKey
<1>16. NumbersAreBounded' BY <1>14, NumbersStay
<1>. QED BY <1>3, <1>8, <1>10, <1>11, <1>12, <1>13, <1>15, <1>16, FlowStepHolds

\* All the audio of a Podcast Episode is given up with its row: the rows say what was stored.
LEMMA EndingHolds ==
  ASSUME IInv, NEW e \in Episode, OnlyRow(e), rows'[e].status \in {"failed", "removed"},
         rows'[e].number = rows[e].number, GivesUp(AudioKeys(e)),
         OnlyFlow(e), flows'[e].recorded = flows[e].recorded, FlowFits(e)',
         UNCHANGED <<objects, faults, hasTopic, late, orphans, revived>>
  PROVE  IInv'
<1>1. TypeOK /\ FlowFits(e) BY DEF IInv
<1>2. /\ AudioKeys(e) \in SUBSET Audio /\ \A k \in AudioKeys(e) : k[1] = e
      /\ \A c \in 1..rows[e].script : <<e, c>> \in AudioKeys(e)
  BY <1>1, AudioKeysOf
<1>3. /\ pending' \in [Audio -> {"none", "waiting", "due"}] /\ deleting' \in SUBSET Audio
      /\ \A k \in Audio : (pending[k] # "none" \/ k \in AudioKeys(e)) => pending'[k] # "none"
      /\ \A k \in Audio \ AudioKeys(e) : IsSafe(k) => IsSafe(k)'
  BY <1>1, <1>2, GivingUp
<1>4. TypeOK' BY <1>1, <1>3 DEF TypeOK, StoreTypeOK, OnlyRow, OnlyFlow
<1>5. ASSUME NEW d \in Episode \ {e} PROVE SameFlow(d) /\ SameAudio(d)
  <2>1. MayPublishLate(d)' = MayPublishLate(d) BY DEF MayPublishLate
  <2>2. SameFlow(d) BY <2>1 DEF SameFlow, OnlyRow, OnlyFlow
  <2>3. ASSUME NEW c \in 0..MaxChapters PROVE <<d, c>> \in Audio \ AudioKeys(e) BY <1>2, KeyOf
  <2> HIDE DEF IsSafe
  <2>. QED BY <1>3, <2>2, <2>3 DEF SameAudio
<1>6. AudioIsKept(e)' BY DEF AudioIsKept, Is
<1>7. ChaptersAreRecorded' BY ChaptersStay DEF OnlyFlow
<1>8. ASSUME NEW k \in objects' \ orphans'
      PROVE  \/ Is(k[1], "recording")'
             \/ hasTopic' /\ Is(k[1], "published")' /\ k = AudioKey(k[1])
             \/ pending'[k] # "none"
  <2>1. k \in Audio /\ k \in objects \ orphans BY <1>1 DEF TypeOK, StoreTypeOK
  <2>2. k[1] \in Episode /\ k[2] \in 0..MaxChapters /\ k = <<k[1], k[2]>> BY <2>1, KeyParts
  <2>3. \/ Is(k[1], "recording")
        \/ hasTopic /\ Is(k[1], "published") /\ k = AudioKey(k[1])
        \/ pending[k] # "none"
    BY <2>1 DEF IInv, NoAudioLeaks
  <2>4. CASE k[1] # e BY <1>3, <2>1, <2>2, <2>3, <2>4 DEF Is, OnlyRow
  <2>5. CASE k[1] = e
    <3>1. CASE k[2] = 0
      <4>1. k \in AudioKeys(e) BY <2>2, <2>5, <3>1, AudioKeyOf
      <4>. QED BY <1>3, <2>1, <4>1
    <3>2. CASE k[2] # 0 /\ Is(e, "recording")
      <4>1. k[2] \in Chapter BY <2>2, <3>2, Bounds DEF Chapter
      <4>2. k[2] \in flows[e].recorded BY <2>1, <2>2, <2>5, <4>1 DEF IInv, ChaptersAreRecorded
      <4>3. k[2] \in 1..rows[e].script BY <1>1, <3>2, <4>2 DEF FlowFits
      <4>4. k \in AudioKeys(e) BY <1>2, <2>2, <2>5, <4>3
      <4>. QED BY <1>3, <2>1, <4>4
    <3>3. CASE k[2] # 0 /\ ~Is(e, "recording")
      <4>1. pending[k] # "none" BY <2>2, <2>3, <2>5, <3>3, AudioKeyOf
      <4>. QED BY <1>3, <2>1, <4>1
    <3>. QED BY <3>1, <3>2, <3>3
  <2>. QED BY <2>4, <2>5
<1>9. NoAudioLeaks' BY <1>8 DEF NoAudioLeaks, AudioKey
<1>10. NumbersAreBounded' BY NumbersStay DEF OnlyRow
<1>. QED BY <1>4, <1>5, <1>6, <1>7, <1>9, <1>10, FlowStepHolds

\* Only a recording is failed, with all that its script names.
LEMMA FailEpisodeHolds == ASSUME IInv, NEW e \in Episode, FailEpisode(e) PROVE IInv'
<1>1. TypeOK /\ FlowFits(e) /\ At(e, "fail") /\ GoesTo(e, "done") BY DEF IInv, FailEpisode
<1>2. UNCHANGED <<objects, faults, hasTopic, late, orphans, revived>> BY DEF FailEpisode
<1>3. OnlyFlow(e) /\ flows'[e].pc = "done" /\ flows'[e].recorded = flows[e].recorded
  BY <1>1, GoingOn DEF Pc
<1>4. CASE Is(e, "recording")
  <2>1. rows' = [rows EXCEPT ![e].status = "failed"] /\ GivesUp(AudioKeys(e))
    BY <1>4 DEF FailEpisode, Fails, LeftBehind
  <2>2. OnlyRow(e) /\ rows'[e].status = "failed" /\ rows'[e].number = rows[e].number
    BY <1>1, <2>1 DEF TypeOK, OnlyRow, Row
  <2>3. FlowFits(e)' BY <1>3, <2>2 DEF FlowFits, At, Is
  <2>. QED BY <1>2, <1>3, <2>1, <2>2, <2>3, EndingHolds
<1>5. CASE ~Is(e, "recording")
  <2>1. QuietStep BY <1>2, <1>5 DEF FailEpisode, Fails, QuietStep
  <2>2. LateGrows(e) /\ faults' \in 0..MaxFaults BY <1>1, <1>2, LateStays, Faulty
  <2>3. ~Is(e, "none") BY <1>1, PastPlanHasRow DEF At, Pc
  <2>. QED BY <1>1, <2>1, <2>2, <2>3, GoingHolds DEF MayGo, Pc
<1>. QED BY <1>4, <1>5

\* What is removed is not recording, and gives up all its audio.
LEMMA RemoveEpisodeHolds == ASSUME IInv, NEW e \in Episode, RemoveEpisode(e) PROVE IInv'
<1>1. TypeOK /\ FlowFits(e) /\ rows[e].status \in {"published", "failed"} BY DEF IInv, RemoveEpisode
<1>2. UNCHANGED <<objects, faults, hasTopic, flows, late, orphans, revived>> /\ GivesUp(AudioKeys(e))
  BY DEF RemoveEpisode
<1>3. rows' = [rows EXCEPT ![e] = [rows[e] EXCEPT !.status = "removed", !.script = 0, !.hasChapters = FALSE]]
  BY DEF RemoveEpisode, Removed
<1>4. OnlyRow(e) /\ rows'[e].status = "removed" /\ rows'[e].number = rows[e].number
  BY <1>1, <1>3, Bounds DEF TypeOK, OnlyRow, Row
<1>5. OnlyFlow(e) /\ flows'[e] = flows[e] BY <1>1, <1>2 DEF TypeOK, OnlyFlow
<1>6. MayPublishLate(e)' = MayPublishLate(e) BY <1>2 DEF MayPublishLate
<1>7. FlowFits(e)' BY <1>1, <1>4, <1>5, <1>6 DEF FlowFits, At, Is
<1>. QED BY <1>2, <1>4, <1>5, <1>7, EndingHolds

-----------------------------------------------------------------------------
(* Numbers *)

\* A bounded set of natural numbers has its largest: the least of its bounds.
LEMMA BoundedHasMax ==
  ASSUME NEW S \in SUBSET Nat, 0 \in S, NEW n \in Nat, \A x \in S : x <= n
  PROVE  Max(S) \in Nat /\ \A x \in S : x <= Max(S)
<1> DEFINE bounds == {m \in Nat : \A x \in S : x <= m}
<1>1. bounds \subseteq Nat /\ bounds # {} OBVIOUS
<1>2. PICK least \in bounds : \A y \in bounds : ~(<<y, least>> \in OpToRel(<, Nat))
  BY <1>1, NatLessThanWellFounded, WFMin
<1>3. ASSUME NEW y \in bounds, y < least PROVE FALSE
  BY <1>2, <1>3 DEF OpToRel
<1>4. least \in S
  <2>1. CASE least = 0 BY <2>1
  <2>2. CASE least # 0
    <3>1. SUFFICES ASSUME least \notin S PROVE FALSE OBVIOUS
    <3>2. least - 1 \in Nat /\ least - 1 < least BY <2>2
    <3>3. \A x \in S : x <= least - 1 BY <2>2, <3>1
    <3>. QED BY <1>3, <3>2, <3>3
  <2>. QED BY <2>1, <2>2
<1>5. \E x \in S : \A y \in S : x >= y BY <1>4
<1>. QED BY <1>5 DEF Max

\* The number of the next Podcast Episode is above all that were taken in its season.
LEMMA NextNumber ==
  ASSUME IInv, NEW season
  PROVE  /\ LastNumber(season) \in Nat
         /\ \A d \in Episode : rows[d].season = season => rows[d].number < LastNumber(season) + 1
<1>1. PICK n \in Nat : \A d \in Episode : rows[d].number <= n BY DEF IInv, NumbersAreBounded
<1>2. \A d \in Episode : rows[d].number \in Nat BY RowFields DEF IInv
<1> DEFINE numbers == TakenNumbers(season) \cup {0}
<1>3. numbers \in SUBSET Nat /\ 0 \in numbers /\ \A x \in numbers : x <= n
  BY <1>1, <1>2 DEF TakenNumbers
<1>4. \A d \in Episode : rows[d].season = season => rows[d].number \in numbers BY DEF TakenNumbers
<1>5. LastNumber(season) = Max(numbers) BY DEF LastNumber
<1> HIDE DEF numbers
<1>6. PICK top \in Nat : top = Max(numbers) /\ \A x \in numbers : x <= top BY <1>1, <1>3, BoundedHasMax
<1>7. \A d \in Episode : rows[d].season = season => rows[d].number < top + 1 BY <1>2, <1>4, <1>6
<1>. QED BY <1>5, <1>6, <1>7

-----------------------------------------------------------------------------
(* A Podcast Episode is published *)

\* What publishing e in the season makes of its row and of the row of another Podcast Episode.
PublishedRow(e, season, row) ==
  /\ row \in Row /\ row.status = "published" /\ row.hasChapters /\ row.isShort = rows[e].isShort
  /\ row.season = season /\ row.number = LastNumber(season) + 1 /\ row.script = Cardinality(flows[e].recorded)
  /\ \A d \in Episode : rows[d].season = season => row.number > rows[d].number

OtherRow(e, d, row) ==
  \/ row = rows[d] /\ d \notin Replaces(e)
  \/ d \in Replaces(e) /\ row \in Row /\ row.status = "removed"
     /\ row.season = rows[d].season /\ row.number = rows[d].number

\* The rows that the transaction writes.
LEMMA SavingRows ==
  ASSUME IInv, NEW e \in Episode, SavesPublished(e)
  PROVE  /\ rows' \in [Episode -> Row]
         /\ \E season \in Season : PublishedRow(e, season, rows'[e])
         /\ \A d \in Episode \ {e} : OtherRow(e, d, rows'[d])
<1>1. TypeOK BY DEF IInv
<1> DEFINE script == Cardinality(flows[e].recorded)
<1>0. PICK season \in Season : rows' = [d \in Episode |->
        IF d = e THEN [rows[e] EXCEPT !.status = "published", !.season = season,
                                      !.number = LastNumber(season) + 1,
                                      !.script = script, !.hasChapters = TRUE]
        ELSE IF d \in Replaces(e) THEN Removed(rows[d], rows[d].hasChapters)
        ELSE rows[d]]
  BY DEF SavesPublished
<1>20. PICK number : number = LastNumber(season) + 1 OBVIOUS
<1>2. number \in Nat /\ \A d \in Episode : rows[d].season = season => rows[d].number < number
  BY <1>0, <1>20, NextNumber
<1>3. script \in 0..MaxChapters
  <2>1. IsFiniteSet(Chapter) /\ Cardinality(Chapter) = MaxChapters BY Bounds, FS_Interval DEF Chapter
  <2>2. flows[e].recorded \subseteq Chapter BY <1>1, RowFields
  <2>3. IsFiniteSet(flows[e].recorded) /\ script <= MaxChapters BY <2>1, <2>2, FS_Subset
  <2>. QED BY <2>3, FS_CardinalityType, Bounds
<1> HIDE DEF script
<1> DEFINE new == [rows[e] EXCEPT !.status = "published", !.season = season, !.number = number,
                                  !.script = script, !.hasChapters = TRUE]
           gone(d) == [rows[d] EXCEPT !.status = "removed", !.script = 0, !.hasChapters = rows[d].hasChapters]
<1>4. rows[e] \in Row BY <1>1, RowFields
<1>5. /\ new \in Row /\ new.status = "published" /\ new.season = season /\ new.number = number
      /\ new.script = script /\ new.hasChapters /\ new.isShort = rows[e].isShort
  BY <1>2, <1>3, <1>4, Bounds DEF Row
<1>6. ASSUME NEW d \in Episode
      PROVE  gone(d) \in Row /\ gone(d).status = "removed" /\ gone(d).season = rows[d].season
             /\ gone(d).number = rows[d].number
  <2>1. rows[d] \in Row BY <1>1, RowFields
  <2>. QED BY <2>1, Bounds DEF Row
<1>7. rows' = [d \in Episode |-> IF d = e THEN new ELSE IF d \in Replaces(e) THEN gone(d) ELSE rows[d]]
  BY <1>0, <1>20 DEF Removed
<1> HIDE DEF new, gone
<1>8. rows'[e] = new BY <1>7
<1>9. ASSUME NEW d \in Episode \ {e} PROVE OtherRow(e, d, rows'[d])
  <2>1. CASE d \in Replaces(e)
    <3>1. rows'[d] = gone(d) BY <1>7, <2>1
    <3>. QED BY <1>6, <2>1, <3>1 DEF OtherRow
  <2>2. CASE d \notin Replaces(e)
    <3>1. rows'[d] = rows[d] BY <1>7, <2>2
    <3>. QED BY <2>2, <3>1 DEF OtherRow
  <2>. QED BY <2>1, <2>2
<1>10. ASSUME NEW d \in Episode PROVE rows[d] \in Row BY <1>1, RowFields
<1>11. rows' \in [Episode -> Row] BY <1>5, <1>6, <1>7, <1>10
<1>12. PublishedRow(e, season, rows'[e]) BY <1>0, <1>20, <1>2, <1>5, <1>8 DEF PublishedRow, script
<1>. QED BY <1>9, <1>11, <1>12

\* What the transaction gives up.
GivenUp(e) == RecordedChapters(e) \cup UNION {AudioKeys(d) : d \in Replaces(e)}

\* The transaction gives up the chapters of e and all the audio of what e replaces.
LEMMA GivenUpOf ==
  ASSUME TypeOK, NEW e \in Episode
  PROVE  /\ GivenUp(e) \in SUBSET Audio
         /\ \A k \in GivenUp(e) : (k[1] = e /\ k # AudioKey(e)) \/ k[1] \in Replaces(e)
         /\ \A c \in flows[e].recorded : <<e, c>> \in GivenUp(e)
         /\ \A d \in Replaces(e) : AudioKey(d) \in GivenUp(e)
<1>1. \A d \in Replaces(e) : d \in Episode /\ d # e BY DEF Replaces
<1>2. \A d \in Replaces(e) : AudioKeys(d) \subseteq Audio /\ AudioKey(d) \in AudioKeys(d)
                           /\ \A k \in AudioKeys(d) : k[1] = d
  BY <1>1, AudioKeysOf, AudioKeyOf
<1>3. /\ RecordedChapters(e) \subseteq Audio
      /\ \A k \in RecordedChapters(e) : k[1] = e /\ k # AudioKey(e)
      /\ \A c \in flows[e].recorded : <<e, c>> \in RecordedChapters(e)
  BY RecordedChaptersOf
<1>. QED BY <1>2, <1>3 DEF GivenUp

\* What may be published has its audio, or is not recording any more.
LEMMA PublishHasAudio ==
  ASSUME IInv, hasTopic, NEW e \in Episode, At(e, "save") \/ MayPublishLate(e), Is(e, "recording")
  PROVE  AudioKey(e) \in objects /\ IsSafe(AudioKey(e))
<1>1. AudioIsKept(e) BY DEF IInv
<1>2. flows[e].pc \in {"publish", "save"} \/ MayPublishLate(e) BY DEF At
<1> HIDE DEF IsSafe, MayPublishLate
<1>. QED BY <1>1, <1>2, Bounds DEF AudioIsKept, AudioKey, Is

\* The transaction that publishes e, in an attempt that the workflow waits for or in a late one.
LEMMA SavingHolds ==
  ASSUME IInv, NEW e \in Episode, At(e, "save") \/ MayPublishLate(e), CanSave(e), SavesPublished(e),
         OnlyFlow(e), flows'[e].recorded = flows[e].recorded,
         flows'[e].pc \in {"publish", "fail", "done"} \/ UNCHANGED flows,
         late' \subseteq late, faults' \in 0..MaxFaults, UNCHANGED <<objects, hasTopic, orphans>>
  PROVE  IInv'
<1>1. TypeOK /\ FlowFits(e) /\ hasTopic BY DEF IInv, CanSave
<1>2. PICK season \in Season :
        /\ rows' \in [Episode -> Row] /\ PublishedRow(e, season, rows'[e])
        /\ \A d \in Episode \ {e} : OtherRow(e, d, rows'[d])
  BY SavingRows
<1>3. GivesUp(GivenUp(e)) BY DEF SavesPublished, GivenUp
<1>4. /\ GivenUp(e) \in SUBSET Audio
      /\ \A k \in GivenUp(e) : (k[1] = e /\ k # AudioKey(e)) \/ k[1] \in Replaces(e)
      /\ \A c \in flows[e].recorded : <<e, c>> \in GivenUp(e)
      /\ \A d \in Replaces(e) : AudioKey(d) \in GivenUp(e)
  BY <1>1, GivenUpOf
<1>5. /\ pending' \in [Audio -> {"none", "waiting", "due"}] /\ deleting' \in SUBSET Audio
      /\ \A k \in Audio : (pending[k] # "none" \/ k \in GivenUp(e)) => pending'[k] # "none"
      /\ \A k \in Audio \ GivenUp(e) : IsSafe(k) => IsSafe(k)'
  BY <1>1, <1>3, <1>4, GivingUp
<1>6. revived' = IF Is(e, "recording") THEN revived ELSE revived \cup {e} BY DEF SavesPublished
<1>7. \A d \in Replaces(e) : d \in Episode \ {e} /\ Is(d, "published") BY DEF Replaces
<1>8. TypeOK'
  BY <1>1, <1>2, <1>5, <1>6 DEF TypeOK, StoreTypeOK, OnlyFlow
<1>9. ASSUME NEW d \in Episode PROVE MayPublishLate(d)' => MayPublishLate(d) BY DEF MayPublishLate
<1>10. FlowFits(e)'
  <2>1. flows[e].pc \notin {"plan", "insert", "script", "chapters", "encode"}
    BY <1>1 DEF FlowFits, At
  <2>2. flows'[e].pc \notin {"plan", "insert", "script", "chapters", "encode"} BY <2>1
  <2>3. rows'[e].status = "published" BY <1>2 DEF PublishedRow
  <2>. QED BY <2>2, <2>3 DEF FlowFits, At, Is
<1>11. ASSUME NEW d \in Replaces(e) PROVE FlowFits(d)' /\ AudioIsKept(d)' /\ rows'[d].status = "removed"
  <2>1. d \in Episode \ {e} /\ Is(d, "published") BY <1>7
  <2>2. rows'[d].status = "removed" BY <1>2, <1>11, <2>1 DEF OtherRow
  <2>3. flows'[d] = flows[d] BY <2>1 DEF OnlyFlow
  <2>4. FlowFits(d) BY <2>1 DEF IInv
  <2>5. MayPublishLate(d)' => MayPublishLate(d) BY <1>9, <2>1
  <2>6. FlowFits(d)' BY <2>1, <2>2, <2>3, <2>4, <2>5 DEF FlowFits, At, Is
  <2>7. AudioIsKept(d)' BY <2>2 DEF AudioIsKept, Is
  <2>. QED BY <2>2, <2>6, <2>7
<1>12. ASSUME NEW d \in Episode \ {e}, d \notin Replaces(e)
       PROVE FlowFits(d)' /\ AudioIsKept(d)' /\ rows'[d] = rows[d]
  <2>1. rows'[d] = rows[d] BY <1>2, <1>12 DEF OtherRow
  <2>2. SameFlow(d) BY <1>9, <2>1 DEF SameFlow, OnlyFlow
  <2>3. ASSUME NEW c \in 0..MaxChapters PROVE <<d, c>> \in Audio \ GivenUp(e)
    BY <1>4, <1>12, KeyOf
  <2>4. d \in revived => d \in revived' BY <1>6
  <2> HIDE DEF IsSafe
  <2>5. SameAudio(d) BY <1>5, <2>3, <2>4 DEF SameAudio
  <2>6. FlowFits(d) /\ AudioIsKept(d) BY <1>1 DEF IInv
  <2>. QED BY <2>1, <2>2, <2>5, <2>6, SameFits, SameIsKept
<1>13. AudioIsKept(e)'
  <2>1. rows'[e].status = "published" BY <1>2 DEF PublishedRow
  <2>2. AudioKey(e) \in Audio \ GivenUp(e) BY <1>4, <1>7, AudioKeyOf
  <2>3. ASSUME e \notin revived' PROVE AudioKey(e) \in objects' /\ IsSafe(AudioKey(e))'
    <3>1. Is(e, "recording") BY <1>6, <2>3
    <3>2. AudioKey(e) \in objects /\ IsSafe(AudioKey(e)) BY <1>1, <3>1, PublishHasAudio
    <3> HIDE DEF IsSafe
    <3>. QED BY <1>5, <2>2, <3>2
  <2>. QED BY <2>1, <2>3 DEF AudioIsKept, Is, IsSafe, AudioKey
<1>14. ChaptersAreRecorded' BY ChaptersStay DEF OnlyFlow
<1>15. ASSUME NEW k \in objects' \ orphans'
       PROVE  \/ Is(k[1], "recording")'
              \/ hasTopic' /\ Is(k[1], "published")' /\ k = AudioKey(k[1])
              \/ pending'[k] # "none"
  <2>1. k \in Audio /\ k \in objects \ orphans BY <1>1 DEF TypeOK, StoreTypeOK
  <2>2. k[1] \in Episode /\ k[2] \in 0..MaxChapters /\ k = <<k[1], k[2]>> BY <2>1, KeyParts
  <2>3. \/ Is(k[1], "recording")
        \/ Is(k[1], "published") /\ k = AudioKey(k[1])
        \/ pending[k] # "none"
    BY <2>1 DEF IInv, NoAudioLeaks
  <2>4. CASE k[1] = e /\ k[2] = 0
    <3>1. rows'[e].status = "published" /\ k = AudioKey(e) BY <1>2, <2>2, <2>4 DEF PublishedRow, AudioKey
    <3>. QED BY <1>1, <2>4, <3>1 DEF Is
  <2>5. CASE k[1] = e /\ k[2] # 0
    <3>1. k[2] \in Chapter BY <2>2, <2>5, Bounds DEF Chapter
    <3>2. k[2] \in flows[e].recorded BY <2>1, <2>2, <2>5, <3>1 DEF IInv, ChaptersAreRecorded
    <3>3. k \in GivenUp(e) BY <1>4, <2>2, <2>5, <3>2
    <3>. QED BY <1>5, <2>1, <3>3
  <2>6. CASE k[1] \in Replaces(e)
    <3>1. k = AudioKey(k[1]) \/ pending[k] # "none" BY <1>7, <2>3, <2>6 DEF Is
    <3>. QED BY <1>4, <1>5, <2>1, <2>6, <3>1
  <2>7. CASE k[1] # e /\ k[1] \notin Replaces(e)
    <3>1. rows'[k[1]] = rows[k[1]] BY <1>12, <2>2, <2>7
    <3>. QED BY <1>1, <1>5, <2>1, <2>3, <3>1 DEF Is
  <2>. QED BY <2>4, <2>5, <2>6, <2>7
<1>16. NoAudioLeaks' BY <1>15 DEF NoAudioLeaks, AudioKey
<1>17. NumbersAreBounded'
  <2>1. PICK n \in Nat : \A d \in Episode : rows[d].number <= n BY DEF IInv, NumbersAreBounded
  <2>2. PICK number \in Nat : rows'[e].number = number BY <1>2 DEF PublishedRow, Row
  <2>3. ASSUME NEW d \in Episode PROVE rows'[d].number <= n + number
    <3>1. rows[d].number \in Nat BY <1>1, RowFields
    <3>2. CASE d = e BY <2>2, <3>2
    <3>3. CASE d # e
      <4>1. rows'[d].number = rows[d].number BY <1>2, <3>3 DEF OtherRow
      <4>. QED BY <2>1, <3>1, <4>1
    <3>. QED BY <3>2, <3>3
  <2>4. n + number \in Nat OBVIOUS
  <2>. QED BY <2>3, <2>4 DEF NumbersAreBounded
<1>18. \A d \in Episode : FlowFits(d)' /\ AudioIsKept(d)' BY <1>10, <1>11, <1>12, <1>13
<1>. QED BY <1>8, <1>14, <1>16, <1>17, <1>18 DEF IInv

\* The transaction in an attempt that the workflow waits for.
LEMMA SavePublishedHolds == ASSUME IInv, NEW e \in Episode, SavePublished(e) PROVE IInv'
<1>1. TypeOK /\ At(e, "save") /\ UNCHANGED <<objects, hasTopic, late, orphans>> BY DEF IInv, SavePublished
<1>2. CASE CanSave(e)
  <2>1. SavesPublished(e) BY <1>2 DEF SavePublished
  <2>2. \E pc \in {"done", "publish", "fail"} : GoesTo(e, pc) BY <1>2 DEF SavePublished, RunsAgain
  <2>3. faults' \in 0..MaxFaults BY <1>1, <1>2, Faulty DEF SavePublished
  <2>4. OnlyFlow(e) /\ flows'[e].pc \in {"publish", "fail", "done"} /\ flows'[e].recorded = flows[e].recorded
    BY <1>1, <2>2, GoingOn DEF Pc
  <2>. QED BY <1>1, <1>2, <2>1, <2>3, <2>4, SavingHolds
<1>3. CASE ~CanSave(e)
  <2>1. GoesTo(e, "fail") /\ UNCHANGED <<rows, pending, deleting, faults, revived>> BY <1>3 DEF SavePublished
  <2>2. QuietStep BY <1>1, <2>1 DEF QuietStep
  <2>3. LateGrows(e) /\ faults' \in 0..MaxFaults BY <1>1, <2>1, LateStays, Faulty
  <2>4. ~Is(e, "none") BY <1>1, PastPlanHasRow DEF At, Pc
  <2>. QED BY <2>1, <2>2, <2>3, <2>4, GoingHolds DEF MayGo, Pc
<1>. QED BY <1>2, <1>3

\* The transaction in an attempt that outlived its timeout.
LEMMA LatePublishHolds ==
  ASSUME IInv, NEW a \in late, LatePublish(a), late' = late \ {a}, UNCHANGED <<faults, hasTopic, flows>>
  PROVE  IInv'
<1>1. TypeOK /\ a.episode \in Episode BY DEF IInv, TypeOK, Attempt
<1>2. PICK e \in Episode : e = a.episode BY <1>1
<1>3. MayPublishLate(e) /\ UNCHANGED <<objects, orphans>> BY <1>2 DEF LatePublish, MayPublishLate
<1>4. OnlyFlow(e) /\ faults' \in 0..MaxFaults BY <1>1, Faulty DEF TypeOK, OnlyFlow
<1>5. CASE CanSave(e)
  <2>1. SavesPublished(e) BY <1>2, <1>5 DEF LatePublish
  <2>. QED BY <1>3, <1>4, <1>5, <2>1, SavingHolds
<1>6. CASE ~CanSave(e)
  <2>1. QuietStep BY <1>2, <1>3, <1>6 DEF LatePublish, QuietStep
  <2>2. LateGrows(e) BY <1>1 DEF LateGrows, TypeOK, MayPublishLate
  <2>3. ASSUME NEW d \in Episode PROVE MayPublishLate(d)' => MayPublishLate(d) BY DEF MayPublishLate
  <2>4. FlowFits(e) BY DEF IInv
  <2>5. FlowFits(e)' BY <2>1, <2>3, <2>4 DEF FlowFits, At, Is, QuietStep
  <2>. QED BY <1>4, <2>1, <2>2, <2>5, QuietHolds
<1>. QED BY <1>5, <1>6

-----------------------------------------------------------------------------
(* The Topic and the store *)

\* A deleted Topic gives up all that was published of it, and recordings keep theirs until they fail.
LEMMA DeleteTopicHolds == ASSUME IInv, DeleteTopic PROVE IInv'
<1>1. TypeOK BY DEF IInv
<1>2. hasTopic' = FALSE /\ UNCHANGED <<objects, faults, rows, flows, late, orphans, revived>> BY DEF DeleteTopic
<1> DEFINE keys == UNION {AudioKeys(d) : d \in {q \in Episode : ~Is(q, "none")}}
<1>3. keys \in SUBSET Audio BY <1>1, AudioKeysOf
<1>4. ASSUME NEW d \in Episode, Is(d, "published") PROVE AudioKey(d) \in keys
  <2>1. ~Is(d, "none") BY <1>4 DEF Is
  <2>. QED BY <2>1, AudioKeyOf
<1>5. GivesUp(keys) BY DEF DeleteTopic
<1> HIDE DEF keys
<1>6. /\ pending' \in [Audio -> {"none", "waiting", "due"}] /\ deleting' \in SUBSET Audio
      /\ \A k \in Audio : (pending[k] # "none" \/ k \in keys) => pending'[k] # "none"
  BY <1>1, <1>3, <1>5, GivingUp
<1>7. TypeOK' BY <1>1, <1>2, <1>6 DEF TypeOK, StoreTypeOK
<1>8. ASSUME NEW d \in Episode PROVE FlowFits(d)'
  <2>1. SameFlow(d) BY <1>2 DEF SameFlow, MayPublishLate
  <2>. QED BY <2>1, SameFits DEF IInv
<1>9. ChaptersAreRecorded' BY <1>2, ChaptersStay
<1>10. ASSUME NEW k \in objects' \ orphans'
       PROVE  Is(k[1], "recording")' \/ pending'[k] # "none"
  <2>1. k \in Audio /\ k \in objects \ orphans BY <1>1, <1>2 DEF TypeOK, StoreTypeOK
  <2>2. k[1] \in Episode BY <2>1, KeyParts
  <2>3. Is(k[1], "recording") \/ (Is(k[1], "published") /\ k = AudioKey(k[1])) \/ pending[k] # "none"
    BY <2>1 DEF IInv, NoAudioLeaks
  <2>. QED BY <1>2, <1>4, <1>6, <2>1, <2>2, <2>3 DEF Is
<1>11. NoAudioLeaks' BY <1>10 DEF NoAudioLeaks
<1>12. NumbersAreBounded' BY <1>2, NumbersStay
<1>. QED BY <1>2, <1>7, <1>8, <1>9, <1>11, <1>12 DEF IInv

\* The store deletes only what is pending or was given up, and forgets nothing that is stored.
StoreMoves ==
  /\ objects' \subseteq objects /\ pending' \in [Audio -> {"none", "waiting", "due"}]
  /\ deleting' \subseteq Audio /\ faults' \in 0..MaxFaults
  /\ \A k \in Audio : IsSafe(k) => IsSafe(k)' /\ (k \in objects => k \in objects')
  /\ \A k \in objects' : pending[k] # "none" => pending'[k] # "none"

\* Every step of the store is one of these.
LEMMA StoreNextMoves == ASSUME TypeOK, StoreNext PROVE StoreMoves
<1>1. /\ objects \subseteq Audio /\ pending \in [Audio -> {"none", "waiting", "due"}]
      /\ deleting \subseteq Audio
  BY DEF TypeOK, StoreTypeOK
<1>2. CASE SweepReads
  <2>1. deleting' = deleting \cup Due /\ UNCHANGED <<objects, pending, faults>> BY <1>2 DEF SweepReads
  <2>2. faults' \in 0..MaxFaults BY <2>1, Faulty
  <2>. QED BY <1>1, <2>1, <2>2 DEF StoreMoves, IsSafe, Due
<1>3. ASSUME NEW k \in Audio, DeleteObject(k) \/ DeleteFails(k) \/ DeleteIsLost(k) PROVE StoreMoves
  <2>1. faults' \in 0..MaxFaults BY <1>3, Faulty DEF DeleteObject, DeleteFails, DeleteIsLost
  <2>2. CASE DeleteObject(k)
    BY <1>1, <2>1, <2>2 DEF DeleteObject, StoreMoves, IsSafe
  <2>3. CASE DeleteFails(k)
    BY <1>1, <2>1, <2>3 DEF DeleteFails, StoreMoves, IsSafe
  <2>4. CASE DeleteIsLost(k)
    BY <1>1, <2>1, <2>4 DEF DeleteIsLost, StoreMoves, IsSafe
  <2>. QED BY <1>3, <2>2, <2>3, <2>4
<1>4. ASSUME NEW k \in Audio, TryTimePasses(k) PROVE StoreMoves
  <2>1. faults' \in 0..MaxFaults BY <1>4, Faulty DEF TryTimePasses
  <2>. QED BY <1>1, <1>4, <2>1 DEF TryTimePasses, StoreMoves, IsSafe
<1>. QED BY <1>2, <1>3, <1>4 DEF StoreNext, DeleteStep, TryTimeStep

\* The store keeps the invariant, however its deletions fail.
LEMMA StoreStepHolds == ASSUME IInv, StoreStep PROVE IInv'
<1>1. TypeOK BY DEF IInv
<1>2. UNCHANGED <<hasTopic, rows, flows, late, orphans, revived>> BY DEF StoreStep
<1>3. StoreMoves BY <1>1, StoreNextMoves DEF StoreStep
<1>4. TypeOK' BY <1>1, <1>2, <1>3 DEF TypeOK, StoreTypeOK, StoreMoves
<1>5. ASSUME NEW d \in Episode PROVE FlowFits(d)' /\ (hasTopic => AudioIsKept(d)')
  <2>1. SameFlow(d) BY <1>2 DEF SameFlow, MayPublishLate
  <2>2. \A c \in 0..MaxChapters : <<d, c>> \in Audio BY KeyOf
  <2> HIDE DEF IsSafe
  <2>3. SameAudio(d) BY <1>2, <1>3, <2>2 DEF SameAudio, StoreMoves
  <2>4. FlowFits(d) /\ (hasTopic => AudioIsKept(d)) BY DEF IInv
  <2>. QED BY <2>1, <2>3, <2>4, SameFits, SameIsKept
<1>6. ChaptersAreRecorded' BY <1>2, <1>3 DEF IInv, ChaptersAreRecorded, StoreMoves
<1>7. NoAudioLeaks' BY <1>2, <1>3 DEF IInv, NoAudioLeaks, StoreMoves, Is, AudioKey
<1>8. NumbersAreBounded' BY <1>2, NumbersStay
<1>. QED BY <1>2, <1>4, <1>5, <1>6, <1>7, <1>8 DEF IInv

-----------------------------------------------------------------------------
(* The theorems *)

\* Nothing is stored at first.
LEMMA InitHolds == Init => IInv
<1>. SUFFICES ASSUME Init PROVE IInv OBVIOUS
<1>1. TypeOK BY Bounds DEF Init, StoreInit, TypeOK, StoreTypeOK, Row, Flow
<1>2. ASSUME NEW e \in Episode PROVE FlowFits(e) /\ AudioIsKept(e)
  BY KeyOf DEF Init, StoreInit, FlowFits, AudioIsKept, At, Is, MayPublishLate, IsSafe
<1>3. ChaptersAreRecorded /\ NoAudioLeaks
  BY DEF Init, StoreInit, ChaptersAreRecorded, NoAudioLeaks
<1>4. NumbersAreBounded
  <2>1. \A e \in Episode : rows[e].number <= 0 BY DEF Init
  <2>. QED BY <2>1 DEF NumbersAreBounded
<1>. QED BY <1>1, <1>2, <1>3, <1>4 DEF IInv

\* Every step of the workflow of e keeps the invariant.
LEMMA FlowStepKeeps == ASSUME IInv, NEW e \in Episode, FlowStep(e) PROVE IInv'
BY PlanReadsHolds, PlanInsertsHolds, PlanFailsHolds, WriteScriptHolds, ActivityFailsHolds,
   RecordChapterHolds, ChapterFailsHolds, ChapterIsLostHolds, ChapterTimesOutHolds, ChaptersEndHolds,
   EncodeHolds, EncodeTimesOutHolds, PublishReadsHolds, SavePublishedHolds, PublishTimesOutHolds,
   FailEpisodeHolds, FailFailsHolds
DEF FlowStep

\* What changes nothing keeps the invariant.
LEMMA StutterHolds == ASSUME IInv, UNCHANGED vars PROVE IInv'
BY DEF IInv, vars, store, TypeOK, StoreTypeOK, FlowFits, AudioIsKept, ChaptersAreRecorded, NoAudioLeaks,
       NumbersAreBounded, At, Is, MayPublishLate, IsSafe, AudioKey

\* Every step keeps the invariant.
LEMMA NextHolds == ASSUME IInv, [Next]_vars PROVE IInv'
<1>1. ASSUME NEW a \in late, LateAttempt(a) PROVE IInv'
  BY <1>1, LateUploadHolds, LatePublishHolds DEF LateAttempt
<1>. QED BY <1>1, FlowStepKeeps, RemoveEpisodeHolds, DeleteTopicHolds, StoreStepHolds, StutterHolds DEF Next

\* A step moves no Podcast Episode, or gives one a number that is above all that were taken in
\* its season.
LEMMA NumbersGrow ==
  ASSUME IInv, [Next]_vars, NEW e \in Episode, Place(e)' # Place(e)
  PROVE  NumberIsNew(e) /\ KeepsNumber(e)
<1>1. TypeOK /\ FlowFits(e) BY DEF IInv
<1>2. rows \in [Episode -> Row] /\ ~(rows'[e].season = rows[e].season /\ rows'[e].number = rows[e].number)
  BY <1>1 DEF TypeOK, Place
<1>3. ASSUME NEW q \in Episode, SavesPublished(q) PROVE NumberIsNew(e) /\ KeepsNumber(e)
  <2>1. PICK season \in Season : PublishedRow(q, season, rows'[q]) /\ \A r \in Episode \ {q} : OtherRow(q, r, rows'[r])
    BY <1>3, SavingRows
  <2>2. e = q BY <1>2, <2>1 DEF OtherRow
  <2>3. NumberIsNew(e) BY <2>1, <2>2 DEF PublishedRow, NumberIsNew
  <2>4. Is(e, "recording") \/ e \in revived' BY <1>3, <2>2 DEF SavesPublished
  <2>5. KeepsNumber(e) BY <1>1, <2>4 DEF FlowFits, Is, KeepsNumber
  <2>. QED BY <2>3, <2>5
<1>4. ASSUME NEW q \in Episode, FlowStep(q) PROVE UNCHANGED rows \/ SavesPublished(q) \/ PlanInserts(q)
                                                   \/ WriteScript(q) \/ FailEpisode(q)
  BY <1>4 DEF FlowStep, PlanReads, PlanFails, ActivityFails, RecordChapter, ChapterFails, ChapterIsLost,
              ChapterTimesOut, ChaptersEnd, Encode, EncodeTimesOut, PublishReads, SavePublished,
              PublishTimesOut, FailFails
<1>5. ASSUME NEW q \in Episode, PlanInserts(q) \/ WriteScript(q) \/ FailEpisode(q) \/ RemoveEpisode(q)
      PROVE  rows'[e].season = rows[e].season /\ rows'[e].number = rows[e].number
  <2>1. CASE PlanInserts(q)
    <3> DEFINE row == [rows[q] EXCEPT !.status = "recording", !.isShort = flows[q].isShort]
    <3>1. UNCHANGED rows \/ rows' = [rows EXCEPT ![q] = row] BY <2>1 DEF PlanInserts
    <3>2. rows[q] \in Row BY <1>2
    <3>3. row.season = rows[q].season /\ row.number = rows[q].number BY <3>2 DEF Row
    <3> HIDE DEF row
    <3>. QED BY <1>2, <3>1, <3>3
  <2>2. CASE WriteScript(q) BY <1>2, <2>2 DEF WriteScript, Row
  <2>3. CASE FailEpisode(q) BY <1>2, <2>3 DEF FailEpisode, Row
  <2>4. CASE RemoveEpisode(q) BY <1>2, <2>4 DEF RemoveEpisode, Removed, Row
  <2>. QED BY <1>5, <2>1, <2>2, <2>3, <2>4
<1>6. ASSUME NEW a \in late, LateAttempt(a) PROVE UNCHANGED rows \/ SavesPublished(a.episode)
  BY <1>6 DEF LateAttempt, LateUpload, LatePublish
<1>7. \A a \in late : a.episode \in Episode BY <1>1 DEF TypeOK, Attempt
<1>8. CASE UNCHANGED vars \/ DeleteTopic \/ StoreStep BY <1>2, <1>8 DEF vars, DeleteTopic, StoreStep
<1>. QED BY <1>2, <1>3, <1>4, <1>5, <1>6, <1>7, <1>8 DEF Next

\* The invariant holds in every reachable state.
LEMMA EpisodesAreSound == Spec => []IInv
<1>1. IInv /\ [Next]_vars => IInv' BY NextHolds
<1>. QED BY <1>1, InitHolds, PTL DEF Spec

\* Every state of PodcastEpisode is well-typed.
THEOREM EpisodeTypeCorrect == Spec => []TypeOK
<1>1. IInv => TypeOK BY DEF IInv
<1>. QED BY <1>1, EpisodesAreSound, PTL

\* What listeners can find they can play, whatever is deleted around it:
\* publishPodcastEpisode gives up the chapters and never the finished audio.
THEOREM PublishedKeepsAudio == Spec => []PublishedHasAudio
<1>1. IInv => PublishedHasAudio BY DEF IInv, AudioIsKept, IsSafe, PublishedHasAudio
<1>. QED BY <1>1, EpisodesAreSound, PTL

\* No audio is left behind by a recording that ends, a removal or a deleted Topic, but
\* for what an attempt stored that the workflow had given up on.
THEOREM AudioNeverLeaks == Spec => []NoAudioLeaks
<1>1. IInv => NoAudioLeaks BY DEF IInv
<1>. QED BY <1>1, EpisodesAreSound, PTL

\* No number is given out twice in one season: publishPodcastEpisode counts removed Podcast
\* Episodes, and a Podcast Episode that has a number keeps it, but for what is published again
\* after its removal.
THEOREM NumbersAreNew == Spec => NumbersOnlyGrow
<1>1. IInv /\ [Next]_vars =>
        [\A e \in Episode : Place(e)' # Place(e) => NumberIsNew(e) /\ KeepsNumber(e)]_vars
  BY NumbersGrow
<1>. QED BY <1>1, EpisodesAreSound, PTL DEF Spec, NumbersOnlyGrow

-----------------------------------------------------------------------------
(* PodcastEpisode implements PodcastCatalogue                               *)
(*                                                                         *)
(* The transaction that publishes does not look at the status of the row.   *)
(* That a Podcast Episode which is listed is not listed again rests on its  *)
(* chapters, and that it is listed with chapters on what was recorded       *)
(* before anything was encoded: ListingFits, inductive beside IInv.         *)

\* Where a workflow has recorded what it is about to publish.
IsRecorded(e) == flows[e].pc \in {"encode", "publish", "save"} \/ MayPublishLate(e)

ListingFits ==
  \A e \in Episode :
    /\ Is(e, "published") => rows[e].hasChapters /\ rows[e].script \in Chapter
    /\ IsRecorded(e) => flows[e].recorded # {}

\* What a step does to the rows that is no publication: one of them is planned, written, failed or removed.
RowChanges(e) ==
  /\ OnlyRow(e) /\ rows'[e].status # "published"
  /\ rows'[e].season = rows[e].season /\ rows'[e].number = rows[e].number
  /\ UNCHANGED hasTopic

\* The publication of e by an attempt that the workflow waits for, or by a late one.
Publishes(e) ==
  /\ CanSave(e) /\ SavesPublished(e) /\ IsRecorded(e)
  /\ UNCHANGED hasTopic

LEMMA PlanOrEndChangesRow ==
  ASSUME IInv, NEW e \in Episode, PlanInserts(e) \/ WriteScript(e) \/ FailEpisode(e) \/ RemoveEpisode(e)
  PROVE  UNCHANGED <<rows, hasTopic>> \/ RowChanges(e)
<1>1. TypeOK /\ rows \in [Episode -> Row] /\ rows[e] \in Row BY DEF IInv, TypeOK
<1>2. CASE PlanInserts(e)
  <2> DEFINE row == [rows[e] EXCEPT !.status = "recording", !.isShort = flows[e].isShort]
  <2>1. UNCHANGED hasTopic /\ (UNCHANGED rows \/ rows' = [rows EXCEPT ![e] = row]) BY <1>2 DEF PlanInserts
  <2>2. flows[e].isShort \in BOOLEAN BY <1>1, RowFields DEF Flow
  <2>3. row \in Row /\ row.status = "recording" /\ row.season = rows[e].season /\ row.number = rows[e].number
    BY <1>1, <2>2 DEF Row
  <2> HIDE DEF row
  <2>. QED BY <1>1, <2>1, <2>3 DEF RowChanges, OnlyRow
<1>3. CASE WriteScript(e)
  <2>1. PICK n \in Chapter : rows' = [rows EXCEPT ![e] = [rows[e] EXCEPT !.script = n]] BY <1>3 DEF WriteScript
  <2>2. FlowFits(e) /\ At(e, "script") /\ UNCHANGED hasTopic BY <1>3 DEF IInv, WriteScript
  <2>3. rows[e].status = "recording" BY <2>2 DEF FlowFits, At, Is
  <2>4. n \in 0..MaxChapters BY Bounds
  <2>. QED BY <1>1, <2>1, <2>2, <2>3, <2>4 DEF RowChanges, OnlyRow, Row
<1>4. CASE FailEpisode(e)
  <2>1. UNCHANGED rows \/ rows' = [rows EXCEPT ![e] = [rows[e] EXCEPT !.status = "failed"]]
    BY <1>4 DEF FailEpisode
  <2>2. UNCHANGED hasTopic BY <1>4 DEF FailEpisode
  <2>. QED BY <1>1, <2>1, <2>2 DEF RowChanges, OnlyRow, Row
<1>5. CASE RemoveEpisode(e)
  <2>1. rows' = [rows EXCEPT ![e] = [rows[e] EXCEPT !.status = "removed", !.script = 0, !.hasChapters = FALSE]]
    BY <1>5 DEF RemoveEpisode, Removed
  <2>2. UNCHANGED hasTopic BY <1>5 DEF RemoveEpisode
  <2>. QED BY <1>1, <2>1, <2>2, Bounds DEF RowChanges, OnlyRow, Row
<1>. QED BY <1>2, <1>3, <1>4, <1>5

\* What a step may do that listeners see.
LEMMA StepsSeen ==
  ASSUME IInv, [Next]_vars
  PROVE  \/ UNCHANGED <<rows, hasTopic>>
         \/ DeleteTopic
         \/ \E e \in Episode : RowChanges(e) \/ Publishes(e)
<1>1. TypeOK BY DEF IInv
<1>2. ASSUME NEW e \in Episode, FlowStep(e)
      PROVE  \/ UNCHANGED <<rows, hasTopic>> \/ Publishes(e)
             \/ PlanInserts(e) \/ WriteScript(e) \/ FailEpisode(e)
  <2>1. CASE SavePublished(e)
    BY <2>1 DEF SavePublished, Publishes, IsRecorded, At
  <2>2. CASE ~SavePublished(e)
    BY <1>2, <2>2 DEF FlowStep, PlanReads, PlanFails, ActivityFails, RecordChapter, ChapterFails, ChapterIsLost,
                      ChapterTimesOut, ChaptersEnd, Encode, EncodeTimesOut, PublishReads, PublishTimesOut, FailFails
  <2>. QED BY <2>1, <2>2
<1>3. ASSUME NEW a \in late, LateAttempt(a)
      PROVE  UNCHANGED <<rows, hasTopic>> \/ \E e \in Episode : Publishes(e)
  <2>1. a.episode \in Episode BY <1>1 DEF TypeOK, Attempt
  <2>2. CASE LateUpload(a) BY <1>3, <2>2 DEF LateAttempt, LateUpload
  <2>3. CASE LatePublish(a)
    <3>1. IsRecorded(a.episode) BY <2>3 DEF IsRecorded, MayPublishLate, LatePublish
    <3>. QED BY <1>3, <2>1, <2>3, <3>1 DEF LateAttempt, LatePublish, Publishes
  <2>. QED BY <1>3, <2>2, <2>3 DEF LateAttempt
<1>4. CASE UNCHANGED vars \/ StoreStep BY <1>4 DEF vars, StoreStep
<1>. QED BY <1>2, <1>3, <1>4, PlanOrEndChangesRow DEF Next

-----------------------------------------------------------------------------
(* What is listed has chapters *)

LEMMA RowsFit ==
  ASSUME IInv, ListingFits, [Next]_vars, NEW d \in Episode, Is(d, "published")'
  PROVE  rows'[d].hasChapters /\ rows'[d].script \in Chapter
<1>1. TypeOK BY DEF IInv
<1>2. CASE UNCHANGED rows BY <1>2 DEF ListingFits, Is
<1>3. ASSUME NEW e \in Episode, RowChanges(e) PROVE rows'[d].hasChapters /\ rows'[d].script \in Chapter
  BY <1>3 DEF RowChanges, OnlyRow, ListingFits, Is
<1>4. ASSUME NEW e \in Episode, Publishes(e) PROVE rows'[d].hasChapters /\ rows'[d].script \in Chapter
  <2>1. PICK season \in Season : PublishedRow(e, season, rows'[e]) /\ \A q \in Episode \ {e} : OtherRow(e, q, rows'[q])
    BY <1>4, SavingRows DEF Publishes
  <2>2. CASE d # e BY <2>1, <2>2 DEF OtherRow, ListingFits, Is
  <2>3. CASE d = e
    <3>1. flows[e].recorded # {} /\ flows[e].recorded \subseteq Chapter
      BY <1>1, <1>4, RowFields DEF Publishes, ListingFits
    <3>2. IsFiniteSet(Chapter) /\ Cardinality(Chapter) = MaxChapters BY Bounds, FS_Interval DEF Chapter
    <3>3. /\ IsFiniteSet(flows[e].recorded) /\ Cardinality(flows[e].recorded) \in Nat
          /\ Cardinality(flows[e].recorded) <= MaxChapters
      BY <3>1, <3>2, FS_Subset, FS_CardinalityType
    <3>4. Cardinality(flows[e].recorded) # 0 BY <3>1, <3>3, FS_EmptySet
    <3>5. Cardinality(flows[e].recorded) \in Chapter BY <3>3, <3>4, Bounds DEF Chapter
    <3>. QED BY <2>1, <2>3, <3>5 DEF PublishedRow
  <2>. QED BY <2>2, <2>3
<1>. QED BY <1>2, <1>3, <1>4, StepsSeen DEF DeleteTopic

\* A workflow encodes once it has recorded, and what is recorded stays so.
FlowGoes(e) ==
  /\ OnlyFlow(e)
  /\ flows[e].recorded \subseteq flows'[e].recorded
  /\ flows'[e].pc \in {"encode", "publish", "save"} => IsRecorded(e) \/ flows'[e].recorded # {}

LEMMA FlowsGo == ASSUME IInv, NEW e \in Episode, FlowStep(e) PROVE FlowGoes(e)
<1>1. TypeOK /\ flows \in [Episode -> Flow] /\ flows[e] \in Flow BY DEF IInv, TypeOK
<1>2. ASSUME NEW pc \in Pc, GoesTo(e, pc),
             pc \in {"encode", "publish", "save"} => IsRecorded(e) \/ flows[e].recorded # {}
      PROVE  FlowGoes(e)
  BY <1>1, <1>2, GoingOn DEF FlowGoes
<1>3. CASE PlanReads(e) \/ PlanInserts(e) \/ PlanFails(e)
  <2>1. ASSUME NEW isShort \in BOOLEAN, flows' = [flows EXCEPT ![e] = [flows[e] EXCEPT !.pc = "insert", !.isShort = isShort]]
        PROVE  FlowGoes(e)
    BY <1>1, <2>1 DEF FlowGoes, OnlyFlow, Flow
  <2>2. \/ \E pc \in {"plan", "script", "unplanned", "failed"} : GoesTo(e, pc)
        \/ \E isShort \in BOOLEAN :
             flows' = [flows EXCEPT ![e] = [flows[e] EXCEPT !.pc = "insert", !.isShort = isShort]]
    BY <1>3 DEF PlanReads, PlanInserts, PlanFails, RunsAgain
  <2>. QED BY <1>2, <2>1, <2>2 DEF Pc
<1>4. CASE WriteScript(e)
  <2>1. PICK n \in Chapter : flows' = [flows EXCEPT ![e] = [flows[e] EXCEPT !.pc = "chapters", !.open = 1..n]]
    BY <1>4 DEF WriteScript
  <2>2. 1..n \subseteq Chapter BY Bounds DEF Chapter
  <2>. QED BY <1>1, <2>1, <2>2 DEF FlowGoes, OnlyFlow, Flow
<1>5. ASSUME NEW c \in Chapter, RecordChapter(e, c) \/ ChapterFails(e, c) \/ ChapterIsLost(e, c) \/ ChapterTimesOut(e, c)
      PROVE  FlowGoes(e)
  <2>1. At(e, "chapters")
    BY <1>5 DEF RecordChapter, ChapterFails, ChapterIsLost, ChapterTimesOut
  <2>2. \/ UNCHANGED flows
        \/ flows' = [flows EXCEPT ![e] = [flows[e] EXCEPT !.open = flows[e].open \ {c}]]
        \/ flows' = [flows EXCEPT ![e] = [flows[e] EXCEPT !.open = flows[e].open \ {c},
                                                          !.recorded = flows[e].recorded \cup {c}]]
    BY <1>1, <1>5 DEF RecordChapter, ChapterFails, ChapterIsLost, ChapterTimesOut, LeavesOut
  <2>3. ASSUME NEW row \in Flow, flows' = [flows EXCEPT ![e] = row],
               row.pc = "chapters", flows[e].recorded \subseteq row.recorded
        PROVE  FlowGoes(e)
    BY <1>1, <2>3 DEF FlowGoes, OnlyFlow
  <2>4. flows[e].pc = "chapters" /\ flows[e] \in Flow BY <1>1, <2>1 DEF At
  <2>5. CASE UNCHANGED flows
    <3>1. flows' = [flows EXCEPT ![e] = flows[e]] BY <1>1, <2>5
    <3>. QED BY <2>3, <2>4, <3>1
  <2>6. CASE flows' = [flows EXCEPT ![e] = [flows[e] EXCEPT !.open = flows[e].open \ {c}]]
    <3> DEFINE row == [flows[e] EXCEPT !.open = flows[e].open \ {c}]
    <3>1. row \in Flow /\ row.pc = "chapters" /\ flows[e].recorded \subseteq row.recorded BY <2>4 DEF Flow
    <3>2. flows' = [flows EXCEPT ![e] = row] BY <2>6
    <3> HIDE DEF row
    <3>. QED BY <2>3, <3>1, <3>2
  <2>7. CASE flows' = [flows EXCEPT ![e] = [flows[e] EXCEPT !.open = flows[e].open \ {c},
                                                            !.recorded = flows[e].recorded \cup {c}]]
    <3> DEFINE row == [flows[e] EXCEPT !.open = flows[e].open \ {c}, !.recorded = flows[e].recorded \cup {c}]
    <3>1. row \in Flow /\ row.pc = "chapters" /\ flows[e].recorded \subseteq row.recorded BY <2>4 DEF Flow
    <3>2. flows' = [flows EXCEPT ![e] = row] BY <2>7
    <3> HIDE DEF row
    <3>. QED BY <2>3, <3>1, <3>2
  <2>. QED BY <2>2, <2>5, <2>6, <2>7
<1>6. CASE ChaptersEnd(e)
  BY <1>2, <1>6 DEF ChaptersEnd, Pc
<1>7. CASE \/ ActivityFails(e) \/ Encode(e) \/ EncodeTimesOut(e) \/ PublishReads(e) \/ SavePublished(e)
           \/ PublishTimesOut(e) \/ FailEpisode(e) \/ FailFails(e)
  <2>1. \/ \E pc \in {"fail", "done", "failed"} : GoesTo(e, pc)
        \/ IsRecorded(e) /\ \E pc \in {"encode", "publish", "save"} : GoesTo(e, pc)
    BY <1>7 DEF ActivityFails, Encode, EncodeTimesOut, PublishReads, SavePublished, PublishTimesOut, FailEpisode,
                FailFails, RunsAgain, IsRecorded, At
  <2>. QED BY <1>2, <2>1 DEF Pc
<1>. QED BY <1>3, <1>4, <1>5, <1>6, <1>7 DEF FlowStep

\* Only a workflow that is saving leaves a publish behind.
LEMMA LateIsRecorded ==
  ASSUME IInv, [Next]_vars, NEW d \in Episode, MayPublishLate(d)' PROVE IsRecorded(d)
<1>1. TypeOK BY DEF IInv
<1>2. CASE late' \subseteq late BY <1>2 DEF MayPublishLate, IsRecorded
<1>3. ASSUME NEW e \in Episode, NEW of \in {"chapter", "encode", "publish"}, NEW c \in 0..MaxChapters,
             OutlivesTimeout(e, of, c), of = "publish" => At(e, "save")
      PROVE  IsRecorded(d)
  BY <1>1, <1>3, LateOutlives DEF LateGrows, IsRecorded, At
<1>4. ASSUME NEW e \in Episode, FlowStep(e) PROVE IsRecorded(d)
  <2>1. ASSUME NEW c \in Chapter, ChapterTimesOut(e, c) PROVE IsRecorded(d)
    BY <1>3, <2>1, Bounds DEF ChapterTimesOut
  <2>2. CASE EncodeTimesOut(e) BY <1>3, <2>2, Bounds DEF EncodeTimesOut
  <2>3. CASE PublishTimesOut(e) BY <1>3, <2>3, Bounds DEF PublishTimesOut
  <2>4. \/ UNCHANGED late \/ EncodeTimesOut(e) \/ PublishTimesOut(e)
        \/ \E c \in Chapter : ChapterTimesOut(e, c)
    BY <1>4 DEF FlowStep, PlanReads, PlanInserts, PlanFails, WriteScript, ActivityFails, RecordChapter, ChapterFails,
                ChapterIsLost, ChaptersEnd, Encode, PublishReads, SavePublished, FailEpisode, FailFails
  <2>. QED BY <1>2, <2>1, <2>2, <2>3, <2>4
<1>5. ASSUME NEW a \in late, LateAttempt(a) PROVE late' \subseteq late BY <1>5 DEF LateAttempt
<1>6. CASE UNCHANGED vars \/ DeleteTopic \/ StoreStep BY <1>2, <1>6 DEF vars, DeleteTopic, StoreStep
<1>7. ASSUME NEW e \in Episode, RemoveEpisode(e) PROVE late' \subseteq late BY <1>7 DEF RemoveEpisode
<1>. QED BY <1>2, <1>4, <1>5, <1>6, <1>7 DEF Next

LEMMA FlowsFit ==
  ASSUME IInv, ListingFits, [Next]_vars, NEW d \in Episode, IsRecorded(d)' PROVE flows'[d].recorded # {}
<1>1. \/ UNCHANGED flows
      \/ \E e \in Episode : FlowGoes(e)
  BY FlowsGo DEF Next, RemoveEpisode, LateAttempt, DeleteTopic, StoreStep, vars
<1>2. flows[d].recorded \subseteq flows'[d].recorded BY <1>1 DEF FlowGoes, OnlyFlow
<1>3. CASE MayPublishLate(d)'
  <2>1. IsRecorded(d) BY <1>3, LateIsRecorded
  <2>. QED BY <1>2, <2>1 DEF ListingFits
<1>4. CASE ~MayPublishLate(d)'
  <2>1. flows'[d].pc \in {"encode", "publish", "save"} BY <1>4 DEF IsRecorded
  <2>2. IsRecorded(d) \/ flows'[d].recorded # {} BY <1>1, <2>1 DEF FlowGoes, OnlyFlow, IsRecorded
  <2>. QED BY <1>2, <2>2 DEF ListingFits
<1>. QED BY <1>3, <1>4

LEMMA ListingStillFits == IInv /\ ListingFits /\ [Next]_vars => ListingFits'
<1> SUFFICES ASSUME IInv, ListingFits, [Next]_vars, NEW d \in Episode
             PROVE  /\ Is(d, "published")' => rows'[d].hasChapters /\ rows'[d].script \in Chapter
                    /\ IsRecorded(d)' => flows'[d].recorded # {}
  BY DEF ListingFits
<1>. QED BY RowsFit, FlowsFit

-----------------------------------------------------------------------------
(* What listeners see of a step *)

\* A step of the catalogue, or none that it sees.
CatalogueStep == Catalogue!Next \/ UNCHANGED <<Listing, Places, hasTopic>>

LEMMA ListingOf == DOMAIN Listing = OnAir /\ \A e \in OnAir : Listing[e] = Entry(e)
BY DEF Listing

LEMMA PlacesStay ==
  ASSUME \A d \in Episode : rows'[d].season = rows[d].season /\ rows'[d].number = rows[d].number
  PROVE  UNCHANGED Places
BY DEF Places, Place

LEMMA PlacesOf ==
  ASSUME NEW d \in Episode PROVE Places[d].season = rows[d].season /\ Places[d].number = rows[d].number
BY DEF Places, Place

\* The catalogue's next place is the one that the transaction takes.
LEMMA NextPlaceOf ==
  ASSUME NEW season PROVE Catalogue!NextPlace(season) = [season |-> season, number |-> LastNumber(season) + 1]
<1> DEFINE placed == {c \in Episode : Places[c].season = season}
           taken == {d \in Episode : rows[d].season = season}
<1>1. placed = taken BY PlacesOf
<1>2. {Places[d].number : d \in placed} = {rows[d].number : d \in taken} BY <1>1, PlacesOf
<1>3. {Places[d].number : d \in {c \in Episode : Places[c].season = season}} = TakenNumbers(season)
  BY <1>2 DEF TakenNumbers
<1>. QED BY <1>3 DEF Catalogue!NextPlace, LastNumber, Max, Catalogue!Max

LEMMA ChangeIsSeen == ASSUME NEW e \in Episode, RowChanges(e) PROVE CatalogueStep
<1>1. /\ rows'[e].status # "published" /\ UNCHANGED hasTopic
      /\ \A d \in Episode \ {e} : rows'[d] = rows[d]
      /\ \A d \in Episode : rows'[d].season = rows[d].season /\ rows'[d].number = rows[d].number
  BY DEF RowChanges, OnlyRow
<1>2. UNCHANGED Places BY <1>1, PlacesStay
<1>3. OnAir' = OnAir \ {e} BY <1>1 DEF OnAir, Is
<1>4. \A d \in OnAir \ {e} : Entry(d)' = Entry(d) BY <1>1 DEF Entry, OnAir
<1>5. Listing' = [d \in OnAir \ {e} |-> Entry(d)] BY <1>3, <1>4 DEF Listing
<1>6. CASE e \in OnAir
  <2>1. Listing' = [d \in (DOMAIN Listing) \ {e} |-> Listing[d]] BY <1>5, ListingOf
  <2>2. Catalogue!Withdraw(e) BY <1>1, <1>2, <2>1 DEF Catalogue!Withdraw, Catalogue!Only, Catalogue!Listed
  <2>. QED BY <1>6, <2>2, ListingOf DEF CatalogueStep, Catalogue!Next, Catalogue!Listed
<1>7. CASE e \notin OnAir
  <2>1. OnAir \ {e} = OnAir BY <1>7
  <2>2. UNCHANGED Listing BY <1>5, <2>1 DEF Listing
  <2>. QED BY <1>1, <1>2, <2>2 DEF CatalogueStep
<1>. QED BY <1>6, <1>7

\* A publication lists what was not listed, in the next place of a season and with its chapters.
LEMMA PublicationIsSeen ==
  ASSUME IInv, ListingFits, ListingFits', NEW e \in Episode, Publishes(e) PROVE CatalogueStep
<1>1. TypeOK /\ hasTopic /\ UNCHANGED hasTopic /\ rows \in [Episode -> Row] BY DEF IInv, TypeOK, Publishes, CanSave
<1>2. PICK season \in Season :
        PublishedRow(e, season, rows'[e]) /\ \A d \in Episode \ {e} : OtherRow(e, d, rows'[d])
  BY SavingRows DEF Publishes
<1>3. e \notin OnAir BY DEF Publishes, CanSave, OnAir, ListingFits
<1>5. Places' = [Places EXCEPT ![e] = Catalogue!NextPlace(season)]
  <2>1. rows'[e].season = season /\ rows'[e].number = LastNumber(season) + 1 BY <1>2 DEF PublishedRow
  <2>2. PICK place : place = [season |-> season, number |-> LastNumber(season) + 1] OBVIOUS
  <2>3. Place(e)' = place BY <2>1, <2>2 DEF Place
  <2>4. \A d \in Episode \ {e} : Place(d)' = Place(d) BY <1>2 DEF OtherRow, Place
  <2>5. Catalogue!NextPlace(season) = place BY <2>2, NextPlaceOf
  <2>6. Places' = [d \in Episode |-> IF d = e THEN place ELSE Place(d)] BY <2>3, <2>4 DEF Places
  <2>. QED BY <2>5, <2>6 DEF Places
<1> DEFINE isShort == rows[e].isShort
           chapters == rows'[e].script
           kept == OnAir \ Replaces(e)
<1>6. OnAir' = kept \cup {e}
  BY <1>1, <1>2 DEF OnAir, Is, PublishedRow, OtherRow, Replaces
<1>7. Catalogue!Replaced(isShort) = Replaces(e)
  <2>1. Catalogue!Replaced(isShort) = {d \in OnAir : isShort /\ Entry(d).isShort}
    BY ListingOf DEF Catalogue!Replaced, Catalogue!Listed
  <2>2. \A d \in OnAir : Entry(d).isShort = rows[d].isShort BY DEF Entry
  <2>3. OnAir = {d \in Episode \ {e} : Is(d, "published")} BY <1>1, <1>3 DEF OnAir
  <2>. QED BY <2>1, <2>2, <2>3 DEF Replaces
<1>8. \A d \in kept : d # e /\ Entry(d)' = Entry(d)
  BY <1>2, <1>3 DEF OtherRow, OnAir, Entry
<1>9. Entry(e)' = [chapters |-> chapters, isShort |-> isShort]
  BY <1>2 DEF Entry, PublishedRow
<1>10. chapters \in 1..MaxChapters
  <2>1. Is(e, "published")' BY <1>2 DEF PublishedRow, Is
  <2>. QED BY <2>1 DEF ListingFits, Chapter
<1>11. isShort \in BOOLEAN BY <1>1 DEF Row
<1> HIDE DEF isShort, chapters
<1>12. Listing' = [d \in (DOMAIN Listing \ Catalogue!Replaced(isShort)) \cup {e} |->
                    IF d = e THEN [chapters |-> chapters, isShort |-> isShort] ELSE Listing[d]]
  <2>1. Listing' = [d \in kept \cup {e} |-> Entry(d)'] BY <1>6 DEF Listing
  <2>2. \A d \in kept : Listing[d] = Entry(d) BY ListingOf
  <2>. QED BY <1>7, <1>8, <1>9, <2>1, <2>2, ListingOf
<1>13. Catalogue!List(e, season, chapters, isShort)
  BY <1>1, <1>3, <1>5, <1>12, ListingOf DEF Catalogue!List, Catalogue!Listed
<1>. QED BY <1>10, <1>11, <1>13 DEF CatalogueStep, Catalogue!Next

\* Every step is one of the catalogue, or is not seen.
LEMMA NextKeepsCatalogue ==
  IInv /\ ListingFits /\ ListingFits' /\ [Next]_vars => CatalogueStep
<1> SUFFICES ASSUME IInv, ListingFits, ListingFits', [Next]_vars PROVE CatalogueStep OBVIOUS
<1>1. CASE UNCHANGED <<rows, hasTopic>>
  <2>1. UNCHANGED <<Listing, Places>> BY <1>1 DEF Listing, OnAir, Entry, Is, Places, Place
  <2>. QED BY <1>1, <2>1 DEF CatalogueStep
<1>2. CASE DeleteTopic
  <2>1. hasTopic' = FALSE /\ UNCHANGED rows BY <1>2 DEF DeleteTopic
  <2>2. UNCHANGED Places BY <2>1, PlacesStay
  <2>3. OnAir' = {} BY <2>1 DEF OnAir
  <2>4. Listing' = [d \in {} |-> Listing[d]] BY <2>3 DEF Listing
  <2>. QED BY <2>1, <2>2, <2>4 DEF CatalogueStep, Catalogue!Next, Catalogue!Close, Catalogue!Only
<1>. QED BY <1>1, <1>2, StepsSeen, ChangeIsSeen, PublicationIsSeen

LEMMA InitKeepsCatalogue == Init => Catalogue!Init /\ ListingFits
<1> SUFFICES ASSUME Init PROVE Catalogue!Init /\ ListingFits OBVIOUS
<1>1. \A e \in Episode : rows[e].status = "none" /\ rows[e].season = 0 /\ rows[e].number = 0 BY DEF Init
<1>2. Listing = [d \in {} |-> 0]
  <2>1. OnAir = {} BY <1>1 DEF OnAir, Is
  <2>. QED BY <2>1 DEF Listing
<1>3. Places = [e \in Episode |-> [season |-> 0, number |-> 0]] BY <1>1 DEF Places, Place
<1>4. ListingFits BY <1>1 DEF Init, ListingFits, IsRecorded, MayPublishLate, Is
<1>. QED BY <1>2, <1>3, <1>4 DEF Catalogue!Init, Init

\* PodcastEpisode implements PodcastCatalogue: what publishPodcastEpisode, failPodcastEpisode,
\* removePodcastEpisode and deleteTopic do to the rows, in attempts that may be late and lost,
\* is a listing, a withdrawal or an end of the catalogue, or nothing that listeners see.
THEOREM EpisodesKeepCatalogue == Spec => KeepsCatalogue
<1>1. Spec => []ListingFits
  <2>. QED BY InitKeepsCatalogue, ListingStillFits, EpisodesAreSound, PTL DEF Spec
<1>2. IInv /\ ListingFits /\ ListingFits' /\ [Next]_vars => [Catalogue!Next]_<<Listing, Places, hasTopic>>
  BY NextKeepsCatalogue DEF CatalogueStep
<1>. QED BY <1>1, <1>2, InitKeepsCatalogue, EpisodesAreSound, PTL DEF Spec, KeepsCatalogue, Catalogue!Spec

-----------------------------------------------------------------------------
(* What the catalogue is good for                                           *)

\* The numbers have a bound, and the places and the short Podcast Episodes differ.
CatalogueFits ==
  /\ \E n \in Nat : \A d \in Episode : Places[d].number \in Nat /\ Places[d].number <= n
  /\ Catalogue!Distinct

\* The next place of a season is above all of that season.
LEMMA NextPlaceIsAbove ==
  ASSUME NEW n \in Nat, \A d \in Episode : Places[d].number \in Nat /\ Places[d].number <= n, NEW season
  PROVE  \E number \in Nat :
           /\ Catalogue!NextPlace(season) = [season |-> season, number |-> number]
           /\ \A d \in Episode : Places[d].season = season => Places[d].number < number
<1> DEFINE numbers == {Places[d].number : d \in {c \in Episode : Places[c].season = season}} \cup {0}
<1>1. numbers \in SUBSET Nat /\ 0 \in numbers /\ \A x \in numbers : x <= n OBVIOUS
<1>2. \A d \in Episode : Places[d].season = season => Places[d].number \in numbers OBVIOUS
<1>3. Catalogue!NextPlace(season) = [season |-> season, number |-> Max(numbers) + 1]
  BY DEF Catalogue!NextPlace, Max, Catalogue!Max
<1> HIDE DEF numbers
<1>4. PICK top \in Nat : top = Max(numbers) /\ \A x \in numbers : x <= top BY <1>1, BoundedHasMax
<1>5. \A d \in Episode : Places[d].season = season => Places[d].number < top + 1 BY <1>2, <1>4
<1>6. Catalogue!NextPlace(season) = [season |-> season, number |-> top + 1] BY <1>3, <1>4
<1>. QED BY <1>5, <1>6

LEMMA CatalogueStillFits ==
  CatalogueFits /\ [Catalogue!Next]_<<Listing, Places, hasTopic>> => CatalogueFits'
<1> SUFFICES ASSUME CatalogueFits, [Catalogue!Next]_<<Listing, Places, hasTopic>> PROVE CatalogueFits'
  OBVIOUS
<1> USE DEF CatalogueFits, Catalogue!Listed, Catalogue!Distinct
<1>1. CASE UNCHANGED <<Listing, Places, hasTopic>> BY <1>1
<1>2. ASSUME NEW S \in SUBSET DOMAIN Listing, Listing' = [d \in S |-> Listing[d]], UNCHANGED Places
      PROVE  CatalogueFits'
  BY <1>2
<1>3. CASE Catalogue!Close BY <1>2, <1>3 DEF Catalogue!Close, Catalogue!Only
<1>4. ASSUME NEW e, Catalogue!Withdraw(e) PROVE CatalogueFits'
  BY <1>2, <1>4 DEF Catalogue!Withdraw, Catalogue!Only
<1>5. ASSUME NEW e \in Episode, NEW season, NEW chapters, NEW isShort \in BOOLEAN,
             Catalogue!List(e, season, chapters, isShort)
      PROVE  CatalogueFits'
  <2> DEFINE kept == DOMAIN Listing \ Catalogue!Replaced(isShort)
             entry == [chapters |-> chapters, isShort |-> isShort]
  <2>1. PICK n \in Nat : \A d \in Episode : Places[d].number \in Nat /\ Places[d].number <= n
    OBVIOUS
  <2>2. PICK number \in Nat :
          /\ Catalogue!NextPlace(season) = [season |-> season, number |-> number]
          /\ \A d \in Episode : Places[d].season = season => Places[d].number < number
    BY <2>1, NextPlaceIsAbove
  <2>3. DOMAIN Places = Episode BY DEF Places
  <2>4. /\ Places'[e] = [season |-> season, number |-> number]
        /\ \A d \in Episode \ {e} : Places'[d] = Places[d]
    BY <1>5, <2>2, <2>3 DEF Catalogue!List
  <2>5. \A d \in Episode : Places'[d].number \in Nat /\ Places'[d].number <= n + number
    <3>1. \A d \in Episode \ {e} : Places'[d].number \in Nat /\ Places'[d].number <= n BY <2>1, <2>4
    <3>2. Places'[e].number = number BY <2>4
    <3>. QED BY <3>1, <3>2
  <2>6. n + number \in Nat OBVIOUS
  <2>7. Places'[e].season = season /\ Places'[e].number = number BY <2>4
  <2>8. ASSUME NEW d \in Episode \ {e} PROVE Places'[d] # Places'[e]
    <3>1. Places'[d] = Places[d] BY <2>4
    <3>2. CASE Places[d].season # season BY <2>7, <3>1, <3>2
    <3>3. CASE Places[d].season = season
      <4>1. Places[d].number < number /\ Places[d].number \in Nat BY <2>1, <2>2, <3>3
      <4>. QED BY <2>7, <3>1, <4>1
    <3>. QED BY <3>2, <3>3
  <2>9. /\ e \notin DOMAIN Listing
        /\ Listing' = [d \in kept \cup {e} |-> IF d = e THEN entry ELSE Listing[d]]
    BY <1>5 DEF Catalogue!List
  <2>10. entry.isShort = isShort OBVIOUS
  <2>11. \A d \in kept : d # e /\ ~(isShort /\ Listing[d].isShort) BY <2>9 DEF Catalogue!Replaced
  <2> HIDE DEF entry
  <2>12. kept \subseteq DOMAIN Listing OBVIOUS
  <2> HIDE DEF kept
  <2>13. DOMAIN Listing' = kept \cup {e} /\ Listing'[e] = entry /\ \A d \in kept : Listing'[d] = Listing[d]
    BY <2>9, <2>11
  <2>14. ASSUME NEW c \in Episode, NEW d \in Episode, c # d, Places'[c].season # 0
         PROVE  Places'[c] # Places'[d]
    <3>1. CASE c = e BY <2>8, <2>14, <3>1
    <3>2. CASE d = e BY <2>8, <2>14, <3>2
    <3>3. CASE c # e /\ d # e
      <4>1. Places'[c] = Places[c] /\ Places'[d] = Places[d] BY <2>4, <3>3
      <4>. QED BY <2>14, <4>1
    <3>. QED BY <3>1, <3>2, <3>3
  <2>15. ASSUME NEW c \in DOMAIN Listing', NEW d \in DOMAIN Listing', c \in Episode, d \in Episode, c # d
         PROVE  ~(Listing'[c].isShort /\ Listing'[d].isShort)
    <3>1. CASE c \in kept /\ d \in kept BY <2>12, <2>13, <2>15, <3>1
    <3>2. CASE c = e /\ d \in kept BY <2>10, <2>11, <2>13, <3>2
    <3>3. CASE c \in kept /\ d = e BY <2>10, <2>11, <2>13, <3>3
    <3>. QED BY <2>13, <2>15, <3>1, <3>2, <3>3
  <2>16. \E m \in Nat : \A d \in Episode : Places'[d].number \in Nat /\ Places'[d].number <= m BY <2>5, <2>6
  <2>. QED BY <2>14, <2>15, <2>16
<1>. QED BY <1>1, <1>3, <1>4, <1>5 DEF Catalogue!Next

\* Listeners never find two short Podcast Episodes of a Topic, though hasRecordingShortPodcastEpisode
\* is read long before the row that it guards is written and two may be recorded at once, nor do
\* two Podcast Episodes of one season ever share a number, removed ones included: it follows from
\* the catalogue alone.
THEOREM ListedAreDistinct == Spec => []Catalogue!Distinct
<1>1. Catalogue!Init => CatalogueFits
  <2> SUFFICES ASSUME Catalogue!Init PROVE CatalogueFits OBVIOUS
  <2>1. \A d \in Episode : Places[d].season = 0 /\ Places[d].number = 0 BY DEF Catalogue!Init
  <2>2. Catalogue!Listed = {} BY DEF Catalogue!Init, Catalogue!Listed
  <2>. QED BY <2>1, <2>2 DEF CatalogueFits, Catalogue!Distinct
<1>2. CatalogueFits => Catalogue!Distinct BY DEF CatalogueFits
<1>. QED BY <1>1, <1>2, CatalogueStillFits, EpisodesKeepCatalogue, PTL DEF KeepsCatalogue, Catalogue!Spec

=============================================================================
