-------------------------- MODULE StepEngine_proofs --------------------------
(***************************************************************************)
(* Proofs about StepEngine: for all workflows, of any length, any number   *)
(* of retries and any parameters of the executor.  At the end, proofs      *)
(* about StepForms: for every limit of the timeout and every set of        *)
(* payloads.                                                               *)
(***************************************************************************)
EXTENDS StepForms, WellFoundedInduction, TLAPS

Places == {"queued", "call", "launch", "next", "act", "register", "failing",
           "finally", "requeue", "ending", "over"}

(***************************************************************************)
(* The inductive invariant.  Where the run is, in its workflow ...         *)
(***************************************************************************)
Place ==
  /\ status = "QUEUED" <=> pc = "queued"
  /\ pc = "act" => i <= Len(wf) /\ ~wf[i].disabled /\ wf[i].retry >= 0
  /\ pc \in {"call", "launch"} => i = 1
  /\ pc = "launch" => NeedsBrowser(wf)
  /\ pc = "requeue" => tries < MaxRetries

\* ... whether it has a browser ...
HasPage == pc \in {"next", "act"} /\ NeedsBrowser(wf) => page = 1

\* ... what it has done in this attempt ...
DoneSoFar ==
  /\ pc \in {"call", "launch"} => done = {} /\ made = {}
  /\ pc \in {"next", "act"} => done = {j \in Effective(wf) : j < i}
  /\ pc = "register" => done = Effective(wf)

Reports(w) == {j \in 1..Len(w) : w[j].kind \in RunDirKinds \cup PathKinds}
MadeSoFar == pc \in {"next", "act", "register"} => made = done \cap Reports(wf)

\* The two halves of the type invariant.
ControlOK ==
  /\ wf \in Workflows /\ status \in {"QUEUED", "RUNNING"} \cup Over
  /\ tries \in 0..MaxRetries /\ cancel \in BOOLEAN /\ asked \in {"none", "RUNNING", "QUEUED"}
  /\ pc \in Places
  /\ i \in 1..Len(wf) + 1 /\ k \in Nat /\ page \in 0..1
WorkOK ==
  /\ disk \subseteq Files /\ made \subseteq 1..Len(wf)
  /\ rows \subseteq {"file", "failure"} \X (1..Len(wf))
  /\ started \in [1..Len(wf) -> Nat] /\ ended \in [1..Len(wf) -> Nat]
  /\ done \subseteq 1..Len(wf)

LEMMA Halves == (TypeOK <=> ControlOK /\ WorkOK) /\ (TypeOK' <=> ControlOK' /\ WorkOK')
BY DEF TypeOK, ControlOK, WorkOK, Places

LEMMA WorkStays ==
  ASSUME TypeOK, UNCHANGED <<wf, disk, made, rows, started, ended, done>>
  PROVE  WorkOK'
BY DEF TypeOK, WorkOK

LEMMA WorkflowTyped ==
  ASSUME TypeOK
  PROVE  /\ wf \in Seq(Step) /\ Len(wf) \in Nat
         /\ \A j \in 1..Len(wf) : wf[j] \in Step /\ wf[j].retry \in Int /\ wf[j].path \in Paths
<1>1. wf \in Seq(Step)
  BY StepEngineAssumption DEF TypeOK
<1>2. \A j \in 1..Len(wf) : wf[j] \in Step
  BY <1>1
<1>3. \A s \in Step : s.retry \in Int /\ s.path \in Paths
  BY DEF Step
<1>. QED  BY <1>1, <1>2, <1>3

LEMMA Steps ==
  ASSUME NEW s \in Step
  PROVE  Attempts(s) = s.retry + 1 /\ s.retry \in Int
BY DEF Attempts, Step

LEMMA InitType == Init => TypeOK /\ Place /\ NoBrowserLeft /\ HasPage
<1>. SUFFICES ASSUME Init PROVE TypeOK /\ Place /\ NoBrowserLeft /\ HasPage
  OBVIOUS
<1>1. wf \in Seq(Step) /\ Len(wf) \in Nat /\ wf \in Workflows /\ MaxRetries \in Nat
  BY StepEngineAssumption DEF Init
<1>2. started \in [1..Len(wf) -> Nat] /\ ended \in [1..Len(wf) -> Nat]
  BY <1>1 DEF Init
<1>3. ControlOK
  <2>1. tries \in 0..MaxRetries /\ i \in 1..Len(wf) + 1 /\ k \in Nat /\ page \in 0..1
    BY <1>1 DEF Init
  <2>2. /\ status \in {"QUEUED", "RUNNING"} \cup Over /\ cancel \in BOOLEAN /\ pc \in Places
        /\ asked \in {"none", "RUNNING", "QUEUED"}
    BY DEF Init, Places
  <2>. QED  BY <1>1, <2>1, <2>2 DEF ControlOK
<1>4. WorkOK
  BY <1>2 DEF Init, WorkOK
<1>. QED  BY <1>3, <1>4, Halves DEF Init, Place, NoBrowserLeft, HasPage

\* What a step leaves on the disk are files.
LEMMA DiskTyped ==
  ASSUME TypeOK, NEW j \in 1..Len(wf)
  PROVE  AfterStep(wf[j], disk) \subseteq Files
BY DEF AfterStep, FileAt, Files, TypeOK

LEMMA StepType ==
  TypeOK /\ Place /\ NoBrowserLeft /\ HasPage /\ [Next]_vars
    => TypeOK' /\ Place' /\ NoBrowserLeft' /\ HasPage'
<1>. SUFFICES ASSUME TypeOK, Place, NoBrowserLeft, HasPage, [Next]_vars
              PROVE  TypeOK' /\ Place' /\ NoBrowserLeft' /\ HasPage'
  OBVIOUS
<1>w. Len(wf) \in Nat /\ i \in Nat /\ k \in Nat /\ i >= 1 /\ i <= Len(wf) + 1
  BY WorkflowTyped DEF TypeOK
<1>s. i <= Len(wf) => i \in 1..Len(wf) /\ Attempts(wf[i]) = wf[i].retry + 1 /\ wf[i].retry \in Int
  BY <1>w, WorkflowTyped, Steps
<1>1. CASE UNCHANGED vars
  BY <1>1 DEF vars, TypeOK, Place, NoBrowserLeft, HasPage
<1>2. CASE Begin
  <2>1. TypeOK'
    BY <1>2, <1>w DEF Begin, Goto, TypeOK, Over
  <2>. QED  BY <1>2, <2>1 DEF Begin, Goto, Place, NoBrowserLeft, HasPage
<1>3. CASE AskToCancel \/ CommitCancel
  <2>1. TypeOK'
    <3>1. ControlOK'
      BY <1>3 DEF AskToCancel, CommitCancel, TypeOK, ControlOK, Places, Over
    <3>2. WorkOK'
      BY <1>3, WorkStays DEF AskToCancel, CommitCancel, world, history
    <3>. QED  BY <3>1, <3>2, Halves
  <2>. QED
    BY <1>3, <2>1
       DEF AskToCancel, CommitCancel, Place, NoBrowserLeft, HasPage, TypeOK, world, history
<1>4. CASE Call
  <2>1. pc' \in {"failing", "launch", "next"}
    BY <1>4 DEF Call, Goto
  <2>2. TypeOK'
    BY <1>4, <2>1 DEF Call, Goto, TypeOK, world, history
  <2>. QED  BY <1>4, <2>1, <2>2 DEF Call, Goto, Place, NoBrowserLeft, HasPage
<1>5. CASE Launch \/ LaunchFails
  <2>1. page = 0
    BY <1>5 DEF Launch, LaunchFails, NoBrowserLeft
  <2>2. TypeOK'
    <3>1. ControlOK'
      BY <1>5, <2>1 DEF Launch, LaunchFails, Goto, TypeOK, ControlOK, Places
    <3>2. WorkOK'
      BY <1>5, WorkStays DEF Launch, LaunchFails, Goto, world, history
    <3>. QED  BY <3>1, <3>2, Halves
  <2>. QED
    BY <1>5, <2>1, <2>2 DEF Launch, LaunchFails, Goto, Place, NoBrowserLeft, HasPage
<1>6. CASE StopBeforeStep
  <2>1. TypeOK'
    BY <1>6 DEF StopBeforeStep, Goto, TypeOK, world, history, AfterClose, Over
  <2>. QED
    BY <1>6, <2>1 DEF StopBeforeStep, Goto, Place, NoBrowserLeft, HasPage, AfterClose
<1>7. CASE SkipStep \/ NoAttempts
  <2>1. i' \in 1..Len(wf) + 1
    BY <1>7, <1>w DEF SkipStep, NoAttempts
  <2>2. TypeOK'
    BY <1>7, <2>1 DEF SkipStep, NoAttempts, Goto, TypeOK, world, history
  <2>. QED
    BY <1>7, <2>2 DEF SkipStep, NoAttempts, Goto, Place, NoBrowserLeft, HasPage
<1>8. CASE StartStep
  <2>1. i \in 1..Len(wf) /\ wf[i].retry >= 0
    BY <1>8, <1>w, <1>s DEF StartStep
  <2>2. started' \in [1..Len(wf) -> Nat]
    BY <1>8, <2>1 DEF StartStep, TypeOK
  <2>3. TypeOK'
    BY <1>8, <2>2 DEF StartStep, Goto, TypeOK, world
  <2>. QED
    BY <1>8, <2>1, <2>3 DEF StartStep, Goto, Place, NoBrowserLeft, HasPage
<1>9. CASE StepEnds
  <2>1. i \in 1..Len(wf)
    BY <1>9, <1>w DEF StepEnds, Place
  <2>2. i' \in 1..Len(wf) + 1 /\ ended' \in [1..Len(wf) -> Nat] /\ done' \subseteq 1..Len(wf)
    <3>1. i' = i + 1 /\ ended' = [ended EXCEPT ![i] = @ + 1] /\ done' = done \cup {i}
      BY <1>9 DEF StepEnds
    <3>2. i + 1 \in 1..Len(wf) + 1
      BY <1>w, <2>1
    <3>3. ended' \in [1..Len(wf) -> Nat]
      BY <3>1, <2>1 DEF TypeOK
    <3>4. done' \subseteq 1..Len(wf)
      BY <3>1, <2>1 DEF TypeOK
    <3>. QED  BY <3>1, <3>2, <3>3, <3>4
  <2>3. disk' \subseteq Files /\ made' \subseteq 1..Len(wf)
    BY <1>9, <2>1, DiskTyped DEF StepEnds, TypeOK, FileOf
  <2>4. TypeOK'
    BY <1>9, <2>2, <2>3 DEF StepEnds, Goto, TypeOK
  <2>. QED
    BY <1>9, <2>4 DEF StepEnds, Goto, Place, NoBrowserLeft, HasPage
<1>10. CASE StepIsRetried
  <2>1. i \in 1..Len(wf)
    BY <1>10, <1>w DEF StepIsRetried, Place
  <2>2. started' \in [1..Len(wf) -> Nat] /\ k' \in Nat
    BY <1>10, <1>w, <2>1 DEF StepIsRetried, TypeOK
  <2>3. disk' \subseteq Files
    BY <1>10, <2>1, DiskTyped DEF StepIsRetried, LeavesBehind, TypeOK
  <2>4. TypeOK'
    BY <1>10, <2>2, <2>3 DEF StepIsRetried, Goto, TypeOK
  <2>. QED
    BY <1>10, <2>4 DEF StepIsRetried, Goto, Place, NoBrowserLeft, HasPage
<1>11. CASE StepGivesUp
  <2>1. i \in 1..Len(wf)
    BY <1>11, <1>w DEF StepGivesUp, Place
  <2>2. disk' \subseteq Files
    BY <1>11, <2>1, DiskTyped DEF StepGivesUp, LeavesBehind, TypeOK
  <2>3. rows' \subseteq {"file", "failure"} \X (1..Len(wf))
    BY <1>11, <2>1 DEF StepGivesUp, TypeOK
  <2>4. TypeOK'
    BY <1>11, <2>2, <2>3 DEF StepGivesUp, Goto, TypeOK, AfterClose, history
  <2>. QED
    BY <1>11, <2>4 DEF StepGivesUp, Goto, Place, NoBrowserLeft, HasPage, AfterClose
<1>12. CASE StepsEnd
  <2>1. TypeOK'
    BY <1>12 DEF StepsEnd, Goto, TypeOK, world, history, AfterClose
  <2>. QED
    BY <1>12, <2>1 DEF StepsEnd, Goto, Place, NoBrowserLeft, HasPage, AfterClose
<1>13. CASE Register
  <2>1. rows' \subseteq {"file", "failure"} \X (1..Len(wf))
    <3>. DEFINE first == {m \in made : \A s \in {j \in made : ~Registrable(wf, j)} : m < s}
    <3>1. rows' = rows \cup {<<"file", j>> : j \in first}
      BY <1>13 DEF Register
    <3>2. first \subseteq 1..Len(wf)
      BY DEF TypeOK
    <3>. HIDE DEF first
    <3>. QED  BY <3>1, <3>2 DEF TypeOK
  <2>2. TypeOK'
    BY <1>13, <2>1 DEF Register, Goto, TypeOK, history, Over
  <2>. QED
    BY <1>13, <2>2 DEF Register, Goto, Place, NoBrowserLeft, HasPage
<1>14. CASE Requeue
  <2>1. tries' \in 0..MaxRetries
    BY <1>14, StepEngineAssumption DEF Requeue, Place, NextCount, TypeOK
  <2>2. TypeOK'
    BY <1>14, <2>1 DEF Requeue, TypeOK, world, history
  <2>. QED
    BY <1>14, <2>2 DEF Requeue, Place, NoBrowserLeft, HasPage
<1>15. CASE CancelBeforeStart \/ CommitFailed \/ Return
  <2>1. TypeOK'
    <3>1. ControlOK'
      BY <1>15 DEF CancelBeforeStart, CommitFailed, Return, Goto, TypeOK, ControlOK, Places, Over
    <3>2. WorkOK'
      BY <1>15, WorkStays DEF CancelBeforeStart, CommitFailed, Return, Goto, world, history
    <3>. QED  BY <3>1, <3>2, Halves
  <2>. QED
    BY <1>15, <2>1
       DEF CancelBeforeStart, CommitFailed, Return, Goto, Place, NoBrowserLeft, HasPage
<1>16. CASE DecideRetry
  <2>1. pc' \in {"requeue", "ending"} /\ (pc' = "requeue" => tries < MaxRetries)
    BY <1>16 DEF DecideRetry, Goto, MayRetry
  <2>2. TypeOK'
    BY <1>16, <2>1 DEF DecideRetry, Goto, TypeOK, world, history
  <2>. QED
    BY <1>16, <2>1, <2>2 DEF DecideRetry, Goto, Place, NoBrowserLeft, HasPage
<1>. QED
  BY <1>1, <1>2, <1>3, <1>4, <1>5, <1>6, <1>7, <1>8, <1>9, <1>10, <1>11, <1>12, <1>13,
     <1>14, <1>15, <1>16
     DEF Next, RunNext, StepsNext

\* A web step finds a page and no attempt leaves one, whichever way it ends.
THEOREM BrowserIsClosed == Spec => []BrowserFollowsAttempt
<1>1. TypeOK /\ Place /\ NoBrowserLeft /\ HasPage => BrowserFollowsAttempt
  <2>. SUFFICES ASSUME TypeOK, Place, NoBrowserLeft, HasPage PROVE WebStepHasPage
    BY DEF BrowserFollowsAttempt
  <2>1. pc = "act" => i \in 1..Len(wf) /\ ~wf[i].disabled
    BY WorkflowTyped DEF Place, TypeOK
  <2>2. pc = "act" /\ wf[i].kind \in WebKinds => NeedsBrowser(wf)
    BY <2>1 DEF NeedsBrowser, Enabled
  <2>. QED  BY <2>2 DEF WebStepHasPage, HasPage
<1>2. Spec => [](TypeOK /\ Place /\ NoBrowserLeft /\ HasPage)
  BY InitType, StepType, PTL DEF Spec
<1>. QED  BY <1>1, <1>2, PTL

(***************************************************************************)
(* What has been done, in which order, and what it was reported as.        *)
(***************************************************************************)
Doing == DoneSoFar /\ MadeSoFar

LEMMA InitDoing == Init => Doing
BY DEF Init, Doing, DoneSoFar, MadeSoFar

LEMMA StepDoing == TypeOK /\ Place /\ Doing /\ [Next]_vars => Doing'
<1>. SUFFICES ASSUME TypeOK, Place, Doing, [Next]_vars PROVE Doing'
  OBVIOUS
<1>w. /\ Len(wf) \in Nat /\ i \in Nat /\ i >= 1 /\ i <= Len(wf) + 1
      /\ done \subseteq 1..Len(wf)
      /\ \A j \in 1..Len(wf) : wf[j].retry \in Int /\ Attempts(wf[j]) = wf[j].retry + 1
  BY WorkflowTyped, Steps DEF TypeOK
<1>1. CASE UNCHANGED <<wf, pc, i, made, done>>
  BY <1>1 DEF Doing, DoneSoFar, MadeSoFar
<1>2. CASE UNCHANGED vars \/ StepIsRetried
  BY <1>1, <1>2 DEF vars, StepIsRetried, Goto
<1>3. CASE pc' \in {"queued", "failing", "finally", "requeue", "ending", "over"}
  BY <1>3 DEF Doing, DoneSoFar, MadeSoFar
<1>4. CASE StepGivesUp \/ StopBeforeStep \/ LaunchFails \/ Register \/ CancelBeforeStart
             \/ CommitFailed \/ DecideRetry \/ Requeue \/ Return
  BY <1>3, <1>4
     DEF StepGivesUp, StopBeforeStep, LaunchFails, Register, CancelBeforeStart, CommitFailed,
         DecideRetry, Requeue, Return, Goto
<1>5. CASE AskToCancel \/ CommitCancel
  BY <1>1, <1>3, <1>5 DEF AskToCancel, CommitCancel, world, history
<1>6. CASE Begin
  BY <1>6 DEF Begin, Goto, Doing, DoneSoFar, MadeSoFar
<1>7. CASE Call \/ Launch
  <2>1. i = 1 /\ done = {} /\ made = {} /\ UNCHANGED <<wf, i, done, made>>
    BY <1>7 DEF Call, Launch, Goto, Place, Doing, DoneSoFar, world, history
  <2>2. pc' \in {"failing", "launch", "next"}
    BY <1>7 DEF Call, Launch, Goto
  <2>3. {j \in Effective(wf) : j < 1} = {}
    BY <1>w DEF Effective, Enabled
  <2>. QED  BY <2>1, <2>2, <2>3 DEF Doing, DoneSoFar, MadeSoFar
<1>8. CASE SkipStep \/ NoAttempts
  <2>1. /\ pc = "next" /\ pc' = "next" /\ i' = i + 1 /\ i \in 1..Len(wf)
        /\ UNCHANGED <<wf, done, made>>
    BY <1>8, <1>w DEF SkipStep, NoAttempts, Goto, world, history
  <2>2. i \notin Effective(wf)
    BY <1>8, <1>w, <2>1 DEF SkipStep, NoAttempts, Effective, Enabled
  <2>3. \A j \in Effective(wf) : j \in Nat
    BY <1>w DEF Effective, Enabled
  <2>4. {j \in Effective(wf) : j < i} = {j \in Effective(wf) : j < i + 1}
    BY <1>w, <2>2, <2>3
  <2>. QED  BY <2>1, <2>4 DEF Doing, DoneSoFar, MadeSoFar
<1>9. CASE StartStep
  BY <1>9 DEF StartStep, Goto, Doing, DoneSoFar, MadeSoFar, world
<1>10. CASE StepEnds
  <2>1. /\ pc = "act" /\ pc' = "next" /\ i' = i + 1 /\ i \in 1..Len(wf) /\ wf' = wf
        /\ done' = done \cup {i} /\ made' = made \cup FileOf(wf, i)
    BY <1>10, <1>w DEF StepEnds, Goto, Place
  <2>2. i \in Effective(wf)
    <3>1. ~wf[i].disabled /\ wf[i].retry >= 0
      BY <2>1 DEF Place
    <3>. QED  BY <2>1, <3>1 DEF Effective, Enabled
  <2>3. \A j \in Effective(wf) : j \in Nat
    BY <1>w DEF Effective, Enabled
  <2>4. {j \in Effective(wf) : j < i} \cup {i} = {j \in Effective(wf) : j < i + 1}
    <3>1. \A j \in Effective(wf) : j < i + 1 <=> j < i \/ j = i
      BY <1>w, <2>3
    <3>. QED  BY <2>2, <3>1
  <2>5. FileOf(wf, i) = {i} \cap Reports(wf)
    BY <2>1 DEF FileOf, Reports
  <2>. QED  BY <2>1, <2>4, <2>5 DEF Doing, DoneSoFar, MadeSoFar
<1>11. CASE StepsEnd
  <2>1. /\ pc = "next" /\ pc' = "register" /\ i > Len(wf) /\ UNCHANGED <<wf, done, made>>
    BY <1>11 DEF StepsEnd, Goto, world, history
  <2>2. {j \in Effective(wf) : j < i} = Effective(wf)
    BY <1>w, <2>1 DEF Effective, Enabled
  <2>. QED  BY <2>1, <2>2 DEF Doing, DoneSoFar, MadeSoFar
<1>. QED
  BY <1>2, <1>4, <1>5, <1>6, <1>7, <1>8, <1>9, <1>10, <1>11 DEF Next, RunNext, StepsNext

\* No attempt starts in the middle of a workflow or goes on after a failure.
THEOREM StepsInOrder == Spec => []OrderedEffects
<1>1. Doing => OrderedEffects
  BY DEF Doing, DoneSoFar, OrderedEffects
<1>2. Spec => [](TypeOK /\ Place /\ NoBrowserLeft /\ HasPage /\ Doing)
  BY InitType, InitDoing, StepType, StepDoing, PTL DEF Spec
<1>. QED  BY <1>1, <1>2, PTL

LEMMA InitSuccess == Init => SuccessIsComplete
BY DEF Init, SuccessIsComplete

\* Register is the only way to success, and ends the attempt.
LEMMA StepSuccess ==
  TypeOK /\ Place /\ Doing /\ (status = "SUCCESS" => pc \in {"ending", "over"})
    /\ SuccessIsComplete /\ [Next]_vars
  => SuccessIsComplete' /\ (status' = "SUCCESS" => pc' \in {"ending", "over"})
<1>. SUFFICES ASSUME TypeOK, Place, Doing, status = "SUCCESS" => pc \in {"ending", "over"},
                     SuccessIsComplete, [Next]_vars
              PROVE  SuccessIsComplete' /\ (status' = "SUCCESS" => pc' \in {"ending", "over"})
  OBVIOUS
<1>1. CASE UNCHANGED vars
  BY <1>1 DEF vars, SuccessIsComplete
<1>2. CASE Register
  <2>. SUFFICES ASSUME status' = "SUCCESS" PROVE SuccessIsComplete' /\ pc' = "ending"
    BY DEF SuccessIsComplete
  <2>0. status # "SUCCESS"
    BY <1>2 DEF Register
  <2>1. {j \in made : ~Registrable(wf, j)} = {}
    BY <1>2, <2>0 DEF Register
  <2>2. rows' = rows \cup {<<"file", j>> : j \in made} /\ pc' = "ending"
    <3>. DEFINE strange == {j \in made : ~Registrable(wf, j)}
                first   == {m \in made : \A s \in strange : m < s}
    <3>1. rows' = rows \cup {<<"file", j>> : j \in first}
      BY <1>2 DEF Register
    <3>2. first = made
      BY <2>1
    <3>3. pc' = "ending"
      BY <1>2, <2>1 DEF Register, Goto
    <3>. HIDE DEF first
    <3>. QED  BY <3>1, <3>2, <3>3
  <2>3. wf' = wf /\ made' = made /\ done' = done /\ pc = "register"
    BY <1>2 DEF Register, Goto, history
  <2>4. done = Effective(wf) /\ made = done \cap Reports(wf)
    BY <2>3 DEF Doing, DoneSoFar, MadeSoFar
  <2>5. \A j \in done : FileOf(wf, j) \subseteq {m \in made : <<"file", m>> \in rows'}
    BY <2>2, <2>4 DEF FileOf, Reports, TypeOK
  <2>. QED  BY <2>2, <2>3, <2>4, <2>5 DEF SuccessIsComplete
<1>3. CASE status' # "SUCCESS"
  BY <1>3 DEF SuccessIsComplete
<1>4. CASE Return
  BY <1>4 DEF Return, Goto, SuccessIsComplete, world, history
<1>5. CASE Begin \/ StopBeforeStep \/ CancelBeforeStart \/ CommitFailed \/ Requeue
  <2>1. status' # "SUCCESS"
    BY <1>5 DEF Begin, StopBeforeStep, CancelBeforeStart, CommitFailed, Requeue
  <2>. QED  BY <2>1, <1>3
<1>6. CASE AskToCancel \/ CommitCancel
  <2>1. CASE status' = "CANCELLED"
    BY <2>1, <1>3
  <2>2. CASE UNCHANGED <<wf, status, pc, made, rows, done>>
    BY <2>2 DEF SuccessIsComplete
  <2>. QED  BY <1>6, <2>1, <2>2 DEF AskToCancel, CommitCancel, world, history
<1>7. CASE status' = status /\ pc \notin {"ending", "over"}
  BY <1>3, <1>7
<1>8. CASE Call \/ Launch \/ LaunchFails \/ SkipStep \/ NoAttempts \/ StartStep \/ StepEnds
             \/ StepIsRetried \/ StepGivesUp \/ StepsEnd \/ DecideRetry
  BY <1>7, <1>8
     DEF DecideRetry, Call, Launch, LaunchFails, SkipStep, NoAttempts, StartStep, StepEnds, StepIsRetried,
         StepGivesUp, StepsEnd
<1>. QED
  BY <1>1, <1>2, <1>4, <1>5, <1>6, <1>8 DEF Next, RunNext, StepsNext

\* An attempt fails behind its last step only for a report that Register cannot
\* take: one that is not a path below BASE_DIR to the letter.
LEMMA StepCompleted ==
  ASSUME Keywords \subseteq Parameters
  PROVE  TypeOK /\ Place /\ Doing /\ CompletedIsSuccess /\ [Next]_vars => CompletedIsSuccess'
<1>. SUFFICES ASSUME TypeOK, Place, Doing, CompletedIsSuccess, [Next]_vars
              PROVE  CompletedIsSuccess'
  OBVIOUS
<1>w. Len(wf) \in Nat /\ done \subseteq 1..Len(wf)
  BY WorkflowTyped DEF TypeOK
<1>1. CASE UNCHANGED <<pc, wf, i, done>>
  BY <1>1 DEF CompletedIsSuccess
<1>2. CASE pc' # "failing"
  BY <1>2 DEF CompletedIsSuccess
<1>3. CASE UNCHANGED vars \/ StepIsRetried
  BY <1>1, <1>3 DEF vars, StepIsRetried, Goto
<1>4. CASE Begin \/ Launch \/ StopBeforeStep \/ SkipStep \/ NoAttempts \/ StartStep \/ StepEnds
             \/ StepsEnd \/ CancelBeforeStart \/ CommitFailed \/ DecideRetry \/ Requeue \/ Return
  BY <1>2, <1>4
     DEF Begin, Launch, StopBeforeStep, SkipStep, NoAttempts, StartStep, StepEnds, StepsEnd,
         CancelBeforeStart, CommitFailed, DecideRetry, Requeue, Return, Goto
<1>5. CASE Call
  <2>1. pc' # "failing"
    BY <1>5 DEF Call, Goto
  <2>. QED  BY <1>2, <2>1
<1>6. CASE AskToCancel \/ CommitCancel
  BY <1>1, <1>2, <1>6 DEF AskToCancel, CommitCancel, history
<1>7. CASE LaunchFails
  <2>1. i = 1 /\ NeedsBrowser(wf) /\ UNCHANGED <<wf, i>>
    BY <1>7 DEF LaunchFails, Place, Goto
  <2>2. i <= Len(wf)
    BY <1>w, <2>1 DEF NeedsBrowser, Enabled
  <2>. QED  BY <1>w, <2>1, <2>2 DEF CompletedIsSuccess
<1>8. CASE StepGivesUp
  <2>1. i <= Len(wf) /\ UNCHANGED <<wf, i>> /\ i \in Nat
    BY <1>8, <1>w DEF StepGivesUp, Place, Goto, TypeOK
  <2>. QED  BY <1>w, <2>1 DEF CompletedIsSuccess
<1>9. CASE Register
  <2>1. UNCHANGED <<wf, i, done>> /\ made = done \cap Reports(wf)
    BY <1>9 DEF Register, Goto, history, Doing, MadeSoFar
  <2>2. CASE {j \in made : ~Registrable(wf, j)} = {}
    <3>1. pc' = "ending"
      BY <1>9, <2>2 DEF Register, Goto
    <3>. QED  BY <1>2, <3>1
  <2>3. CASE {j \in made : ~Registrable(wf, j)} # {}
    <3>1. PICK j \in made : ~Registrable(wf, j)
      BY <2>3
    <3>2. j \in done /\ j \in 1..Len(wf) /\ wf[j].kind \in RunDirKinds \cup PathKinds
      BY <1>w, <2>1, <3>1 DEF Reports
    <3>3. Strange(wf[j])
      BY <3>1, <3>2, WorkflowTyped DEF Registrable, Strange, Paths
    <3>4. Strange(wf[j])'
      BY <2>1, <3>3 DEF Strange
    <3>. QED  BY <2>1, <3>2, <3>4 DEF CompletedIsSuccess
  <2>. QED  BY <2>2, <2>3
<1>. QED
  BY <1>3, <1>4, <1>5, <1>6, <1>7, <1>8, <1>9 DEF Next, RunNext, StepsNext

\* SUCCESS is told from failure, if the executor knows the keywords it is
\* called with.
THEOREM OutcomeTold ==
  ASSUME Keywords \subseteq Parameters
  PROVE  Spec => []OutcomeIsTrue
<1>. DEFINE Kept == status = "SUCCESS" => pc \in {"ending", "over"}
<1>1. SuccessIsComplete /\ CompletedIsSuccess => OutcomeIsTrue
  BY DEF OutcomeIsTrue
<1>2. Init => Kept /\ CompletedIsSuccess
  BY DEF Init, CompletedIsSuccess
<1>3. TypeOK /\ Place /\ Doing /\ Kept /\ SuccessIsComplete /\ [Next]_vars
        => SuccessIsComplete' /\ Kept'
  BY StepSuccess
<1>4. TypeOK /\ Place /\ Doing /\ CompletedIsSuccess /\ [Next]_vars => CompletedIsSuccess'
  BY StepCompleted
<1>. HIDE DEF Kept
<1>5. Spec => [](TypeOK /\ Place /\ NoBrowserLeft /\ HasPage /\ Doing /\ Kept
                   /\ SuccessIsComplete /\ CompletedIsSuccess)
  BY InitType, InitDoing, InitSuccess, StepType, StepDoing, <1>2, <1>3, <1>4, PTL DEF Spec
<1>. QED  BY <1>1, <1>5, PTL

(***************************************************************************)
(* How often a step may act on the world.                                  *)
(***************************************************************************)
\* What n attempts of the run grant step j.
Budget(j, n) == Granted(wf[j]) * n

LEMMA BudgetGrows ==
  ASSUME TypeOK, NEW j \in 1..Len(wf), NEW n \in Nat
  PROVE  /\ Granted(wf[j]) \in Nat /\ Budget(j, n) \in Nat
         /\ Budget(j, n + 1) = Budget(j, n) + Granted(wf[j])
<1>1. Granted(wf[j]) \in Nat
  BY WorkflowTyped DEF Granted
<1>2. \A g \in Nat : g * n \in Nat /\ g * (n + 1) = g * n + g
  OBVIOUS
<1>. QED  BY <1>1, <1>2 DEF Budget

LEMMA BudgetIsMonotonic ==
  ASSUME TypeOK, NEW j \in 1..Len(wf), NEW m \in Nat, NEW n \in Nat, m <= n
  PROVE  Budget(j, m) <= Budget(j, n)
<1>1. Granted(wf[j]) \in Nat
  BY WorkflowTyped DEF Granted
<1>2. \A g, d \in Nat : g * (m + d) = g * m + g * d /\ g * d \in Nat /\ g * m \in Nat
  OBVIOUS
<1>3. n - m \in Nat /\ n = m + (n - m)
  OBVIOUS
<1>4. Budget(j, n) = Budget(j, m) + Granted(wf[j]) * (n - m)
  BY <1>1, <1>2, <1>3 DEF Budget
<1>. QED  BY <1>1, <1>2, <1>3, <1>4 DEF Budget

\* Steps before the current one may have used this attempt's share, the
\* current one k of it, later ones nothing.
Spent ==
  \A j \in 1..Len(wf) :
    /\ pc \in {"queued", "call", "launch"} => started[j] <= Budget(j, tries)
    /\ pc \in {"next", "act"} /\ j > i => started[j] <= Budget(j, tries)
    /\ pc = "next" /\ j = i => started[j] <= Budget(j, tries)
    /\ pc = "act" /\ j = i => started[j] <= Budget(j, tries) + k /\ k <= Granted(wf[j])
    /\ started[j] <= Budget(j, tries + 1)

LEMMA InitSpent == Init => Spent
<1>. SUFFICES ASSUME Init PROVE Spent
  OBVIOUS
<1>1. TypeOK
  BY InitType
<1>2. ASSUME NEW j \in 1..Len(wf)
      PROVE  started[j] <= Budget(j, tries) /\ started[j] <= Budget(j, tries + 1)
  <2>1. started[j] = 0 /\ tries = 0
    BY <1>2 DEF Init
  <2>. QED  BY <1>1, <2>1, BudgetGrows
<1>. QED  BY <1>2 DEF Init, Spent

LEMMA StepSpent == TypeOK /\ Place /\ Spent /\ [Next]_vars => Spent'
<1>. SUFFICES ASSUME TypeOK, Place, Spent, [Next]_vars PROVE Spent'
  OBVIOUS
<1>w. /\ Len(wf) \in Nat /\ i \in Nat /\ i >= 1 /\ tries \in Nat /\ tries + 1 \in Nat /\ k \in Nat
      /\ started \in [1..Len(wf) -> Nat]
      /\ \A j \in 1..Len(wf) : wf[j].retry \in Int /\ Attempts(wf[j]) = wf[j].retry + 1
  BY WorkflowTyped, Steps, StepEngineAssumption DEF TypeOK
<1>t. \A j \in 1..Len(wf) :
        /\ started[j] \in Nat /\ Granted(wf[j]) \in Nat /\ Budget(j, tries) \in Nat
        /\ Budget(j, tries + 1) = Budget(j, tries) + Granted(wf[j])
        /\ Budget(j, tries + 1 + 1) = Budget(j, tries) + Granted(wf[j]) + Granted(wf[j])
  <2>. TAKE j \in 1..Len(wf)
  <2>1. started[j] \in Nat
    BY <1>w
  <2>2. Granted(wf[j]) \in Nat /\ Budget(j, tries) \in Nat
        /\ Budget(j, tries + 1) = Budget(j, tries) + Granted(wf[j])
    BY <1>w, BudgetGrows
  <2>3. Budget(j, tries + 1 + 1) = Budget(j, tries + 1) + Granted(wf[j])
    BY <1>w, BudgetGrows
  <2>. QED  BY <2>1, <2>2, <2>3
<1>b. wf' = wf => \A j, n : Budget(j, n)' = Budget(j, n')
  BY DEF Budget, Granted
\* A step that starts nothing and moves forward.
<1>1. ASSUME UNCHANGED <<wf, started, tries>>,
             pc' \in {"register", "failing", "finally", "requeue", "ending", "over"}
      PROVE  Spent'
  BY <1>1, <1>b DEF Spent
<1>2. CASE UNCHANGED <<wf, started, tries, pc, i, k>>
  BY <1>2, <1>b DEF Spent
<1>3. CASE UNCHANGED vars
  BY <1>2, <1>3 DEF vars
<1>4. CASE AskToCancel \/ CommitCancel
  BY <1>1, <1>2, <1>4 DEF AskToCancel, CommitCancel, history
<1>5. CASE LaunchFails \/ StopBeforeStep \/ StepGivesUp \/ StepsEnd \/ Register
             \/ CancelBeforeStart \/ CommitFailed \/ DecideRetry \/ Return
  BY <1>1, <1>5
     DEF LaunchFails, StopBeforeStep, StepGivesUp, StepsEnd, Register, CancelBeforeStart,
         CommitFailed, DecideRetry, Return, Goto, history
<1>6. CASE Begin \/ Call \/ Launch
  <2>1. /\ UNCHANGED <<wf, started, tries>> /\ pc \in {"queued", "call", "launch"}
        /\ pc' \in {"call", "launch", "next", "failing"}
    BY <1>6 DEF Begin, Call, Launch, Goto, history
  <2>. QED  BY <1>b, <2>1 DEF Spent
<1>7. CASE SkipStep \/ NoAttempts
  <2>1. /\ UNCHANGED <<wf, started, tries>> /\ pc = "next" /\ pc' = "next" /\ i' = i + 1
    BY <1>7 DEF SkipStep, NoAttempts, Goto, history
  <2>. QED  BY <1>b, <1>w, <2>1 DEF Spent
<1>8. CASE StartStep
  <2>1. /\ UNCHANGED <<wf, tries, i>> /\ pc = "next" /\ pc' = "act" /\ k' = 1 /\ i \in 1..Len(wf)
        /\ started' = [started EXCEPT ![i] = @ + 1]
    BY <1>8, <1>w DEF StartStep, Goto
  <2>2. Granted(wf[i]) >= 1
    BY <1>8, <1>w, <2>1 DEF StartStep, Granted
  <2>3. started'[i] = started[i] + 1 /\ \A j \in 1..Len(wf) : j # i => started'[j] = started[j]
    BY <1>w, <2>1
  <2>4. started[i] <= Budget(i, tries)
    BY <2>1 DEF Spent
  <2>5. started'[i] <= Budget(i, tries) + 1 /\ started'[i] <= Budget(i, tries + 1)
    BY <1>w, <1>t, <2>1, <2>2, <2>3, <2>4
  <2>6. ASSUME NEW j \in 1..Len(wf), j # i
        PROVE  /\ j > i => started'[j] <= Budget(j, tries)
               /\ started'[j] <= Budget(j, tries + 1)
    BY <2>1, <2>3, <2>6 DEF Spent
  <2>. QED  BY <1>b, <2>1, <2>2, <2>5, <2>6 DEF Spent
<1>9. CASE StepEnds
  <2>1. UNCHANGED <<wf, started, tries>> /\ pc = "act" /\ pc' = "next" /\ i' = i + 1
    BY <1>9 DEF StepEnds, Goto
  <2>. QED  BY <1>b, <1>w, <2>1 DEF Spent
<1>10. CASE StepIsRetried
  <2>1. /\ UNCHANGED <<wf, tries, i>> /\ pc = "act" /\ pc' = "act" /\ k' = k + 1 /\ i \in 1..Len(wf)
        /\ started' = [started EXCEPT ![i] = @ + 1] /\ k < wf[i].retry + 1
    BY <1>10, <1>w DEF StepIsRetried, Goto, Place
  <2>2. k + 1 <= Granted(wf[i])
    BY <1>w, <2>1 DEF Granted
  <2>3. started'[i] = started[i] + 1 /\ \A j \in 1..Len(wf) : j # i => started'[j] = started[j]
    BY <1>w, <2>1
  <2>4. started[i] <= Budget(i, tries) + k
    BY <2>1 DEF Spent
  <2>5. started'[i] <= Budget(i, tries) + (k + 1) /\ started'[i] <= Budget(i, tries + 1)
    BY <1>w, <1>t, <2>1, <2>2, <2>3, <2>4
  <2>6. ASSUME NEW j \in 1..Len(wf), j # i
        PROVE  /\ j > i => started'[j] <= Budget(j, tries)
               /\ started'[j] <= Budget(j, tries + 1)
    BY <2>1, <2>3, <2>6 DEF Spent
  <2>. QED  BY <1>b, <2>1, <2>2, <2>5, <2>6 DEF Spent
<1>11. CASE Requeue
  <2>1. UNCHANGED <<wf, started>> /\ tries' = tries + 1 /\ pc' = "queued"
    BY <1>11 DEF Requeue, NextCount, history
  <2>2. \A j \in 1..Len(wf) : started[j] <= Budget(j, tries + 1)
    BY DEF Spent
  <2>3. \A j \in 1..Len(wf) : started[j] <= Budget(j, tries + 1 + 1)
    BY <1>w, <1>t, <2>2
  <2>. QED  BY <1>b, <2>1, <2>2, <2>3 DEF Spent
<1>. QED
  BY <1>3, <1>4, <1>5, <1>6, <1>7, <1>8, <1>9, <1>10, <1>11 DEF Next, RunNext, StepsNext

\* A step is started at most as often as its own retries and those of the run
\* allow together.
THEOREM BudgetKept == Spec => []BudgetOfActions
<1>1. TypeOK /\ Spent => BudgetOfActions
  <2>. SUFFICES ASSUME TypeOK, Spent, NEW j \in 1..Len(wf)
                PROVE  started[j] <= Granted(wf[j]) * (MaxRetries + 1)
    BY DEF BudgetOfActions
  <2>1. started[j] <= Budget(j, tries + 1) /\ started[j] \in Nat
    BY DEF Spent, TypeOK
  <2>2. tries + 1 \in Nat /\ MaxRetries + 1 \in Nat /\ tries + 1 <= MaxRetries + 1
    BY StepEngineAssumption DEF TypeOK
  <2>3. Budget(j, tries + 1) <= Budget(j, MaxRetries + 1)
    BY <2>2, BudgetIsMonotonic
  <2>4. Budget(j, tries + 1) \in Nat /\ Budget(j, MaxRetries + 1) \in Nat
    BY <2>2, BudgetGrows
  <2>5. Budget(j, MaxRetries + 1) = Granted(wf[j]) * (MaxRetries + 1)
    BY DEF Budget
  <2>. QED  BY <2>1, <2>3, <2>4, <2>5
<1>2. Spec => [](TypeOK /\ Place /\ NoBrowserLeft /\ HasPage /\ Spent)
  BY InitType, InitSpent, StepType, StepSpent, PTL DEF Spec
<1>. QED  BY <1>1, <1>2, PTL

(***************************************************************************)
(* What steps do to the files of the user: sums over the steps.            *)
(***************************************************************************)
Below == {s \in Nat \X Nat : s[1] < s[2]}

\* Induction over the naturals, for sets.
LEMMA Induction ==
  ASSUME NEW T, 0 \in T, \A n \in Nat : n \in T => n + 1 \in T
  PROVE  Nat \subseteq T
<1>. SUFFICES ASSUME Nat \ T # {} PROVE FALSE
  OBVIOUS
<1>1. IsWellFoundedOn(Below, Nat)
  BY NatLessThanWellFounded DEF OpToRel, Below
<1>2. PICK x \in Nat \ T : \A y \in Nat \ T : ~ (<<y, x>> \in Below)
  <2>1. Nat \ T \subseteq Nat
    OBVIOUS
  <2>. QED  BY <1>1, <2>1, WFMin
<1>3. \A y \in Nat \ T : ~(y < x)
  BY <1>2 DEF Below
<1>4. x - 1 \in Nat
  OBVIOUS
<1>5. x - 1 \in T
  BY <1>3, <1>4
<1>. QED  BY <1>4, <1>5

\* The sums of f over the members of S up to each of the numbers up to N.
Sums(f, S, N) == CHOOSE g : g = [n \in 0..N |->
                                   IF n = 0 THEN 0 ELSE g[n - 1] + (IF n \in S THEN f[n] ELSE 0)]

LEMMA SumsAre ==
  ASSUME NEW f, NEW S, NEW N \in Nat
  PROVE  /\ Sums(f, S, N)[0] = 0
         /\ \A n \in 1..N : Sums(f, S, N)[n] = Sums(f, S, N)[n - 1] + (IF n \in S THEN f[n] ELSE 0)
<1>. DEFINE a(n) == IF n \in S THEN f[n] ELSE 0
            IsUpTo(g, m) == g = [n \in 0..m |-> IF n = 0 THEN 0 ELSE g[n - 1] + a(n)]
            T == {m \in Nat : \E g : IsUpTo(g, m)}
<1>1. 0 \in T
  <2>1. IsUpTo([n \in 0..0 |-> 0], 0)
    OBVIOUS
  <2>. QED  BY <2>1
<1>2. ASSUME NEW m \in T PROVE m + 1 \in T
  <2>1. PICK g : IsUpTo(g, m)
    OBVIOUS
  <2>. HIDE DEF a
  <2>. DEFINE h == [n \in 0..m + 1 |-> IF n = m + 1 THEN g[m] + a(m + 1) ELSE g[n]]
              e == [n \in 0..m + 1 |-> IF n = 0 THEN 0 ELSE h[n - 1] + a(n)]
  <2>2. ASSUME NEW n \in 0..m + 1 PROVE h[n] = e[n]
    <3>1. CASE n = m + 1
      BY <3>1
    <3>2. CASE n # m + 1
      <4>1. n \in 0..m /\ h[n] = g[n]
        BY <3>2
      <4>2. g[n] = IF n = 0 THEN 0 ELSE g[n - 1] + a(n)
        BY <2>1, <4>1
      <4>3. n # 0 => h[n - 1] = g[n - 1]
        BY <3>2
      <4>. QED  BY <4>1, <4>2, <4>3
    <3>. QED  BY <3>1, <3>2
  <2>3. h = e
    BY <2>2
  <2>4. m + 1 \in Nat /\ IsUpTo(h, m + 1)
    BY <2>3
  <2>. QED  BY <2>4
<1>3. N \in T
  <2>1. T \subseteq Nat /\ \A m \in T : m + 1 \in T
    BY <1>2
  <2>. HIDE DEF T
  <2>. QED  BY <1>1, <2>1, Induction
<1>4. IsUpTo(Sums(f, S, N), N)
  BY <1>3 DEF Sums
<1>. QED  BY <1>4

LEMMA TotalIs == \A f, S : Total(f, S) = Sums(f, S, Len(wf))[Len(wf)]
BY DEF Total, Sums

LEMMA SumsNat ==
  ASSUME NEW N \in Nat, NEW f \in [1..N -> Nat], NEW S
  PROVE  \A n \in 0..N : Sums(f, S, N)[n] \in Nat
<1>. DEFINE s == Sums(f, S, N)
            T == {n \in Nat : n \in 0..N => s[n] \in Nat}
<1>1. s[0] = 0 /\ \A n \in 1..N : s[n] = s[n - 1] + (IF n \in S THEN f[n] ELSE 0)
  BY SumsAre
<1>. HIDE DEF s
<1>2. 0 \in T
  BY <1>1
<1>3. ASSUME NEW n \in Nat, n \in T PROVE n + 1 \in T
  <2>. SUFFICES ASSUME n + 1 \in 0..N PROVE s[n + 1] \in Nat
    OBVIOUS
  <2>1. n + 1 \in 1..N /\ n \in 0..N /\ (n + 1) - 1 = n
    OBVIOUS
  <2>2. s[n] \in Nat /\ f[n + 1] \in Nat
    BY <1>3, <2>1
  <2>3. s[n + 1] = s[n] + (IF n + 1 \in S THEN f[n + 1] ELSE 0)
    BY <1>1, <2>1
  <2>. QED  BY <2>2, <2>3
<1>4. Nat \subseteq T
  <2>. HIDE DEF T
  <2>. QED  BY <1>2, <1>3, Induction
<1>. QED  BY <1>4 DEF s

LEMMA SumsBumped ==
  ASSUME NEW N \in Nat, NEW f \in [1..N -> Nat], NEW S, NEW j \in 1..N
  PROVE  \A n \in 0..N : Sums([f EXCEPT ![j] = f[j] + 1], S, N)[n]
                           = Sums(f, S, N)[n] + (IF j \in S /\ j <= n THEN 1 ELSE 0)
<1>. DEFINE g == [f EXCEPT ![j] = f[j] + 1]
            s == Sums(f, S, N)
            r == Sums(g, S, N)
            d(n) == IF j \in S /\ j <= n THEN 1 ELSE 0
            T == {n \in Nat : n \in 0..N => r[n] = s[n] + d(n)}
<1>0. /\ g \in [1..N -> Nat] /\ g[j] = f[j] + 1
      /\ \A n \in 1..N : n # j => g[n] = f[n]
  OBVIOUS
<1>. HIDE DEF g
<1>1. s[0] = 0 /\ \A n \in 1..N : s[n] = s[n - 1] + (IF n \in S THEN f[n] ELSE 0)
  BY SumsAre
<1>2. r[0] = 0 /\ \A n \in 1..N : r[n] = r[n - 1] + (IF n \in S THEN g[n] ELSE 0)
  BY SumsAre
<1>3. \A n \in 0..N : s[n] \in Nat
  BY SumsNat
<1>. HIDE DEF s, r
<1>4. 0 \in T
  BY <1>1, <1>2
<1>5. ASSUME NEW n \in Nat, n \in T PROVE n + 1 \in T
  <2>. SUFFICES ASSUME n + 1 \in 0..N PROVE r[n + 1] = s[n + 1] + d(n + 1)
    OBVIOUS
  <2>1. n + 1 \in 1..N /\ n \in 0..N /\ (n + 1) - 1 = n
    OBVIOUS
  <2>2. r[n] = s[n] + d(n) /\ s[n] \in Nat /\ f[n + 1] \in Nat
    BY <1>3, <1>5, <2>1
  <2>3. s[n + 1] = s[n] + (IF n + 1 \in S THEN f[n + 1] ELSE 0)
    BY <1>1, <2>1
  <2>4. r[n + 1] = r[n] + (IF n + 1 \in S THEN g[n + 1] ELSE 0)
    BY <1>2, <2>1
  <2>5. CASE n + 1 = j
    <3>1. d(n) = 0 /\ g[n + 1] = f[n + 1] + 1 /\ d(n + 1) = IF n + 1 \in S THEN 1 ELSE 0
      BY <1>0, <2>5
    <3>. QED  BY <2>2, <2>3, <2>4, <3>1
  <2>6. CASE n + 1 # j
    <3>1. d(n + 1) = d(n) /\ g[n + 1] = f[n + 1] /\ d(n) \in Nat
      BY <1>0, <2>1, <2>6
    <3>. QED  BY <2>2, <2>3, <2>4, <3>1
  <2>. QED  BY <2>5, <2>6
<1>6. Nat \subseteq T
  <2>. HIDE DEF T
  <2>. QED  BY <1>4, <1>5, Induction
<1>7. \A n \in 0..N : r[n] = s[n] + (IF j \in S /\ j <= n THEN 1 ELSE 0)
  BY <1>6
<1>. QED  BY <1>7 DEF s, r, g

LEMMA SumsOfNone ==
  ASSUME NEW N \in Nat, NEW f, \A n \in 1..N : f[n] = 0, NEW S
  PROVE  Sums(f, S, N)[N] = 0
<1>. DEFINE s == Sums(f, S, N)
            T == {n \in Nat : n \in 0..N => s[n] = 0}
<1>1. s[0] = 0 /\ \A n \in 1..N : s[n] = s[n - 1] + (IF n \in S THEN f[n] ELSE 0)
  BY SumsAre
<1>. HIDE DEF s
<1>2. 0 \in T
  BY <1>1
<1>3. ASSUME NEW n \in Nat, n \in T PROVE n + 1 \in T
  <2>. SUFFICES ASSUME n + 1 \in 0..N PROVE s[n + 1] = 0
    OBVIOUS
  <2>1. n + 1 \in 1..N /\ n \in 0..N /\ (n + 1) - 1 = n
    OBVIOUS
  <2>. QED  BY <1>1, <1>3, <2>1
<1>4. Nat \subseteq T
  <2>. HIDE DEF T
  <2>. QED  BY <1>2, <1>3, Induction
<1>. QED  BY <1>4 DEF s

\* The two sums of ProtectedOnce, and what a step that ends or starts adds.
Written(p) == Sums(ended, Protected(p), Len(wf))[Len(wf)]
Deleted(p) == Sums(started, Deleting(p), Len(wf))[Len(wf)]

LEMMA SumsTyped ==
  ASSUME TypeOK, NEW p
  PROVE  Written(p) \in Nat /\ Deleted(p) \in Nat
<1>1. /\ Len(wf) \in Nat /\ Len(wf) \in 0..Len(wf)
      /\ started \in [1..Len(wf) -> Nat] /\ ended \in [1..Len(wf) -> Nat]
  BY WorkflowTyped DEF TypeOK
<1>. QED  BY <1>1, SumsNat DEF Written, Deleted

LEMMA OneMore ==
  ASSUME TypeOK, NEW f \in [1..Len(wf) -> Nat], NEW S, NEW j \in 1..Len(wf)
  PROVE  Sums([f EXCEPT ![j] = f[j] + 1], S, Len(wf))[Len(wf)]
           = Sums(f, S, Len(wf))[Len(wf)] + (IF j \in S THEN 1 ELSE 0)
<1>1. Len(wf) \in Nat /\ Len(wf) \in 0..Len(wf) /\ j <= Len(wf)
  BY WorkflowTyped
<1>. QED  BY <1>1, SumsBumped

LEMMA WrittenGrows ==
  ASSUME TypeOK, wf' = wf, NEW p, NEW j \in 1..Len(wf), ended' = [ended EXCEPT ![j] = @ + 1]
  PROVE  Written(p)' = Written(p) + (IF j \in Protected(p) THEN 1 ELSE 0)
<1>1. ended \in [1..Len(wf) -> Nat] /\ ended' = [ended EXCEPT ![j] = ended[j] + 1]
  BY DEF TypeOK
<1>2. Protected(p)' = Protected(p)
  BY DEF Protected
<1>3. Written(p)' = Sums([ended EXCEPT ![j] = ended[j] + 1], Protected(p), Len(wf))[Len(wf)]
  BY <1>1, <1>2 DEF Written
<1>. QED  BY <1>1, <1>3, OneMore DEF Written

LEMMA DeletedGrows ==
  ASSUME TypeOK, wf' = wf, NEW p, NEW j \in 1..Len(wf), started' = [started EXCEPT ![j] = @ + 1]
  PROVE  Deleted(p)' = Deleted(p) + (IF j \in Deleting(p) THEN 1 ELSE 0)
<1>1. started \in [1..Len(wf) -> Nat] /\ started' = [started EXCEPT ![j] = started[j] + 1]
  BY DEF TypeOK
<1>2. Deleting(p)' = Deleting(p)
  BY DEF Deleting
<1>3. Deleted(p)' = Sums([started EXCEPT ![j] = started[j] + 1], Deleting(p), Len(wf))[Len(wf)]
  BY <1>1, <1>2 DEF Deleted
<1>. QED  BY <1>1, <1>3, OneMore DEF Deleted

LEMMA SumsStay ==
  ASSUME wf' = wf, NEW p
  PROVE  /\ ended' = ended => Written(p)' = Written(p)
         /\ started' = started => Deleted(p)' = Deleted(p)
         /\ Deleting(p)' = Deleting(p)
<1>1. Protected(p)' = Protected(p) /\ Deleting(p)' = Deleting(p)
  BY DEF Protected, Deleting
<1>. QED  BY <1>1 DEF Written, Deleted

(***************************************************************************)
(* The inductive invariant.  Every protected write that ended well is paid *)
(* for: by the start of a step that deletes, or by the file being there.   *)
(* The start that is under way has not paid for a write yet.               *)
(***************************************************************************)
UnderWay(p) == IF pc = "act" /\ i \in Deleting(p) THEN 1 ELSE 0
OnDisk(p)   == IF p \in disk THEN 1 ELSE 0
PaidFor     == \A p \in Files : Written(p) + UnderWay(p) <= Deleted(p) + OnDisk(p)

LEMMA InitPaid == Init => PaidFor
<1>. SUFFICES ASSUME Init, NEW p \in Files
              PROVE  Written(p) + UnderWay(p) <= Deleted(p) + OnDisk(p)
  BY DEF PaidFor
<1>1. Len(wf) \in Nat /\ (\A n \in 1..Len(wf) : started[n] = 0) /\ (\A n \in 1..Len(wf) : ended[n] = 0)
  BY InitType, WorkflowTyped DEF Init
<1>2. Written(p) = 0 /\ Deleted(p) = 0
  BY <1>1, SumsOfNone DEF Written, Deleted
<1>3. UnderWay(p) = 0 /\ OnDisk(p) = 0
  BY DEF UnderWay, OnDisk, Init
<1>. QED  BY <1>2, <1>3

\* What a step that acts does to one file.
LEMMA ActOnDisk ==
  ASSUME TypeOK, NEW p \in Files, NEW j \in 1..Len(wf), CanWrite(wf[j], disk),
         disk' = AfterStep(wf[j], disk)
  PROVE  /\ j \in Protected(p) => p \notin disk /\ p \in disk'
         /\ j \in Deleting(p) => p \notin disk' /\ j \notin Protected(p)
         /\ j \notin Deleting(p) /\ p \in disk => p \in disk'
<1>1. wf[j].kind \in WriteKinds \cup RunDirKinds => wf[j].kind # "file_delete"
  BY DEF WriteKinds, RunDirKinds
<1>2. Writes(wf[j]) => wf[j].kind \in WriteKinds \cup RunDirKinds
  BY DEF Writes
<1>. QED  BY <1>1, <1>2 DEF CanWrite, AfterStep, Writes, Protected, Deleting

LEMMA StepPaid == TypeOK /\ Place /\ PaidFor /\ [Next]_vars => PaidFor'
<1>. SUFFICES ASSUME TypeOK, Place, PaidFor, [Next]_vars, NEW p \in Files
              PROVE  (Written(p) + UnderWay(p) <= Deleted(p) + OnDisk(p))'
  BY DEF PaidFor
<1>p. Written(p) + UnderWay(p) <= Deleted(p) + OnDisk(p)
  BY DEF PaidFor
<1>n. Written(p) \in Nat /\ Deleted(p) \in Nat
  BY SumsTyped
<1>u. UnderWay(p) \in 0..1 /\ OnDisk(p) \in 0..1
  BY DEF UnderWay, OnDisk
<1>w. pc = "act" => i \in 1..Len(wf)
  BY WorkflowTyped DEF Place, TypeOK
<1>v. wf' = wf
  BY DEF Next, RunNext, StepsNext, Begin, AskToCancel, CommitCancel, CancelBeforeStart,
         CommitFailed, DecideRetry, Call, Launch, LaunchFails, StopBeforeStep,
         SkipStep, NoAttempts, StartStep, StepEnds, StepIsRetried, StepGivesUp, StepsEnd, Register,
         Requeue, Return, Goto, vars
<1>1. CASE UNCHANGED <<started, ended, disk>> /\ (pc' # "act" \/ UNCHANGED <<pc, i>>)
  <2>1. Written(p)' = Written(p) /\ Deleted(p)' = Deleted(p) /\ Deleting(p)' = Deleting(p)
    BY <1>1, <1>v, SumsStay
  <2>2. OnDisk(p)' = OnDisk(p)
    BY <1>1 DEF OnDisk
  <2>3. UnderWay(p)' = 0 \/ UnderWay(p)' = UnderWay(p)
    BY <1>1, <2>1 DEF UnderWay
  <2>. QED  BY <1>p, <1>n, <1>u, <2>1, <2>2, <2>3
<1>2. CASE \/ UNCHANGED vars \/ Begin \/ AskToCancel \/ CommitCancel \/ CancelBeforeStart \/ Call
           \/ Launch \/ LaunchFails \/ StopBeforeStep \/ SkipStep \/ NoAttempts \/ StepsEnd
           \/ Register \/ CommitFailed \/ DecideRetry \/ Requeue \/ Return
  <2>1. UNCHANGED <<started, ended, disk>>
    BY <1>2 DEF Begin, AskToCancel, CommitCancel, CancelBeforeStart, Call, Launch, LaunchFails,
                StopBeforeStep, SkipStep, NoAttempts, StepsEnd, Register, CommitFailed, DecideRetry,
                Requeue, Return, vars, world, history
  <2>2. pc' # "act" \/ UNCHANGED <<pc, i>>
    BY <1>2 DEF Begin, AskToCancel, CommitCancel, CancelBeforeStart, Call, Launch, LaunchFails,
                StopBeforeStep, SkipStep, NoAttempts, StepsEnd, Register, CommitFailed, DecideRetry,
                Requeue, Return, Goto, vars
  <2>. QED  BY <1>1, <2>1, <2>2
<1>3. CASE StartStep
  <2>1. /\ pc = "next" /\ pc' = "act" /\ i \in 1..Len(wf) /\ UNCHANGED <<i, ended, disk>>
        /\ started' = [started EXCEPT ![i] = @ + 1]
    BY <1>3, WorkflowTyped DEF StartStep, Goto, TypeOK, world
  <2>2. Written(p)' = Written(p) /\ Deleting(p)' = Deleting(p)
    BY <1>v, <2>1, SumsStay
  <2>3. Deleted(p)' = Deleted(p) + (IF i \in Deleting(p) THEN 1 ELSE 0)
    BY <1>v, <2>1, DeletedGrows
  <2>4. UnderWay(p)' = (IF i \in Deleting(p) THEN 1 ELSE 0) /\ UnderWay(p) = 0
    BY <2>1, <2>2 DEF UnderWay
  <2>5. OnDisk(p)' = OnDisk(p)
    BY <2>1 DEF OnDisk
  <2>. QED  BY <1>p, <1>n, <1>u, <2>2, <2>3, <2>4, <2>5
<1>4. CASE StepEnds
  <2>1. /\ pc = "act" /\ pc' = "next" /\ i \in 1..Len(wf) /\ started' = started
        /\ ended' = [ended EXCEPT ![i] = @ + 1]
        /\ CanWrite(wf[i], disk) /\ disk' = AfterStep(wf[i], disk)
    BY <1>4, <1>w DEF StepEnds, Goto
  <2>2. Deleted(p)' = Deleted(p)
    BY <1>v, <2>1, SumsStay
  <2>3. Written(p)' = Written(p) + (IF i \in Protected(p) THEN 1 ELSE 0)
    BY <1>v, <2>1, WrittenGrows
  <2>4. UnderWay(p)' = 0 /\ UnderWay(p) = (IF i \in Deleting(p) THEN 1 ELSE 0)
    BY <2>1 DEF UnderWay
  <2>5. /\ i \in Protected(p) => OnDisk(p) = 0 /\ OnDisk(p)' = 1
        /\ i \in Deleting(p) => OnDisk(p)' = 0 /\ i \notin Protected(p)
        /\ i \notin Deleting(p) => OnDisk(p) <= OnDisk(p)'
    BY <2>1, ActOnDisk DEF OnDisk
  <2>6. OnDisk(p)' \in 0..1
    BY DEF OnDisk
  <2>. QED  BY <1>p, <1>n, <1>u, <2>2, <2>3, <2>4, <2>5, <2>6
<1>l. ASSUME pc = "act", LeavesBehind
      PROVE  /\ i \notin Deleting(p) => OnDisk(p) <= OnDisk(p)'
             /\ OnDisk(p)' \in 0..1
  <2>1. OnDisk(p)' \in 0..1
    BY DEF OnDisk
  <2>2. CASE UNCHANGED disk
    BY <1>u, <2>1, <2>2 DEF OnDisk
  <2>3. CASE CanWrite(wf[i], disk) /\ disk' = AfterStep(wf[i], disk)
    BY <1>w, <1>l, <2>1, <2>3, ActOnDisk DEF OnDisk
  <2>. QED  BY <1>l, <2>1, <2>2, <2>3 DEF LeavesBehind
<1>5. CASE StepIsRetried
  <2>1. /\ pc = "act" /\ pc' = "act" /\ i \in 1..Len(wf) /\ UNCHANGED <<i, ended>>
        /\ started' = [started EXCEPT ![i] = @ + 1] /\ LeavesBehind
    BY <1>5, <1>w DEF StepIsRetried, Goto
  <2>2. Written(p)' = Written(p) /\ Deleting(p)' = Deleting(p)
    BY <1>v, <2>1, SumsStay
  <2>3. Deleted(p)' = Deleted(p) + (IF i \in Deleting(p) THEN 1 ELSE 0)
    BY <1>v, <2>1, DeletedGrows
  <2>4. UnderWay(p)' = (IF i \in Deleting(p) THEN 1 ELSE 0) /\ UnderWay(p) = UnderWay(p)'
    BY <2>1, <2>2 DEF UnderWay
  <2>. QED  BY <1>p, <1>n, <1>u, <1>l, <2>1, <2>2, <2>3, <2>4
<1>6. CASE StepGivesUp
  <2>1. /\ pc = "act" /\ pc' = "failing" /\ i \in 1..Len(wf) /\ UNCHANGED <<started, ended>>
        /\ LeavesBehind
    BY <1>6, <1>w DEF StepGivesUp, Goto, history
  <2>2. Written(p)' = Written(p) /\ Deleted(p)' = Deleted(p)
    BY <1>v, <2>1, SumsStay
  <2>3. UnderWay(p)' = 0 /\ UnderWay(p) = (IF i \in Deleting(p) THEN 1 ELSE 0)
    BY <2>1 DEF UnderWay
  <2>. QED  BY <1>p, <1>n, <1>u, <1>l, <2>1, <2>2, <2>3
<1>. QED  BY <1>2, <1>3, <1>4, <1>5, <1>6 DEF Next, RunNext, StepsNext

\* _ensure_can_write: a step without overwrite never replaces a file, in any
\* attempt of the step or of the run, whichever path leads to it.  Between two
\* such writes to a file, a step that deletes it has been started.
THEOREM ProtectedWrites == Spec => []ProtectedOnce
<1>1. TypeOK /\ PaidFor => ProtectedOnce
  <2>. SUFFICES ASSUME TypeOK, PaidFor, NEW p \in Files
                PROVE  Total(ended, Protected(p)) <= 1 + Total(started, Deleting(p))
    BY DEF ProtectedOnce
  <2>1. Total(ended, Protected(p)) = Written(p) /\ Total(started, Deleting(p)) = Deleted(p)
    BY TotalIs DEF Written, Deleted
  <2>2. Written(p) + UnderWay(p) <= Deleted(p) + OnDisk(p)
    BY DEF PaidFor
  <2>3. UnderWay(p) \in 0..1 /\ OnDisk(p) \in 0..1
    BY DEF UnderWay, OnDisk
  <2>. QED  BY <2>1, <2>2, <2>3, SumsTyped
<1>2. Spec => [](TypeOK /\ Place /\ NoBrowserLeft /\ HasPage /\ PaidFor)
  BY InitType, InitPaid, StepType, StepPaid, PTL DEF Spec
<1>. QED  BY <1>1, <1>2, PTL

(***************************************************************************)
(* The forms of the steps.                                                 *)
(***************************************************************************)
\* Validation asks for every field that the executor needs, type by type.
LEMMA NeededIsAsked ==
  ASSUME NEW f \in Fields
  PROVE  NeededBy[f] \subseteq AskedBy[f]
<1>1. CASE f \in {"url", "target", "value", "secret", "key", "keys"}
  BY <1>1 DEF TargetSteps, AskedBy, NeededBy
<1>2. CASE f \in {"filename", "name", "variable", "query", "host", "to", "subject", "command", "xy"}
  BY <1>2 DEF AskedBy, NeededBy
<1>3. CASE f \in {"path", "source", "destination"}
  BY <1>3 DEF PathSteps, SourceDestinationSteps, FileSteps, AskedBy, NeededBy
<1>. QED  BY <1>1, <1>2, <1>3 DEF Fields

\* A step that validation accepts does not fail for its form when it is
\* executed, for any limit and any steps.
LEMMA ReadersAgree == FormsAgree
<1>. SUFFICES ASSUME NEW s \in Forms, Accepts(s), ~s.disabled, Located(s), Tabular(s)
              PROVE  ~RaisesForForm(s)
  BY DEF FormsAgree
<1>1. \A f \in Fields : s.type \in NeededBy[f] => f \in s.given
  <2>. TAKE f \in Fields
  <2>. HAVE s.type \in NeededBy[f]
  <2>1. s.type \in AskedBy[f]
    BY NeededIsAsked
  <2>. QED  BY <2>1 DEF Accepts
<1>2. ~(s.timeout <= 0) /\ ~(s.timeout > MaxTimeout)
  BY FormsAssumption DEF Accepts, Form
<1>3. ~(s.type \in RequirePage /\ s.type \notin WebSteps)
  BY DEF RequirePage, WebSteps
<1>. QED  BY <1>1, <1>2, <1>3 DEF RaisesForForm

\* So no run fails for the form of a step that was accepted, in any behaviour.
THEOREM AcceptedRuns == Spec => []AcceptedIsExecutable
<1>1. AcceptedIsExecutable
  BY ReadersAgree DEF AcceptedIsExecutable
<1>. QED  BY <1>1, PTL

\* A part of a workflow, of steps taken from U, in which validation finds no
\* fault.
Sound(U, w) == w \in Seq(U) /\ \A j \in 1..Len(w) : Accepts(w[j])

LEMMA SoundJoined ==
  ASSUME NEW U, NEW v, NEW w, Sound(U, v), Sound(U, w)
  PROVE  Sound(U, v \o w)
<1>1. v \o w \in Seq(U) /\ Len(v \o w) = Len(v) + Len(w)
  BY DEF Sound
<1>2. ASSUME NEW j \in 1..Len(v \o w)
      PROVE  Accepts((v \o w)[j])
  <2>1. CASE j <= Len(v)
    <3>1. j \in 1..Len(v) /\ (v \o w)[j] = v[j]
      BY <2>1, <1>1 DEF Sound
    <3>. QED  BY <3>1 DEF Sound
  <2>2. CASE j > Len(v)
    <3>1. j - Len(v) \in 1..Len(w) /\ (v \o w)[j] = w[j - Len(v)]
      BY <2>2, <1>1 DEF Sound
    <3>. QED  BY <3>1 DEF Sound
  <2>. QED  BY <2>1, <2>2, <1>1 DEF Sound
<1>. QED  BY <1>1, <1>2 DEF Sound

LEMMA SoundNothing == ASSUME NEW U PROVE Sound(U, <<>>)
BY DEF Sound

LEMMA SoundOne ==
  ASSUME NEW U, NEW s \in U, Accepts(s)
  PROVE  Sound(U, <<s>>)
BY DEF Sound

LEMMA SoundWhen ==
  ASSUME NEW U, NEW c, NEW s \in U, c => Accepts(s)
  PROVE  Sound(U, When(c, s))
<1>1. CASE c
  <2>1. When(c, s) = <<s>>
    BY <1>1 DEF When
  <2>. QED  BY <1>1, <2>1, SoundOne
<1>2. CASE ~c
  <2>1. When(c, s) = <<>>
    BY <1>2 DEF When
  <2>. QED  BY <2>1, SoundNothing
<1>. QED  BY <1>1, <1>2

\* What the guided form fills in is what validation asks for.
LEMMA BlanksAsked ==
  ASSUME NEW f \in Fields
  PROVE  /\ "goto" \in AskedBy[f] => f = "url"
         /\ "fill" \in AskedBy[f] => f \in {"target", "value"}
         /\ "secret_fill" \in AskedBy[f] => f \in {"target", "secret"}
         /\ "click" \in AskedBy[f] => f = "target"
         /\ "download" \in AskedBy[f] => f \in {"target", "filename"}
         /\ "screenshot" \in AskedBy[f] => f = "name"
<1>1. CASE f \in {"url", "target", "value", "secret", "key", "keys"}
  BY <1>1 DEF AskedBy, TargetSteps
<1>2. CASE f \in {"filename", "name", "variable", "query", "host", "to", "subject", "command", "xy"}
  BY <1>2 DEF AskedBy
<1>3. CASE f \in {"path", "source", "destination"}
  BY <1>3 DEF AskedBy, PathSteps, SourceDestinationSteps
<1>. QED  BY <1>1, <1>2, <1>3 DEF Fields

\* What makes a step of the guided form acceptable, by its fields.
LEMMA WrittenAccepted ==
  ASSUME MaxTimeout >= 30000, NEW s, s.timeout = 30000, s.retry = 0,
         \A f \in Fields : s.type \in AskedBy[f] => f \in s.given,
         ~(s.type \in {"goto", "api_request"} /\ s.typo), ~Typed(s)
  PROVE  Accepts(s)
<1>1. 0 < s.timeout /\ s.timeout <= MaxTimeout /\ s.retry <= 5
  BY FormsAssumption
<1>. QED  BY <1>1 DEF Accepts

LEMMA BlankFields ==
  ASSUME NEW t, NEW g
  PROVE  LET s == Blank(t, g)
         IN /\ s.type = t /\ s.given = g /\ s.value = "template"
            /\ s.timeout = 30000 /\ s.retry = 0 /\ ~s.typo /\ ~s.disabled
BY DEF Blank

\* A step that takes its fields as they are is accepted.
LEMMA BlankAccepted ==
  ASSUME MaxTimeout >= 30000, NEW t, NEW g, \A f \in Fields : t \in AskedBy[f] => f \in g
  PROVE  Accepts(Blank(t, g))
<1>1. ~Typed(Blank(t, g))
  BY BlankFields DEF Typed
<1>. QED  BY <1>1, BlankFields, WrittenAccepted

LEMMA ClickAccepted ==
  ASSUME MaxTimeout >= 30000
  PROVE  Accepts(Blank("click", {"target"}))
<1>1. \A f \in Fields : "click" \in AskedBy[f] => f \in {"target"}
  BY BlanksAsked
<1>. QED  BY <1>1, BlankAccepted

LEMMA ScreenshotAccepted ==
  ASSUME MaxTimeout >= 30000
  PROVE  Accepts(Blank("screenshot", {"name"}))
<1>1. \A f \in Fields : "screenshot" \in AskedBy[f] => f \in {"name"}
  BY BlanksAsked
<1>. QED  BY <1>1, BlankAccepted

LEMMA DownloadAccepted ==
  ASSUME MaxTimeout >= 30000, NEW p
  PROVE  Accepts(DownloadStep(p))
<1>1. \A f \in Fields : "download" \in AskedBy[f] => f \in {"target", "filename"}
  BY BlanksAsked
<1>. QED  BY <1>1, BlankAccepted DEF DownloadStep

GotoStep(y) == [Blank("goto", {"url"}) EXCEPT !.typo = y]

LEMMA GotoAccepted ==
  ASSUME MaxTimeout >= 30000, NEW y \in BOOLEAN, ~y
  PROVE  Accepts(GotoStep(y)) /\ ~GotoStep(y).disabled
<1>. DEFINE s == GotoStep(y)
<1>1. s.type = "goto" /\ s.given = {"url"} /\ s.timeout = 30000 /\ s.retry = 0
  BY DEF GotoStep, Blank
<1>2. (s.typo <=> y) /\ ~s.disabled
  BY DEF GotoStep, Blank
<1>3. \A f \in Fields : "goto" \in AskedBy[f] => f \in {"url"}
  BY BlanksAsked
<1>. HIDE DEF s
<1>4. ~Typed(s)
  BY <1>1 DEF Typed
<1>5. Accepts(s)
  BY <1>1, <1>2, <1>3, <1>4, WrittenAccepted
<1>. QED  BY <1>2, <1>5 DEF s

SecretStep(y) == [Blank("secret_fill", {"target", "secret"}) EXCEPT !.sensitive = y]

LEMMA SecretAccepted ==
  ASSUME MaxTimeout >= 30000, NEW y
  PROVE  Accepts(SecretStep(y))
<1>. DEFINE s == SecretStep(y)
<1>1. s.type = "secret_fill" /\ s.given = {"target", "secret"} /\ s.timeout = 30000 /\ s.retry = 0
  BY DEF SecretStep, Blank
<1>2. \A f \in Fields : "secret_fill" \in AskedBy[f] => f \in {"target", "secret"}
  BY BlanksAsked
<1>. HIDE DEF s
<1>3. ~Typed(s)
  BY <1>1 DEF Typed
<1>4. Accepts(s)
  BY <1>1, <1>2, <1>3, WrittenAccepted
<1>. QED  BY <1>4 DEF s

\* Only a literal typed into a field that looks like a password is refused.
LEMMA FillAccepted ==
  ASSUME MaxTimeout >= 30000, NEW p, NEW l, NEW v,
         v \in p.given => l \notin p.sensitive \/ v \notin p.literal
  PROVE  Accepts(FillStep(p, l, v))
<1>. DEFINE s == FillStep(p, l, v)
            b == l \in p.sensitive
<1>1. s.type = "fill" /\ s.given = {"target", "value"} /\ s.timeout = 30000 /\ s.retry = 0
  BY DEF FillStep, Blank
<1>2. s.sensitive = b
  BY DEF FillStep, Blank
<1>3. s.value = IF v \in p.given \cap p.literal THEN "text" ELSE "template"
  BY DEF FillStep, Blank
<1>4. b = FALSE \/ s.value = "template"
  BY <1>3
<1>5. \A f \in Fields : "fill" \in AskedBy[f] => f \in {"target", "value"}
  BY BlanksAsked
<1>. HIDE DEF s, b
<1>6. ~Typed(s)
  BY <1>2, <1>4 DEF Typed
<1>7. Accepts(s)
  BY <1>1, <1>5, <1>6, WrittenAccepted
<1>. QED  BY <1>7 DEF s

\* All steps the guided form could make of a payload.
StepsOf(p) ==
  {GotoStep(p.typo), Blank("click", {"target"}), DownloadStep(p), Blank("screenshot", {"name"}),
   FillStep(p, "username_label", "username_value"), SecretStep("password_label" \in p.sensitive),
   FillStep(p, "start_date_label", "start_date_value"),
   FillStep(p, "end_date_label", "end_date_value")}

\* Whatever is left blank in the guided form, its workflow can be published,
\* for any payloads and any limit of at least 30 seconds, unless the address
\* is misspelt or a literal is typed into a field that looks like a password.
LEMMA GuidedValid == GuidedIsValid
<1>. SUFFICES ASSUME NEW p \in Payloads, MaxTimeout >= 30000, ~p.typo,
                     \A q \in TypedPairs(p) :
                       {q[1], q[2]} \subseteq p.given => q[1] \notin p.sensitive
                                                           \/ q[2] \notin p.literal
              PROVE  Valid(Guided(p))
  BY DEF GuidedIsValid
<1>0. p.typo \in BOOLEAN
  BY FormsAssumption DEF Payload
<1>. DEFINE U       == StepsOf(p)
            exports == p.template \in {"download_excel", "dated_report"}
            click   == Blank("click", {"target"})
            start   == GotoStep(p.typo)
            login   == IF p.template # "open_site" THEN LoginSteps(p) ELSE <<>>
            menu    == When(exports /\ "menu_text" \in p.given, click)
            dates   == IF p.template = "dated_report" THEN DateSteps(p) ELSE <<>>
            file    == IF exports /\ "export_button_text" \in p.given THEN <<DownloadStep(p)>>
                       ELSE <<Blank("screenshot", {"name"})>>
<1>c. click \in U /\ Accepts(click)
  BY ClickAccepted DEF StepsOf
<1>1. Sound(U, <<start>>) /\ ~start.disabled
  <2>1. start \in U /\ Accepts(start) /\ ~start.disabled
    BY <1>0, GotoAccepted DEF StepsOf
  <2>. QED  BY <2>1, SoundOne
<1>2. Sound(U, login)
  <2>1. ASSUME p.template # "open_site" PROVE Sound(U, LoginSteps(p))
    <3>. DEFINE user     == FillStep(p, "username_label", "username_value")
                password == SecretStep("password_label" \in p.sensitive)
                named    == {"username_label", "username_value"} \subseteq p.given
                known    == {"password_label", "password_secret"} \subseteq p.given
                pressed  == "login_button_text" \in p.given
    <3>1. user \in U /\ password \in U
      BY DEF StepsOf
    <3>2. named => Accepts(user)
      <4>1. <<"username_label", "username_value", "login">> \in TypedPairs(p)
        BY <2>1 DEF TypedPairs
      <4>. QED  BY <4>1, FillAccepted
    <3>3. Accepts(password)
      BY SecretAccepted
    <3>4. LoginSteps(p) = When(named, user) \o When(known, password) \o When(pressed, click)
      BY DEF LoginSteps, SecretStep
    <3>. HIDE DEF user, password, named, known, pressed, click, U
    <3>5. Sound(U, When(named, user)) /\ Sound(U, When(known, password))
            /\ Sound(U, When(pressed, click))
      BY <3>1, <3>2, <3>3, <1>c, SoundWhen
    <3>6. Sound(U, When(named, user) \o When(known, password))
      BY <3>5, SoundJoined
    <3>. QED  BY <3>4, <3>5, <3>6, SoundJoined
  <2>. QED  BY <2>1, SoundNothing
<1>3. Sound(U, menu)
  <2>. HIDE DEF click, U
  <2>. QED  BY <1>c, SoundWhen
<1>4. Sound(U, dates)
  <2>1. ASSUME p.template = "dated_report" PROVE Sound(U, DateSteps(p))
    <3>. DEFINE first   == FillStep(p, "start_date_label", "start_date_value")
                last    == FillStep(p, "end_date_label", "end_date_value")
                from    == "start_date_label" \in p.given
                to      == "end_date_label" \in p.given
                pressed == "search_button_text" \in p.given
    <3>1. first \in U /\ last \in U
      BY DEF StepsOf
    <3>2. from => Accepts(first)
      <4>1. <<"start_date_label", "start_date_value", "dates">> \in TypedPairs(p)
        BY <2>1 DEF TypedPairs
      <4>. QED  BY <4>1, FillAccepted
    <3>3. to => Accepts(last)
      <4>1. <<"end_date_label", "end_date_value", "dates">> \in TypedPairs(p)
        BY <2>1 DEF TypedPairs
      <4>. QED  BY <4>1, FillAccepted
    <3>4. DateSteps(p) = When(from, first) \o When(to, last) \o When(pressed, click)
      BY DEF DateSteps
    <3>. HIDE DEF first, last, from, to, pressed, click, U
    <3>5. Sound(U, When(from, first)) /\ Sound(U, When(to, last))
            /\ Sound(U, When(pressed, click))
      BY <3>1, <3>2, <3>3, <1>c, SoundWhen
    <3>6. Sound(U, When(from, first) \o When(to, last))
      BY <3>5, SoundJoined
    <3>. QED  BY <3>4, <3>5, <3>6, SoundJoined
  <2>. QED  BY <2>1, SoundNothing
<1>5. Sound(U, file)
  <2>1. DownloadStep(p) \in U /\ Accepts(DownloadStep(p))
    BY DownloadAccepted DEF StepsOf
  <2>2. Blank("screenshot", {"name"}) \in U /\ Accepts(Blank("screenshot", {"name"}))
    BY ScreenshotAccepted DEF StepsOf
  <2>3. Sound(U, <<DownloadStep(p)>>) /\ Sound(U, <<Blank("screenshot", {"name"})>>)
    BY <2>1, <2>2, SoundOne
  <2>. QED  BY <2>3
<1>6. Guided(p) = <<start>> \o login \o menu \o dates \o file
  BY DEF Guided, GotoStep
<1>. HIDE DEF U, start, login, menu, dates, file
<1>7. Sound(U, Guided(p))
  <2>1. Sound(U, <<start>> \o login)
    BY <1>1, <1>2, SoundJoined
  <2>2. Sound(U, <<start>> \o login \o menu)
    BY <2>1, <1>3, SoundJoined
  <2>3. Sound(U, <<start>> \o login \o menu \o dates)
    BY <2>2, <1>4, SoundJoined
  <2>. QED  BY <2>3, <1>5, <1>6, SoundJoined
<1>8. Len(Guided(p)) >= 1 /\ Guided(p)[1] = start
  <2>1. /\ login \in Seq(U) /\ menu \in Seq(U) /\ dates \in Seq(U) /\ file \in Seq(U)
        /\ <<start>> \in Seq(U)
    BY <1>1, <1>2, <1>3, <1>4, <1>5 DEF Sound
  <2>2. <<start>> \o login \in Seq(U) /\ Len(<<start>> \o login) >= 1
          /\ (<<start>> \o login)[1] = start
    BY <2>1
  <2>3. /\ <<start>> \o login \o menu \in Seq(U) /\ Len(<<start>> \o login \o menu) >= 1
        /\ (<<start>> \o login \o menu)[1] = start
    BY <2>1, <2>2
  <2>4. /\ <<start>> \o login \o menu \o dates \in Seq(U)
        /\ Len(<<start>> \o login \o menu \o dates) >= 1
        /\ (<<start>> \o login \o menu \o dates)[1] = start
    BY <2>1, <2>3
  <2>. QED  BY <2>1, <2>4, <1>6
<1>9. 1 \in 1..Len(Guided(p)) /\ ~Guided(p)[1].disabled
  BY <1>1, <1>7, <1>8 DEF Sound
<1>. QED  BY <1>7, <1>9 DEF Valid, Sound

\* So every robot of the guided form can be published and queued.
THEOREM GuidedRuns == Spec => []GuidedIsAccepted
<1>1. GuidedIsAccepted
  BY GuidedValid DEF GuidedIsAccepted
<1>. QED  BY <1>1, PTL
==============================================================================
