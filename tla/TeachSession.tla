---------------------------- MODULE TeachSession ----------------------------
(***************************************************************************)
(* One recording of RecorderManager: the thread that drives the browser,   *)
(* the events of the page that reach it, and the requests that stop it and *)
(* make a new version of the robot from what was recorded.                 *)
(* The browser and Playwright's delivery of events are external.           *)
(***************************************************************************)
EXTENDS Integers, Sequences, FiniteSets, SequencesExt

CONSTANTS
  Clients,   \* requests to stop the recording
  Frames,    \* frames of the page, each with a document of its own
  Events,    \* what the page can tell of an action of the user
  MaxEvents  \* bound on the actions

\* raw: the event without its meta; label: the label of an input, or NotInput.
\* An event names its element by selectorFor, so that two fields with the same
\* label, or two buttons with the same text, give the same event.
NotInput == "none"
Unnamed  == ""     \* a label without letters or digits
Event == [raw : STRING, label : STRING]
NoEvent == [raw |-> "nothing", label |-> NotInput]
Action == [frame : Frames, event : Events]

ASSUME TeachAssumption ==
  /\ Events \subseteq Event /\ MaxEvents \in Nat
  /\ \A e \in Events : e.raw # "nothing" \* previous of the first event

VARIABLES
  thread,  \* "launch", "loop", "closing", "ended"
  status,  \* status of the RecordingSession
  stopped, \* stop_event
  shown,   \* the page is open
  listed,  \* the session is in _sessions
  acted,   \* history: what the user did, and in which frame
  last,    \* frame -> __rpaLastEvent of its document
  sent,    \* what the page has reported (rpaRecord)
  got,     \* RecordingSession.events
  pc,      \* client -> where its stop request is
  timedOut,\* client -> its join gave up
  draft,   \* client -> the workflow it has made and its version number
  saved    \* versions of the robot made from the recording

vars == <<thread, status, stopped, shown, listed, acted, last, sent, got, pc, timedOut,
          draft, saved>>
page    == <<shown, acted, last, sent, got>>
request == <<pc, timedOut, draft, saved>>

(***************************************************************************)
(* parameterize_events.                                                    *)
(***************************************************************************)
\* _input_name, letters aside.
InputName(label, n) == IF label = Unnamed THEN <<"campo", n>> ELSE <<label>>

\* Mutant: the name is taken as it is.
NameAsIs(name, n, used) == [name |-> name, counter |-> n]

\* The loop that appends counters until the name is new.
FreshName(name, n, used) ==
  LET try(m) == name \o [j \in 1..m |-> n + j]
      m == CHOOSE m \in 0..Cardinality(used) :
             try(m) \notin used /\ \A l \in 0..m - 1 : try(l) \in used
  IN [name |-> try(m), counter |-> n + m]

Nothing == [steps |-> <<>>, inputs |-> {}, counter |-> 0, previous |-> "nothing"]

\* Mutant: compared with the previous event, meta and all.
RepeatsExactly(acc, e) == acc.previous = e.raw /\ e.label = NotInput

\* Equal to the raw form of the previous event.
Repeats(acc, e) == acc.previous = e.raw

AddEvent(acc, e) ==
  IF Repeats(acc, e) THEN acc
  ELSE IF e.label = NotInput
    THEN [acc EXCEPT !.steps = Append(@, [raw |-> e.raw, var |-> <<>>]),
                     !.previous = e.raw]
    ELSE LET f == FreshName(InputName(e.label, acc.counter + 1), acc.counter + 1, acc.inputs)
         IN [steps    |-> Append(acc.steps, [raw |-> e.raw, var |-> f.name]),
             inputs   |-> acc.inputs \cup {f.name},
             counter  |-> f.counter,
             previous |-> e.raw]

\* RecordingSession.workflow: the page's address (always the first step, left
\* out here), then the steps, and the inputs they use.
Workflow(events) ==
  LET after[n \in 0..Len(events)] ==
        IF n = 0 THEN Nothing ELSE AddEvent(after[n - 1], events[n])
  IN after[Len(events)]

NoDraft == [num |-> 0, workflow |-> Nothing]

(***************************************************************************)
(* The recording thread.                                                   *)
(***************************************************************************)
Init == \* the session is started
  /\ thread = "launch" /\ status = "starting" /\ stopped = FALSE /\ listed = TRUE
  /\ shown = FALSE /\ acted = <<>> /\ last = [f \in Frames |-> NoEvent]
  /\ sent = <<>> /\ got = <<>>
  /\ pc = [c \in Clients |-> "idle"] /\ timedOut = [c \in Clients |-> FALSE]
  /\ draft = [c \in Clients |-> NoDraft] /\ saved = <<>>

PageShown ==
  /\ thread = "launch" /\ ~shown
  /\ shown' = TRUE
  /\ UNCHANGED <<thread, status, stopped, listed, acted, last, sent, got, request>>

\* No browser, no display, or page.goto raises.
LaunchFails ==
  /\ thread = "launch"
  /\ thread' = "ended" /\ status' = "failed" /\ shown' = FALSE
  /\ UNCHANGED <<stopped, listed, acted, last, sent, got, request>>

Opened ==
  /\ thread = "launch" /\ shown
  /\ thread' = "loop" /\ status' = "recording"
  /\ UNCHANGED <<stopped, listed, page, request>>

\* Mutant: only the user ends the recording.
SeesClosedPage ==
  /\ thread = "loop" /\ ~shown
  /\ thread' = "closing" /\ status' = "stopping"
  /\ UNCHANGED <<stopped, listed, page, request>>

\* The loop ends with the stop event or a page seen closed.
SeesStop ==
  /\ thread = "loop" /\ (stopped \/ ~shown)
  /\ thread' = "closing" /\ status' = "stopping"
  /\ UNCHANGED <<stopped, listed, page, request>>

CloseBrowser ==
  /\ thread = "closing"
  /\ thread' = "ended" /\ status' = "finished" /\ shown' = FALSE
  /\ UNCHANGED <<stopped, listed, acted, last, sent, got, request>>

(***************************************************************************)
(* The page.                                                               *)
(***************************************************************************)
\* pushEvent reports what is not the same as the event before in the document
\* of its frame, whatever was done in other frames in between.
UserActs ==
  /\ shown /\ Len(acted) < MaxEvents
  /\ \E f \in Frames, e \in Events :
       /\ acted' = Append(acted, [frame |-> f, event |-> e])
       /\ last' = [last EXCEPT ![f] = e]
       /\ sent' = IF last[f] = e THEN sent ELSE Append(sent, e)
  /\ UNCHANGED <<thread, status, stopped, shown, listed, got, request>>

\* The frame has another document, in which RECORDER_SCRIPT runs anew.
Navigate ==
  /\ shown
  /\ \E f \in Frames : last' = [last EXCEPT ![f] = NoEvent]
  /\ UNCHANGED <<thread, status, stopped, shown, listed, acted, sent, got, request>>

UserCloses ==
  /\ shown /\ shown' = FALSE
  /\ thread \in {"loop", "closing"}
  /\ UNCHANGED <<thread, status, stopped, listed, acted, last, sent, got, request>>

\* Playwright calls the lambda for the reports, in order, whenever its loop
\* runs; those that are still on their way when the browser is closed are lost.
Deliver ==
  /\ thread \in {"launch", "loop", "closing"} /\ Len(got) < Len(sent)
  /\ got' = Append(got, sent[Len(got) + 1])
  /\ UNCHANGED <<thread, status, stopped, shown, listed, acted, last, sent, request>>

(***************************************************************************)
(* stop_teach_session.                                                     *)
(***************************************************************************)
Goto(c, where) == pc' = [pc EXCEPT ![c] = where]

\* get, and stop_event.set().
Stop(c) ==
  /\ pc[c] = "idle" /\ listed
  /\ Goto(c, "join") /\ stopped' = TRUE
  /\ UNCHANGED <<thread, status, listed, page, timedOut, draft, saved>>

\* Mutant: join does not wait.
NoJoin(c) ==
  /\ pc[c] = "join"
  /\ Goto(c, "pop")
  /\ UNCHANGED <<thread, status, stopped, listed, page, timedOut, draft, saved>>

Join(c) ==
  /\ pc[c] = "join" /\ thread = "ended"
  /\ Goto(c, "pop")
  /\ UNCHANGED <<thread, status, stopped, listed, page, timedOut, draft, saved>>

\* After 20 seconds, with the browser still opening or closing.
JoinTimesOut(c) ==
  /\ pc[c] = "join" /\ thread # "ended"
  /\ Goto(c, "pop") /\ timedOut' = [timedOut EXCEPT ![c] = TRUE]
  /\ UNCHANGED <<thread, status, stopped, listed, page, draft, saved>>

\* The session is dropped, whatever becomes of the rest of the request.
Pop(c) ==
  /\ pc[c] = "pop"
  /\ listed' = FALSE /\ Goto(c, IF status = "failed" THEN "done" ELSE "number")
  /\ UNCHANGED <<thread, status, stopped, page, timedOut, draft, saved>>

\* The workflow is made of the events received so far; create_next_version then
\* reads the latest number (of the versions made here).  A robot deleted in the
\* meantime is a 404.
MakeDraft(c) ==
  /\ pc[c] = "number"
  /\ \/ /\ Goto(c, "insert")
        /\ draft' = [draft EXCEPT ![c] = [num |-> Len(saved) + 1, workflow |-> Workflow(got)]]
     \/ Goto(c, "done") /\ UNCHANGED draft
  /\ UNCHANGED <<thread, status, stopped, listed, page, timedOut, saved>>

\* The version is inserted, unless a concurrent request has taken its number.
InsertVersion(c) ==
  /\ pc[c] = "insert"
  /\ Goto(c, "done") /\ draft' = [draft EXCEPT ![c] = NoDraft]
  /\ saved' = IF draft[c].num <= Len(saved) THEN saved
              ELSE Append(saved, [workflow |-> draft[c].workflow, late |-> timedOut[c]])
  /\ UNCHANGED <<thread, status, stopped, listed, page, timedOut>>

Recorder == LaunchFails \/ Opened \/ SeesStop \/ CloseBrowser
StopRequest(c) == \/ Stop(c) \/ Join(c) \/ JoinTimesOut(c) \/ Pop(c)
                  \/ MakeDraft(c) \/ InsertVersion(c)

Next == \/ Recorder \/ PageShown \/ UserActs \/ Navigate \/ UserCloses \/ Deliver
        \/ \E c \in Clients : StopRequest(c)

Spec == Init /\ [][Next]_vars

\* The browser opens, closes or fails to within Playwright's time limits, and
\* the loop polls; users and requests need not do anything.
FairSpec == Spec /\ WF_vars(Recorder)

(***************************************************************************)
(* Properties.                                                             *)
(***************************************************************************)
\* Type invariant; the status shown to the user is that of the thread.
TypeOK ==
  /\ thread \in {"launch", "loop", "closing", "ended"}
  /\ (status = "starting" <=> thread = "launch") /\ (status = "recording" <=> thread = "loop")
  /\ (status = "stopping" <=> thread = "closing")
  /\ (status \in {"finished", "failed"} <=> thread = "ended")
  /\ {stopped, shown, listed} \subseteq BOOLEAN
  /\ acted \in Seq(Action) /\ last \in [Frames -> Events \cup {NoEvent}]
  /\ sent \in Seq(Events) /\ got \in Seq(Events)
  /\ pc \in [Clients -> {"idle", "join", "pop", "number", "insert", "done"}]
  /\ timedOut \in [Clients -> BOOLEAN]
  /\ \A c \in Clients : draft[c].num \in Nat /\ (draft[c] # NoDraft <=> pc[c] = "insert")
  /\ \A n \in 1..Len(saved) : saved[n].late \in BOOLEAN

Raws(w) == [n \in 1..Len(w.steps) |-> w.steps[n].raw]

\* The action gives the event that the action before it in its frame gave.
SaidBefore(n) ==
  \E l \in 1..n - 1 : /\ acted[l] = acted[n]
                      /\ \A j \in l + 1..n - 1 : acted[j].frame # acted[n].frame

\* at[i] is the action that step i repeats: the steps repeat, in order, the
\* first m actions, but for those that say what the one before them in their
\* frame or the last step before them says.
Repeat(steps, at, m) ==
  LET k == Len(steps)
  IN /\ \A i \in 1..k : /\ steps[i] = acted[at[i]].event.raw
                        /\ i < k => at[i] < at[i + 1]
     /\ \A n \in 1..m :
          \/ \E i \in 1..k : at[i] = n
          \/ SaidBefore(n)
          \/ \E i \in 1..k : /\ at[i] < n /\ (i < k => n < at[i + 1])
                             /\ steps[i] = acted[n].event.raw

\* A saved version repeats, in order, what the user did up to some moment, and
\* no step twice in a row: up to now, if all that was reported was received
\* and nothing since the version was made.  What is missing from it was said
\* before: by the action before it in the same frame, where an action in
\* another frame may have come in between, or by the step before it, of
\* whichever frame.  So actions on two elements that the page cannot tell
\* apart (fields with one label) come to one; no other action is left out,
\* although the page and parameterize_events both drop repetitions, documents
\* come and go, and events arrive while the request reads them.
SavedIsWhatWasDone ==
  \A v \in 1..Len(saved) :
    LET steps == Raws(saved[v].workflow)
        upToNow == got = sent /\ saved[v].workflow = Workflow(got)
    IN /\ \A i \in 1..Len(steps) - 1 : steps[i] # steps[i + 1]
       /\ \E m \in IF upToNow THEN {Len(acted)} ELSE 0..Len(acted) :
            \E at \in [1..Len(steps) -> 1..m] : Repeat(steps, at, m)

\* Every recorded input of a version has a variable of its own, so that two
\* fields with one label do not get one value.
OwnVariable ==
  \A n \in 1..Len(saved) :
    LET w == saved[n].workflow
        I == {j \in 1..Len(w.steps) : w.steps[j].var # <<>>}
    IN /\ \A j, l \in I : w.steps[j].var = w.steps[l].var => j = l
       /\ w.inputs = {w.steps[j].var : j \in I}

\* A version is a workflow that can be filled in, of a session whose status is
\* what the thread does.
VersionIsUsable == TypeOK /\ OwnVariable

\* A version whose stop request has waited for the thread is made of a
\* finished recording and holds all the events that will ever be received.
CompleteUnlessLate ==
  \A n \in 1..Len(saved) :
    ~saved[n].late => /\ status = "finished"
                      /\ saved[n].workflow = Workflow(got)

\* Once stopped, the recording ends and its browser is closed.
RecordingEnds == stopped ~> (thread = "ended" /\ ~shown)
=============================================================================
