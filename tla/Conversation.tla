---------------------------- MODULE Conversation -----------------------------
(***************************************************************************)
(* One conversation: its messages, its settings, and what a run sends to   *)
(* which model (src/context/context-loader.ts, agent-runner.ts,            *)
(* agent-loop-context.ts, the commands /model and /context, and the        *)
(* administrators' routes in admin-conversations.ts).                      *)
(*                                                                         *)
(* The agent handles one message at a time (AgentDurableObject);           *)
(* administrators' requests run beside it.  Messages are numbered in the   *)
(* order they are listed, and a summary stands for the messages it was     *)
(* made from.  A run reads at most ScanLimit messages: the last of them as *)
(* they are, those before as a summary, which is made by a model and       *)
(* stored with the last message it covers.  Titles, reasoning settings,    *)
(* images and several conversations are left out.                          *)
(***************************************************************************)
EXTENDS ModelSettings

CONSTANTS
  ScanLimit,     \* CONTEXT_SCAN_LIMIT
  HistoryLimits, \* messages that are sent as they are
  MaxRoutes,     \* bound of the model: administrators' requests about the conversation
  MaxMessages    \* bound of the model: messages of the conversation

ASSUME ConversationConstants ==
  /\ {ScanLimit, MaxRoutes, MaxMessages} \subseteq Nat
  /\ HistoryLimits \subseteq 1 .. (ScanLimit - 1) /\ HistoryLimits # {}

VARIABLES
  count,    \* messages of the conversation
  settings, \* its row of conversation_settings
  run,      \* the handler of the agent
  jobs,     \* compactions, by who made them
  updates,  \* the columns an update of the settings is about to write
  routes    \* administrators' requests about the conversation so far

convVars == <<count, settings, run, jobs, updates, routes>>
vars     == <<modelVars, made, faults, convVars>>

Actors == {"agent", "admin"}
Chosen == Models \cup {None}
Ids    == 1 .. MaxMessages

Columns  == [model : Chosen, summaryModel : Chosen, limit : HistoryLimits, enabled : BOOLEAN]

\* covered: the messages the summary was made from; until: the last one it is said to reach;
\* missed (history): those before it that no summary model read, because it answered with
\* nothing or because they had left the scan.
Settings == [columns : Columns, covered : SUBSET Ids, until : 0 .. MaxMessages,
             missed : SUBSET Ids]

Run == [at : {"idle", "check", "command", "update", "load", "compact", "call", "reply"},
        asked : Chosen, checked : Models \cup {Env, None},
        model : Models \cup {Env, None}, sent : SUBSET Ids, alone : BOOLEAN, missed : SUBSET Ids]
Job == [at : {"idle", "list", "listed", "summarize", "store"}, force : BOOLEAN,
        seen : Settings, listed : 0 .. MaxMessages, text : SUBSET Ids, missed : SUBSET Ids]

NoRun == [at |-> "idle", asked |-> None, checked |-> None, model |-> None,
          sent |-> {}, alone |-> TRUE, missed |-> {}]

NewColumns == [model |-> None, summaryModel |-> None,
               limit |-> CHOOSE l \in HistoryLimits : TRUE, enabled |-> TRUE]
NewSettings == [columns |-> NewColumns, covered |-> {}, until |-> 0, missed |-> {}]

NoJob == [at |-> "idle", force |-> FALSE, seen |-> NewSettings, listed |-> 0,
          text |-> {}, missed |-> {}]

TypeOK ==
  /\ ModelTypeOK
  /\ count \in 0 .. MaxMessages
  /\ settings \in Settings
  /\ run \in Run
  /\ jobs \in [Actors -> Job]
  /\ updates \in [Actors -> Columns \cup {None}]
  /\ routes \in 0 .. MaxRoutes

Init ==
  /\ ModelInit
  /\ count = 0
  /\ settings = NewSettings
  /\ run = NoRun
  /\ jobs = [c \in Actors |-> NoJob]
  /\ updates = [c \in Actors |-> None]
  /\ routes = 0

-----------------------------------------------------------------------------
\* What a compaction has listed.

First(job) == IF job.listed > ScanLimit THEN job.listed - ScanLimit + 1 ELSE 1

\* The last message that is not sent as it is.
Until(job) == LET limit == job.seen.columns.limit IN
              IF job.listed > limit THEN job.listed - limit ELSE 0

Old(job) == First(job) .. Until(job)

\* Mutant: the summary is made anew.
SummarisedAnew(job) == Old(job)

\* What the summary model is given.
Summarised(job) == job.seen.covered \cup Old(job)

\* The messages before its end that a compaction leaves out which merges nothing, as it
\* failed, is turned off or has an empty answer ...
Unread(job) == job.seen.missed \cup (job.seen.until + 1 .. Until(job))

\* ... and those that one leaves out which merges all it has listed: what it lists can have
\* been missed before, and what comes between the last end and the scan has outrun it.
Outrun(job) == (job.seen.missed \cup (job.seen.until + 1 .. First(job) - 1)) \ Old(job)

\* Mutant: a conversation is summarised once.
SummarisedBefore(job) ==
  \/ Until(job) = 0
  \/ ~job.force /\ (~job.seen.columns.enabled \/ job.seen.until # 0)

\* Compaction has nothing to do: all messages are recent, or it is up to date or turned off.
UpToDate(job) ==
  \/ Until(job) = 0
  \/ ~job.force /\ (~job.seen.columns.enabled \/ Until(job) = job.seen.until)

-----------------------------------------------------------------------------
\* The selections a model is chosen from, the first one first.  The tables are read one
\* after the other; in the model a choice is one step.

RunSelections == <<run.asked, settings.columns.model, selected["default"]>>

SummarySelections(columns) ==
  IF columns.summaryModel # None
    THEN <<columns.summaryModel, settings.columns.model, selected["default"]>>
    ELSE <<settings.columns.model, selected["summary"], selected["default"]>>

-----------------------------------------------------------------------------
\* The handler of the agent.

Others == <<modelVars, made>>

Goto(at) == run' = [run EXCEPT !.at = at]

\* What is left of the handler's variables when all but the answer is done.
Answering == [NoRun EXCEPT !.at = "reply", !.asked = run.asked]

\* A message arrives and is stored; scheduled ones may name a model.
Receive ==
  /\ run.at = "idle"
  /\ count < MaxMessages
  /\ count' = count + 1
  /\ \E asked \in Chosen :
       run' = [NoRun EXCEPT !.at = "check", !.asked = asked]
  /\ UNCHANGED <<Others, routes, faults, settings, jobs, updates>>

\* The model that has the capabilities, before it is known whether this is a command.
CheckModel ==
  /\ run.at = "check"
  /\ LET m == Checked(RunSelections) IN
     run' = IF Refused(m) THEN Answering ELSE [run EXCEPT !.at = "command", !.checked = m]
  /\ UNCHANGED <<Others, routes, faults, count, settings, jobs, updates>>

\* The message is no command: createModelProvider of prepareAgentLoopContext.
ResolveModel ==
  /\ run.at = "command"
  /\ LET m == Resolved(RunSelections) IN
     run' = IF Refused(m) THEN Answering ELSE [run EXCEPT !.at = "load", !.model = m]
  /\ UNCHANGED <<Others, routes, faults, count, settings, jobs, updates>>

\* The model is called, and its tools may send messages.
ToolSendsMessage ==
  /\ run.at = "call"
  /\ count < MaxMessages
  /\ count' = count + 1
  /\ UNCHANGED <<Others, routes, faults, settings, run, jobs, updates>>

ModelAnswers ==
  /\ run.at = "call"
  /\ run' = Answering
  /\ UNCHANGED <<Others, routes, faults, count, settings, jobs, updates>>

\* The final message is stored; in the bounded model the last ones are not.
Reply ==
  /\ run.at = "reply"
  /\ count' = IF count < MaxMessages THEN count + 1 ELSE count
  /\ run' = NoRun
  /\ UNCHANGED <<Others, routes, faults, settings, jobs, updates>>

\* The handler is lost and the mailbox tries again: the message is stored already.
RunIsLost ==
  /\ run.at # "idle"
  /\ faults < MaxFaults
  /\ faults' = faults + 1
  /\ run' = [NoRun EXCEPT !.at = "check", !.asked = run.asked]
  /\ jobs' = [jobs EXCEPT !["agent"] = NoJob]
  /\ updates' = [updates EXCEPT !["agent"] = None]
  /\ UNCHANGED <<Others, routes, count, settings>>

-----------------------------------------------------------------------------
\* Updates of the settings: the row is read, and all of its columns but the summary's are
\* written.

\* What an update may ask for; a command only takes enabled models.
Changed(columns, any) ==
  LET models == {m \in Models : any \/ ~Refused(m)} \cup {None} IN
  {[columns EXCEPT !.model = m] : m \in models}
    \cup {[columns EXCEPT !.summaryModel = m] : m \in models}
    \cup {[columns EXCEPT !.limit = l] : l \in HistoryLimits}
    \cup {[columns EXCEPT !.enabled = e] : e \in BOOLEAN}

\* /model use, /model clear, /context history, /context summary, /context summary-model.
UpdateCommand ==
  /\ run.at = "command"
  /\ \E columns \in Changed(settings.columns, FALSE) :
       updates' = [updates EXCEPT !["agent"] = columns]
  /\ Goto("update")
  /\ UNCHANGED <<Others, routes, faults, count, settings, jobs>>

RouteCalled ==
  /\ routes < MaxRoutes
  /\ routes' = routes + 1

\* PUT of the administrators' route.
UpdateRoute ==
  /\ updates["admin"] = None
  /\ RouteCalled
  /\ \E columns \in Changed(settings.columns, TRUE) :
       updates' = [updates EXCEPT !["admin"] = columns]
  /\ UNCHANGED <<Others, faults, count, settings, run, jobs>>

WriteSettings(c) ==
  /\ updates[c] # None
  /\ settings' = [settings EXCEPT !.columns = updates[c]]
  /\ updates' = [updates EXCEPT ![c] = None]
  /\ run' = IF c = "agent" THEN Answering ELSE [run EXCEPT !.alone = run.at = "idle"]
  /\ UNCHANGED <<Others, routes, faults, count, jobs>>

-----------------------------------------------------------------------------
\* Compaction.

StartJob(c, force) ==
  /\ jobs[c] = NoJob
  /\ jobs' = [jobs EXCEPT ![c] = [NoJob EXCEPT !.at = "list", !.force = force, !.seen = settings]]

\* loadAgentContext
LoadContext ==
  /\ run.at = "load"
  /\ StartJob("agent", FALSE)
  /\ Goto("compact")
  /\ UNCHANGED <<Others, routes, faults, count, settings, updates>>

\* /context compact
CompactCommand ==
  /\ run.at = "command"
  /\ StartJob("agent", TRUE)
  /\ Goto("compact")
  /\ UNCHANGED <<Others, routes, faults, count, settings, updates>>

\* POST of the administrators' route.
CompactRoute ==
  /\ RouteCalled
  /\ StartJob("admin", TRUE)
  /\ UNCHANGED <<Others, faults, count, settings, run, updates>>

\* The compaction has come to its end, with a summary or by a rejection: the run goes on
\* with the summary and the recent messages, a command answers, the route responds.
End(c, summary, missed) ==
  LET job == jobs[c] IN
  /\ jobs' = [jobs EXCEPT ![c] = NoJob]
  /\ run' = IF c = "admin" THEN run
            ELSE IF job.force THEN Answering
            ELSE [run EXCEPT !.at = "call", !.sent = summary \cup (Until(job) + 1 .. job.listed),
                             !.missed = missed]

ListMessages(c) ==
  LET job == [jobs[c] EXCEPT !.listed = count] IN
  /\ job.at = "list"
  /\ jobs' = [jobs EXCEPT ![c] = [job EXCEPT !.at = "listed"]]
  /\ UNCHANGED <<Others, routes, faults, count, settings, run, updates>>

\* ensureConversationSettings or listConversationMessages rejects, or the Worker of an
\* administrator's request is lost: the run answers that it failed.
ListFails(c) ==
  /\ jobs[c].at = "list"
  /\ faults < MaxFaults
  /\ faults' = faults + 1
  /\ jobs' = [jobs EXCEPT ![c] = NoJob]
  /\ run' = IF c = "admin" THEN run ELSE Answering
  /\ UNCHANGED <<Others, routes, count, settings, updates>>

NothingToDo(c) ==
  LET seen == jobs[c].seen IN
  /\ jobs[c].at = "listed"
  /\ UpToDate(jobs[c])
  /\ End(c, seen.covered, IF seen.columns.enabled THEN seen.missed ELSE Unread(jobs[c]))
  /\ UNCHANGED <<Others, routes, faults, count, settings, updates>>

\* createModelProvider of summarizeAndStore.
ResolveSummaryModel(c) ==
  /\ jobs[c].at = "listed"
  /\ ~UpToDate(jobs[c])
  /\ IF Refused(Resolved(SummarySelections(jobs[c].seen.columns)))
       THEN End(c, jobs[c].seen.covered, Unread(jobs[c]))
       ELSE jobs' = [jobs EXCEPT ![c].at = "summarize"] /\ UNCHANGED run
  /\ UNCHANGED <<Others, routes, faults, count, settings, updates>>

\* The summary model answers.
Summarize(c) ==
  /\ jobs[c].at = "summarize"
  /\ jobs' = [jobs EXCEPT ![c].at = "store", ![c].text = Summarised(jobs[c]),
                          ![c].missed = Outrun(jobs[c])]
  /\ UNCHANGED <<Others, routes, faults, count, settings, run, updates>>

\* The model's answer is empty: the summary stays as it is, but its end moves on; when there
\* is none yet, nothing is stored.
SummarizeNothing(c) ==
  /\ jobs[c].at = "summarize"
  /\ faults < MaxFaults
  /\ faults' = faults + 1
  /\ IF jobs[c].seen.covered = {}
       THEN End(c, {}, Unread(jobs[c]))
       ELSE /\ jobs' = [jobs EXCEPT ![c].at = "store", ![c].text = jobs[c].seen.covered,
                                    ![c].missed = Unread(jobs[c])]
            /\ UNCHANGED run
  /\ UNCHANGED <<Others, routes, count, settings, updates>>

\* updateConversationSummary
Stored(job) ==
  [settings EXCEPT !.covered = job.text, !.until = Until(job), !.missed = job.missed]

StoreSummary(c) ==
  /\ jobs[c].at = "store"
  /\ settings' = Stored(jobs[c])
  /\ End(c, jobs[c].text, jobs[c].missed)
  /\ UNCHANGED <<Others, routes, faults, count, updates>>

\* An await rejects, that of the store with or without its effect, or the Worker of an
\* administrator's request is lost; a run goes on without a new summary.
JobFails(c) ==
  /\ jobs[c].at \in {"summarize", "store"}
  /\ faults < MaxFaults
  /\ faults' = faults + 1
  /\ \/ UNCHANGED settings
     \/ jobs[c].at = "store" /\ settings' = Stored(jobs[c])
  /\ End(c, jobs[c].seen.covered, Unread(jobs[c]))
  /\ UNCHANGED <<Others, routes, count, updates>>

-----------------------------------------------------------------------------
AdminModelStep ==
  /\ ModelStep
  /\ run' = [run EXCEPT !.alone = run.at = "idle"]
  /\ UNCHANGED <<count, settings, jobs, updates, routes>>

Next ==
  \/ Receive \/ CheckModel \/ ResolveModel \/ ToolSendsMessage \/ ModelAnswers
  \/ Reply \/ RunIsLost \/ UpdateCommand \/ UpdateRoute
  \/ LoadContext \/ CompactCommand \/ CompactRoute
  \/ \E c \in Actors :
       \/ WriteSettings(c) \/ ListMessages(c) \/ ListFails(c) \/ NothingToDo(c)
       \/ ResolveSummaryModel(c) \/ Summarize(c) \/ SummarizeNothing(c) \/ StoreSummary(c)
       \/ JobFails(c)
  \/ AdminModelStep

Spec == Init /\ [][Next]_vars

-----------------------------------------------------------------------------
\* The model that is called is the one whose capabilities were checked when the message
\* arrived, though the two are found by two functions that read the tables one after the
\* other: unless administrators changed something on the way, or the model's provider was
\* deleted, which only the second function looks at.
CheckedIsCalled ==
  run.at = "call" /\ run.alone /\ (run.checked = Env \/ Active(run.checked)) =>
    run.model = run.checked

\* A run sends all of the conversation, as part of the summary or as it is: what it leaves out
\* before a message it sends are the messages its own compaction did not get to read, because
\* it was turned off or failed, and those the summary it sends has missed (run.missed): the
\* summary model answered with nothing, or they left the scan before they were summarised.
\* Limits that change, a summary that another request stores in between and an end that
\* moves back leave nothing out.
ContextIsComplete ==
  run.at = "call" => \A i \in run.sent : 1 .. i \subseteq run.sent \cup run.missed

\* The stored summary covers every message up to the one it is said to reach, whoever
\* compacts at the same time and wherever a compaction fails, but for those lost in one of
\* two ways (settings.missed): the summary model's answer was empty and the new end was
\* stored beside the old text, or messages outran the scan.  The former are read again by the
\* next compaction that still lists them; if none does, and for the latter, they are lost.
SummaryReachesItsEnd == 1 .. settings.until \subseteq settings.covered \cup settings.missed
=============================================================================
