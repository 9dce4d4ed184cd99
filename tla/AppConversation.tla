--------------------------- MODULE AppConversation ---------------------------
(***************************************************************************)
(* The stored record of one V1 conversation (openhands/app_server), and    *)
(* the stored callback that gives it a title.                              *)
(*                                                                         *)
(* The record is written whole by everyone who changes a part of it: the   *)
(* request that starts the conversation, the web hook of the agent server, *)
(* the poller that replaces the hook, the callback that sets the title,    *)
(* the user who renames or publishes it.  Each of them reads it, waits     *)
(* (for the database or for the agent server), and saves what it read with *)
(* its own change; the statistics alone are a partial update.  The web     *)
(* hook may come before the start has stored the record, and then works on *)
(* a stub.                                                                 *)
(*                                                                         *)
(* A save is a merge: the session writes the columns in which the copy     *)
(* differs from the row it holds.  A record's row is gone from the session *)
(* by then, so the merge reads it again and the copy is written whole; the *)
(* rows of callbacks are kept while the callbacks run.                     *)
(*                                                                         *)
(* A handler is a coroutine; a step is what it does between two awaits of  *)
(* the database or the network.                                            *)
(***************************************************************************)
EXTENDS Naturals, FiniteSets

CONSTANTS
    AHandlers,   \* requests and background tasks that run at once
    AMaxCalls,   \* bound: requests in a behaviour
    AMaxCost     \* bound: the statistics the agent server reports

VARIABLES
    arow,       \* the stored AppConversationInfo, or NoRow
    astart,     \* where the start of the conversation is
    acallback,  \* the stored SetTitleCallbackProcessor: "none", "active", "disabled"
    ahandler,   \* handler -> what it is doing, with its copy of the record, and
                \* the callback's status in its session's row and in its copy
    acalls      \* requests so far

avars == <<arow, astart, acallback, ahandler, acalls>>

(* repo stands for what only the start request knows (repository, branch,  *)
(* trigger, parent), cost for the metrics.                                 *)
NoRow == [repo |-> FALSE, title |-> "none", cost |-> 0, public |-> FALSE]
AIdle == [at |-> "idle", copy |-> NoRow, event |-> "none", row |-> "none", own |-> "none"]
AEvents == {"message", "stats", "other"}

AInit ==
    /\ arow = NoRow /\ acallback = "none"
    /\ astart = "starting"
    /\ ahandler = [h \in AHandlers |-> AIdle]
    /\ acalls = 0

(* A request or task that has read the record ... *)
HasRead(h, at) ==
    ahandler' = [ahandler EXCEPT ![h] =
        [at |-> at, copy |-> arow, event |-> "none", row |-> "none", own |-> "none"]]

(* ... and one that runs the callbacks for an event, of which the row and  *)
(* the copy of the callback have these statuses.                           *)
Runs(h, at, event, row, own) ==
    ahandler' = [ahandler EXCEPT ![h] =
        [at |-> at, copy |-> NoRow, event |-> event, row |-> row, own |-> own]]

Finish(h) == ahandler' = [ahandler EXCEPT ![h] = AIdle]

(* save_app_conversation_info: merge and commit of the whole record *)
Save(row) == arow' = row

-----------------------------------------------------------------------------
(* The agent server has created the conversation: from here its web hooks  *)
(* may come.                                                               *)
StartPosted ==
    /\ astart = "starting"
    /\ astart' = "answering"
    /\ UNCHANGED <<arow, acallback, ahandler, acalls>>

(* The answer comes, and _start_app_conversation stores the record without *)
(* reading it; or the request fails and the start ends in ERROR.           *)
StartSaves ==
    /\ astart = "answering"
    /\ \/ /\ Save([repo |-> TRUE, title |-> "default", cost |-> 0, public |-> FALSE])
          /\ astart' = "saved"
       \/ astart' = "failed" /\ UNCHANGED arow
    /\ UNCHANGED <<acallback, ahandler, acalls>>

(* The callback becomes visible with the next commit of the session. *)
StartRegisters ==
    /\ astart = "saved"
    /\ astart' = "ready"
    /\ acallback' = "active"
    /\ UNCHANGED <<arow, ahandler, acalls>>

Called(h) ==
    /\ ahandler[h] = AIdle /\ acalls < AMaxCalls
    /\ acalls' = acalls + 1

-----------------------------------------------------------------------------
(* on_conversation_update: valid_conversation reads the record or makes a  *)
(* stub; nothing is done for a conversation that is being deleted.         *)
UpdateReads(h) ==
    /\ astart # "starting" /\ Called(h)
    /\ HasRead(h, "update") \/ Finish(h)
    /\ UNCHANGED <<arow, astart, acallback>>

\* Mutant: the git parameters are not taken over from the existing record.
UpdateSaves_bare(h) ==
    LET copy == ahandler[h].copy
    IN /\ ahandler[h].at = "update"
       /\ Save([repo |-> FALSE, cost |-> 0, public |-> FALSE,
                title |-> IF copy.title = "none" THEN "default" ELSE copy.title])
       /\ Finish(h)
       /\ UNCHANGED <<astart, acallback, acalls>>

(* The record is rebuilt from the existing one, without its metrics and    *)
(* without its public flag.                                                *)
UpdateSaves(h) ==
    LET copy == ahandler[h].copy
    IN /\ ahandler[h].at = "update"
       /\ Save([repo |-> copy.repo, cost |-> 0, public |-> FALSE,
                title |-> IF copy.title = "none" THEN "default" ELSE copy.title])
       /\ Finish(h)
       /\ UNCHANGED <<astart, acallback, acalls>>

(* update_conversation_statistics writes the metrics alone. *)
WithStats(cost) == [arow EXCEPT !.cost = cost]

(* on_event: the events are stored and the statistics, if there are any,   *)
(* applied to the record if there is one; a background task runs the       *)
(* callbacks, event by event.                                              *)
EventsArrive(h, event, cost) ==
    /\ astart # "starting" /\ Called(h)
    /\ arow' = IF event = "stats" /\ arow # NoRow THEN WithStats(cost) ELSE arow
    /\ Runs(h, "callbacks", event, "none", "none")
    /\ UNCHANGED <<astart, acallback>>

(* Where the app server cannot be called, poll_agent_servers lists the     *)
(* records ...                                                             *)
PollReads(h) ==
    /\ arow # NoRow /\ Called(h)
    /\ HasRead(h, "poll")
    /\ UNCHANGED <<arow, astart, acallback>>

(* The next event of a batch has its callbacks run, or the batch is over. *)
Continue(h) == Finish(h) \/ \E event \in AEvents : Runs(h, "callbacks", event, "none", "none")

(* ... and refresh_conversation, when the agent server has answered, saves *)
(* the record as it was listed, and runs the callbacks for new events; or  *)
(* the request fails.                                                      *)
PollSaves(h) ==
    /\ ahandler[h].at = "poll"
    /\ \/ Save(ahandler[h].copy) /\ Continue(h)
       \/ UNCHANGED arow /\ Finish(h)
    /\ UNCHANGED <<astart, acallback, acalls>>

-----------------------------------------------------------------------------
(* execute_callbacks reads the active callbacks, of which every processor  *)
(* gets a copy.  SetTitleCallbackProcessor has nothing to do for anything  *)
(* but a message.                                                          *)
CallbacksRead(h) ==
    LET event == ahandler[h].event
        at == IF event = "message" THEN "invoked" ELSE "done"
    IN /\ ahandler[h].at = "callbacks"
       /\ IF acallback # "active" THEN Continue(h)
          ELSE Runs(h, at, event, acallback, acallback)
       /\ UNCHANGED <<arow, astart, acallback, acalls>>

(* A processor fails.  The row that is to record this has no id: the batch *)
(* ends with it, or goes on where the database accepts it.                 *)
Fails(h) == Finish(h) \/ ahandler' = [ahandler EXCEPT ![h].at = "done"]

(* SetTitleCallbackProcessor, in a session of its own: it reads the record *)
(* and asks the agent server for a title; there must be a record.          *)
TitleReads(h) ==
    /\ ahandler[h].at = "invoked"
    /\ IF arow = NoRow THEN Fails(h)
       ELSE ahandler' = [ahandler EXCEPT ![h] = [@ EXCEPT !.at = "titling", !.copy = arow]]
    /\ UNCHANGED <<arow, astart, acallback, acalls>>

(* The record read before is saved with the title; or the request fails. *)
TitleSaves(h) ==
    /\ ahandler[h].at = "titling"
    /\ \/ /\ Save([ahandler[h].copy EXCEPT !.title = "generated"])
          /\ ahandler' = [ahandler EXCEPT ![h] = [@ EXCEPT !.at = "titled", !.copy = NoRow]]
       \/ UNCHANGED arow /\ Fails(h)
    /\ UNCHANGED <<astart, acallback, acalls>>

(* Then the copy of the callback is disabled and saved: this session has   *)
(* not read the callback, and compares the copy with the table.            *)
TitleDisables(h) ==
    /\ ahandler[h].at = "titled"
    /\ acallback' = "disabled"
    /\ ahandler' = [ahandler EXCEPT ![h] = [@ EXCEPT !.at = "done", !.own = "disabled"]]
    /\ UNCHANGED <<arow, astart, acalls>>

\* Mutant: the callback is stored as the processor's copy has it.
Merged_whole(h) == ahandler[h].own

(* The merge into the session that read the callbacks, which holds the row *)
(* as it was read: the status is written if the processor changed it.      *)
Merged(h) ==
    IF ahandler[h].own # ahandler[h].row THEN ahandler[h].own ELSE acallback

(* After the processors, execute_callbacks saves the copies they had. *)
CallbacksSaved(h) ==
    /\ ahandler[h].at = "done"
    /\ acallback' = Merged(h)
    /\ Continue(h)
    /\ UNCHANGED <<arow, astart, acalls>>

-----------------------------------------------------------------------------
(* update_app_conversation: the user makes the conversation public ... *)
UserReads(h) ==
    /\ arow # NoRow /\ Called(h)
    /\ HasRead(h, "user")
    /\ UNCHANGED <<arow, astart, acallback>>

UserSaves(h) ==
    /\ ahandler[h].at = "user"
    /\ Save([ahandler[h].copy EXCEPT !.public = TRUE])
    /\ Finish(h)
    /\ UNCHANGED <<astart, acallback, acalls>>

(* ... or, by _update_v1_conversation, gives it a title. *)
RenameReads(h) ==
    /\ arow # NoRow /\ Called(h)
    /\ HasRead(h, "rename")
    /\ UNCHANGED <<arow, astart, acallback>>

RenameSaves(h) ==
    /\ ahandler[h].at = "rename"
    /\ Save([ahandler[h].copy EXCEPT !.title = "renamed"])
    /\ Finish(h)
    /\ UNCHANGED <<astart, acallback, acalls>>

ANext ==
    \/ StartPosted \/ StartSaves \/ StartRegisters
    \/ \E h \in AHandlers :
          \/ UpdateReads(h) \/ UpdateSaves(h)
          \/ \E event \in AEvents, cost \in 1..AMaxCost : EventsArrive(h, event, cost)
          \/ PollReads(h) \/ PollSaves(h)
          \/ CallbacksRead(h) \/ TitleReads(h) \/ TitleSaves(h) \/ TitleDisables(h)
          \/ CallbacksSaved(h)
          \/ UserReads(h) \/ UserSaves(h) \/ RenameReads(h) \/ RenameSaves(h)

ASpec == AInit /\ [][ANext]_avars

-----------------------------------------------------------------------------
ARows == [repo : BOOLEAN, title : {"none", "default", "generated", "renamed"},
          cost : 0..AMaxCost, public : BOOLEAN]

Statuses == {"none", "active", "disabled"}

(* The stages in which a handler is about to save its copy of the record. *)
Savers == {"update", "poll", "titling", "user", "rename"}

(* Every variable has its type; the copy of the record a handler holds is  *)
(* one the table could have held.                                          *)
ATypeOK ==
    /\ arow \in ARows
    /\ astart \in {"starting", "answering", "saved", "ready", "failed"}
    /\ acallback \in Statuses
    /\ ahandler \in [AHandlers ->
          [at : Savers \cup {"idle", "callbacks", "invoked", "titled", "done"},
           copy : ARows, event : AEvents \cup {"none"}, row : Statuses, own : Statuses]]

(* The step is the save of a copy whose field f is no longer the stored    *)
(* one: it was read before somebody else's save.                           *)
StaleSave(f) ==
    \E h \in AHandlers :
        /\ ahandler[h].at \in Savers /\ ahandler'[h].at # ahandler[h].at
        /\ ahandler[h].copy[f] # arow[f]

(* A step keeps what was asked for when the conversation was started, and  *)
(* a title that the agent made or the user gave.                           *)
MadeTitles == {"generated", "renamed"}
KeepsRecord ==
    /\ arow.repo => arow'.repo \/ StaleSave("repo")
    /\ arow.title \in MadeTitles =>
          arow'.title \in MadeTitles \/ StaleSave("title") \/ astart' # astart

(* Neither is ever lost from the record, by hooks, polls, titles, renames  *)
(* and statistics in any order, but to a handler that saves a copy it read *)
(* before the field had its value.  A title may also be lost to the start  *)
(* itself, which stores the record without looking at the one the hook has *)
(* made.                                                                   *)
RecordKept == [][KeepsRecord]_avars

(* A disabled callback stays disabled, although batches of events that     *)
(* read it as active save their copy of it later, in any order with the    *)
(* batch that disabled it: the status they save is the one they read, and  *)
(* is not written.  Two batches that read it as active both ask for a      *)
(* title; no batch after them does.                                        *)
CallbackStaysOff == [][acallback = "disabled" => acallback' = "disabled"]_avars

=============================================================================
