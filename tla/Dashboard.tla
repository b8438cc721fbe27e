----------------------------- MODULE Dashboard -----------------------------
(***************************************************************************)
(* A session of the evaluation dashboard (dashboard/): the Chat page over  *)
(* the session state, and the calls that it makes of the API.              *)
(*                                                                         *)
(* Streamlit runs the page from its top for each thing the user does.  If  *)
(* the user touches another widget meanwhile it stops the run at the next  *)
(* access to the session state or call of st, and starts a new one.  The   *)
(* API call blocks: a run cannot be stopped in it, but is right after.  So *)
(* `position` is where a run of a button or of _send can be stopped, each  *)
(* step goes from one such point to the next, and Interrupt is what the    *)
(* touch does.  What the user then does, if anything, is its own step.     *)
(*                                                                         *)
(* The server keeps of a conversation what a retry depends on; Conversation*)
(* has the rest.                                                           *)
(***************************************************************************)
EXTENDS Integers, SequencesExt

CONSTANTS
    Conversations,      \* the ids that uuid4 yields
    Prompts,
    MaxSends,           \* bound on the requests of the session
    None

ASSUME DashboardAssumption ==
    /\ MaxSends \in Nat
    /\ None \notin Conversations \cup Prompts

VARIABLES
    active,             \* active_conversation_id
    conversations,      \* the messages of each conversation of the session
    evaluation_mode,
    evaluation_history,
    evaluation_dataset,
    last_request,       \* the record of the last request, or None
    position,           \* where the present run of the page is
    sending,            \* the arguments of _send, and its result
    server,             \* the server's record of each conversation, or None
    sends,              \* history: the number of requests made
    cleared,            \* history: how many there were when it was cleared
    disturbed           \* history: what RetryRepeats excepts has happened
                        \* since the API handled the last message

session == <<active, conversations, evaluation_mode, evaluation_history,
             evaluation_dataset, last_request>>
vars == <<session, position, sending, server, sends, cleared, disturbed>>

\* `number` tells the requests apart, as the timestamps do.
Message == [role : {"user", "assistant"}, number : 1..MaxSends]

\* The outcome of a call: an answer, an error of the engine, a conversation
\* or an image that the API refuses, or no response at all (status 0).
Results == {"answered", "failed", "refused", "unreachable"}

Sending == [number : 1..MaxSends, conversation : Conversations,
            prompt : Prompts, has_image : BOOLEAN, retry : BOOLEAN,
            result : Results \cup {None}]

\* new_record: of what the history and the dataset keep, the request.  What
\* came of it (response, status, diagnostics) no later step reads.
Record == [number : 1..MaxSends, conversation : Conversations,
           prompt : Prompts, has_image : BOOLEAN]

Positions == {"idle", "opened", "emptied", "prompted", "calling", "returned",
              "answered", "recorded", "collected"}

TypeOK ==
    /\ DOMAIN conversations \subseteq Conversations
    /\ active \in Conversations
    /\ active \in DOMAIN conversations <=> position # "opened"
    /\ conversations \in [DOMAIN conversations -> Seq(Message)]
    /\ evaluation_mode \in BOOLEAN
    /\ evaluation_history \in Seq(Record)
    /\ evaluation_dataset \in Seq(Record)
    /\ last_request \in Record \cup {None}
    /\ position \in Positions
    /\ sending \in Sending \cup {None}
    /\ server \in [Conversations ->
                      [query : Prompts, has_image : BOOLEAN] \cup {None}]
    /\ sends \in 0..MaxSends
    /\ cleared \in [Conversations -> 0..MaxSends]
    /\ disturbed \in BOOLEAN

\* initialize, in a new session of a server that knows none of its ids.
Init ==
    /\ active \in Conversations
    /\ conversations = [c \in {active} |-> << >>]
    /\ evaluation_mode = TRUE
    /\ evaluation_history = << >>
    /\ evaluation_dataset = << >>
    /\ last_request = None
    /\ position = "idle"
    /\ sending = None
    /\ server = [c \in Conversations |-> None]
    /\ sends = 0
    /\ cleared = [c \in Conversations |-> 0]
    /\ disturbed = FALSE

-----------------------------------------------------------------------------
(* The buttons, from one point where they can be stopped to the next, and  *)
(* the sidebar                                                             *)

\* The button New conversation sets the active conversation,
StartNewConversation ==
    /\ position = "idle"
    /\ position' = "opened"
    /\ \E c \in Conversations \ DOMAIN conversations : active' = c
    /\ UNCHANGED <<conversations, evaluation_mode, evaluation_history,
                   evaluation_dataset, last_request, sending, server, sends,
                   cleared, disturbed>>

\* Mutant of OpenConversation: its list is left to the first message.
OpenConversationLazily ==
    /\ position = "opened"
    /\ position' = "emptied"
    /\ UNCHANGED <<session, sending, server, sends, cleared, disturbed>>

\* then gives it an empty list.
OpenConversation ==
    /\ position = "opened"
    /\ position' = "emptied"
    /\ conversations' = [c \in DOMAIN conversations \cup {active} |->
                            IF c = active THEN << >> ELSE conversations[c]]
    /\ UNCHANGED <<active, evaluation_mode, evaluation_history,
                   evaluation_dataset, last_request, sending, server, sends,
                   cleared, disturbed>>

\* The button Clear conversation empties the list of the active one.
ClearActiveConversation ==
    /\ position = "idle"
    /\ position' = "emptied"
    /\ conversations' = [conversations EXCEPT ![active] = << >>]
    /\ cleared' = [cleared EXCEPT ![active] = sends]
    /\ UNCHANGED <<active, evaluation_mode, evaluation_history,
                   evaluation_dataset, last_request, sending, server, sends,
                   disturbed>>

\* Mutant of ForgetLastRequest: the old request remains to be retried.
ForgetLastRequestNot ==
    /\ position = "emptied"
    /\ position' = "idle"
    /\ UNCHANGED <<session, sending, server, sends, cleared, disturbed>>

\* Both then forget the last request, and the page starts over.
ForgetLastRequest ==
    /\ position = "emptied"
    /\ position' = "idle"
    /\ last_request' = None
    /\ UNCHANGED <<active, conversations, evaluation_mode, evaluation_history,
                   evaluation_dataset, sending, server, sends, cleared,
                   disturbed>>

\* The selectbox of the sidebar; the last request stays.
SwitchConversation ==
    /\ position = "idle"
    /\ \E c \in DOMAIN conversations \ {active} : active' = c
    /\ disturbed' = TRUE
    /\ UNCHANGED <<conversations, evaluation_mode, evaluation_history,
                   evaluation_dataset, last_request, position, sending,
                   server, sends, cleared>>

ToggleEvaluationMode ==
    /\ position = "idle"
    /\ evaluation_mode' = ~evaluation_mode
    /\ UNCHANGED <<active, conversations, evaluation_history,
                   evaluation_dataset, last_request, position, sending,
                   server, sends, cleared, disturbed>>

-----------------------------------------------------------------------------
(* _send, from one point where it can be stopped to the next               *)

AppendMessage(c, role, number) ==
    conversations' = [conversations EXCEPT ![c] =
                         Append(@, [role |-> role, number |-> number])]

\* _send starts with the user's message in the active conversation.
Begin(prompt, has_image, retry) ==
    /\ position = "idle"
    /\ sends < MaxSends
    /\ sends' = sends + 1
    /\ sending' = [number |-> sends', conversation |-> active,
                   prompt |-> prompt, has_image |-> has_image,
                   retry |-> retry, result |-> None]
    /\ AppendMessage(active, "user", sends')
    /\ position' = "prompted"
    /\ UNCHANGED <<active, evaluation_mode, evaluation_history,
                   evaluation_dataset, last_request, server, cleared,
                   disturbed>>

Send == \E prompt \in Prompts, has_image \in BOOLEAN :
            Begin(prompt, has_image, FALSE)

\* The button is disabled after a request with an image.
Retry ==
    /\ last_request # None
    /\ ~last_request.has_image
    /\ Begin(last_request.prompt, FALSE, TRUE)

\* client.chat posts the request.
Call ==
    /\ position = "prompted"
    /\ position' = "calling"
    /\ UNCHANGED <<session, sending, server, sends, cleared, disturbed>>

Return(result) ==
    /\ position' = "returned"
    /\ sending' = [sending EXCEPT !.result = result]
    /\ UNCHANGED <<session, sends, cleared>>

\* The API handles a message: it begins a turn, whether it is answered or
\* not.  The response may be lost, or come after the client's timeout.
ServeMessage ==
    /\ position = "calling"
    /\ ~sending.retry
    /\ server' = [server EXCEPT ![sending.conversation] =
                     [query |-> sending.prompt,
                      has_image |-> sending.has_image]]
    /\ \E result \in {"answered", "failed", "unreachable"} : Return(result)
    /\ disturbed' = FALSE

\* An image that ImageInput refuses, too large or of another type than said.
RefuseImage ==
    /\ position = "calling"
    /\ sending.has_image
    /\ \E result \in {"refused", "unreachable"} : Return(result)
    /\ UNCHANGED <<server, disturbed>>

\* A retry: 404 without a conversation, 422 without the turn's image.
ServeRetry ==
    /\ position = "calling"
    /\ sending.retry
    /\ LET known == server[sending.conversation]
           results == IF known = None \/ known.has_image THEN {"refused"}
                      ELSE {"answered", "failed"}
       IN  \E result \in results \cup {"unreachable"} : Return(result)
    /\ UNCHANGED <<server, disturbed>>

\* The API is not reached: status 0.
LoseRequest ==
    /\ position = "calling"
    /\ Return("unreachable")
    /\ disturbed' = TRUE
    /\ UNCHANGED server

\* Mutant of ShowAnswer: failures are not shown in the conversation.
ShowAnswerOnSuccess ==
    /\ position = "returned"
    /\ position' = "answered"
    /\ IF sending.result = "answered"
       THEN AppendMessage(sending.conversation, "assistant", sending.number)
       ELSE UNCHANGED conversations
    /\ UNCHANGED <<active, evaluation_mode, evaluation_history,
                   evaluation_dataset, last_request, sending, server, sends,
                   cleared, disturbed>>

\* The response, or a text for the error, becomes the assistant's message.
ShowAnswer ==
    /\ position = "returned"
    /\ position' = "answered"
    /\ AppendMessage(sending.conversation, "assistant", sending.number)
    /\ UNCHANGED <<active, evaluation_mode, evaluation_history,
                   evaluation_dataset, last_request, sending, server, sends,
                   cleared, disturbed>>

NewRecord ==
    [number |-> sending.number, conversation |-> sending.conversation,
     prompt |-> sending.prompt, has_image |-> sending.has_image]

RecordHistory ==
    /\ position = "answered"
    /\ position' = "recorded"
    /\ evaluation_history' = Append(evaluation_history, NewRecord)
    /\ UNCHANGED <<active, conversations, evaluation_mode, evaluation_dataset,
                   last_request, sending, server, sends, cleared, disturbed>>

RecordDataset ==
    /\ position = "recorded"
    /\ position' = "collected"
    /\ evaluation_dataset' = IF evaluation_mode
                             THEN Append(evaluation_dataset, NewRecord)
                             ELSE evaluation_dataset
    /\ UNCHANGED <<active, conversations, evaluation_mode, evaluation_history,
                   last_request, sending, server, sends, cleared, disturbed>>

\* The last request is set, and the page starts over.
KeepLastRequest ==
    /\ position = "collected"
    /\ position' = "idle"
    /\ last_request' = NewRecord
    /\ sending' = None
    /\ UNCHANGED <<active, conversations, evaluation_mode, evaluation_history,
                   evaluation_dataset, server, sends, cleared, disturbed>>

-----------------------------------------------------------------------------
(* What happens to a session                                               *)

\* The user touches another widget while a button or _send runs.  The run
\* that starts calls initialize, which gives the active conversation a list
\* if it has none.
Interrupt ==
    /\ position \in {"opened", "emptied", "prompted", "returned", "answered",
                     "recorded", "collected"}
    /\ position' = "idle"
    /\ conversations' = [c \in DOMAIN conversations \cup {active} |->
                            IF c \in DOMAIN conversations
                            THEN conversations[c] ELSE << >>]
    /\ sending' = None
    /\ disturbed' = TRUE
    /\ UNCHANGED <<active, evaluation_mode, evaluation_history,
                   evaluation_dataset, last_request, server, sends, cleared>>

\* The server keeps its conversations in memory; the session outlives it.
\* The rest of a run does not read them, so a restart may as well wait.
RestartServer ==
    /\ position \in {"idle", "calling"}
    /\ server' = [c \in Conversations |-> None]
    /\ disturbed' = TRUE
    /\ UNCHANGED <<session, position, sending, sends, cleared>>

Next ==
    \/ StartNewConversation \/ OpenConversation
    \/ ClearActiveConversation \/ ForgetLastRequest
    \/ SwitchConversation \/ ToggleEvaluationMode
    \/ Send \/ Retry \/ Call
    \/ ServeMessage \/ RefuseImage \/ ServeRetry \/ LoseRequest
    \/ ShowAnswer \/ RecordHistory \/ RecordDataset \/ KeepLastRequest
    \/ Interrupt \/ RestartServer

Spec == Init /\ [][Next]_vars

-----------------------------------------------------------------------------
(* Properties                                                              *)

\* A retry that the API handles repeats the turn that the server has: the
\* same query, and no image to attach.  Errors and lost responses do not
\* change that, nor do new and cleared conversations.  It takes that, since
\* the last message was handled, the user has not switched conversations, no
\* run was stopped, no request was lost and the server was not restarted;
\* each of these breaks it (RetryAlwaysRepeats).
RetryRepeats ==
    position = "calling" /\ sending.retry /\ ~disturbed =>
        server[sending.conversation]
            = [query |-> sending.prompt, has_image |-> FALSE]

RetryAlwaysRepeats ==
    position = "calling" /\ sending.retry =>
        server[sending.conversation]
            = [query |-> sending.prompt, has_image |-> FALSE]

\* The messages hold a prompt and, right after it, its answer.
Exchanged(messages, number) ==
    \E k \in 1..(Len(messages) - 1) :
        /\ messages[k] = [role |-> "user", number |-> number]
        /\ messages[k + 1] = [role |-> "assistant", number |-> number]

\* Each record of the history stands for a prompt and its answer in the
\* record's conversation, unless that was cleared since.
HistoryStands ==
    \A i \in DOMAIN evaluation_history :
        LET record == evaluation_history[i]
        IN  record.number > cleared[record.conversation] =>
                Exchanged(conversations[record.conversation], record.number)

\* Some of a list, in the list's order.
PartOf(part, list) ==
    \E place \in [1..Len(part) -> 1..Len(list)] :
        /\ \A i, j \in 1..Len(part) : i < j => place[i] < place[j]
        /\ \A i \in 1..Len(part) : part[i] = list[place[i]]

\* "Store API-observable facts only" (records.py): whatever was stopped on
\* the way, the records of the history stand, and the dataset holds records
\* of the history, each once and in its order.
RecordsStand ==
    /\ HistoryStands
    /\ PartOf(evaluation_dataset, evaluation_history)

\* What the API answered is shown and recorded once the page is idle again.
\* It does not hold: a touch while the request is routed drops the answer.
AnswerRecorded ==
    [][sending # None /\ sending.result = "answered" /\ position' = "idle" =>
          \E i \in DOMAIN evaluation_history' :
              evaluation_history'[i].number = sending.number]_vars

\* Evaluation Mode "records each API interaction in this session for export"
\* (app.py).  It does not hold: the run can be stopped between the two lists.
DatasetComplete ==
    [][position = "recorded" /\ position' # "recorded" /\ evaluation_mode =>
          Len(evaluation_dataset') > Len(evaluation_dataset)]_vars

=============================================================================
