--------------------------- MODULE DashboardProofs ---------------------------
(***************************************************************************)
(* Proofs about Dashboard, for any conversations and prompts and for a     *)
(* session of any length: types, when a retry repeats the server's turn,   *)
(* that the records of the history stand for what was said, and that the   *)
(* dataset is part of the history.                                         *)
(***************************************************************************)
EXTENDS Dashboard, SequenceTheorems, TLAPS

-----------------------------------------------------------------------------
(* Type correctness.                                                       *)

\* A run of _send is under way,
InSend == position \in {"prompted", "calling", "returned", "answered",
                        "recorded", "collected"}

\* and has its arguments.
SendingHeld == InSend => sending \in Sending

\* What a session shows, and what the steps of a run do to its types.
MessagesTyped ==
    /\ DOMAIN conversations \subseteq Conversations
    /\ active \in Conversations
    /\ active \in DOMAIN conversations <=> position # "opened"
    /\ conversations \in [DOMAIN conversations -> Seq(Message)]

\* A message is appended to a conversation of the session.
LEMMA AppendType ==
    ASSUME MessagesTyped, NEW c \in DOMAIN conversations,
           NEW role \in {"user", "assistant"}, NEW number \in 1..MaxSends,
           AppendMessage(c, role, number), active' = active,
           position # "opened", position' # "opened"
    PROVE  MessagesTyped'
<1>1. [role |-> role, number |-> number] \in Message
  BY DEF Message
<1>2. Append(conversations[c], [role |-> role, number |-> number])
         \in Seq(Message)
  BY <1>1, AppendProperties DEF MessagesTyped
<1>3. QED  BY <1>2 DEF MessagesTyped, AppendMessage

\* A run starts.
LEMMA BeginType ==
    ASSUME TypeOK, NEW prompt \in Prompts, NEW has_image \in BOOLEAN,
           NEW retry \in BOOLEAN, Begin(prompt, has_image, retry)
    PROVE  /\ TypeOK' /\ SendingHeld'
           /\ sending' = [number |-> sends + 1, conversation |-> active,
                          prompt |-> prompt, has_image |-> has_image,
                          retry |-> retry, result |-> None]
<1>1. sends' = sends + 1 /\ sends' \in 1..MaxSends
  BY DashboardAssumption DEF TypeOK, Begin
<1>2. sending' = [number |-> sends + 1, conversation |-> active,
                  prompt |-> prompt, has_image |-> has_image,
                  retry |-> retry, result |-> None]
  BY <1>1 DEF Begin
<1>3. sending' \in Sending
  <2>1. /\ sends + 1 \in 1..MaxSends /\ active \in Conversations
        /\ None \in Results \cup {None}
    BY <1>1 DEF TypeOK
  <2>2. QED  BY <1>2, <2>1, ZenonT(30) DEF Sending
<1>4. MessagesTyped'
  BY <1>1, AppendType DEF TypeOK, MessagesTyped, Begin
<1>5. QED
  BY <1>1, <1>2, <1>3, <1>4
     DEF TypeOK, Begin, Positions, SendingHeld, InSend, MessagesTyped

\* The call of a run returns.
LEMMA ReturnType ==
    ASSUME TypeOK, SendingHeld, position = "calling", NEW result \in Results,
           Return(result)
    PROVE  /\ sending' \in Sending /\ position' = "returned"
           /\ sending'.retry = sending.retry
           /\ sending'.conversation = sending.conversation
           /\ sending'.prompt = sending.prompt
           /\ sending'.number = sending.number
           /\ sending'.has_image = sending.has_image
<1>1. sending \in Sending /\ sending' = [sending EXCEPT !.result = result]
  BY DEF SendingHeld, InSend, Return
<1>2. QED  BY <1>1 DEF Sending, Return

\* The record of a run.
LEMMA NewRecordType ==
    ASSUME sending \in Sending
    PROVE  /\ NewRecord \in Record
           /\ NewRecord.number = sending.number
           /\ NewRecord.conversation = sending.conversation
           /\ NewRecord.prompt = sending.prompt
           /\ NewRecord.has_image = sending.has_image
BY DEF NewRecord, Record, Sending

LEMMA InitType == Init => TypeOK /\ SendingHeld
<1>1. << >> \in Seq(Message) /\ << >> \in Seq(Record)
  BY EmptySeq
<1>2. 0 \in 0..MaxSends
  BY DashboardAssumption
<1>3. QED  BY <1>1, <1>2 DEF Init, TypeOK, SendingHeld, InSend, Positions

\* Every step keeps the types.
LEMMA StepType == TypeOK /\ SendingHeld /\ [Next]_vars => TypeOK' /\ SendingHeld'
<1> SUFFICES ASSUME TypeOK, SendingHeld, [Next]_vars
             PROVE  TypeOK' /\ SendingHeld'
  OBVIOUS
<1>m. MessagesTyped
  BY DEF TypeOK, MessagesTyped
<1>e. << >> \in Seq(Message)
  BY EmptySeq
<1>1. CASE StartNewConversation
  BY <1>1 DEF StartNewConversation, TypeOK, SendingHeld, InSend, Positions
<1>o. CASE OpenConversation
  <2>1. MessagesTyped'
    BY <1>o, <1>m, <1>e DEF OpenConversation, MessagesTyped
  <2>2. QED
    BY <1>o, <2>1
       DEF OpenConversation, TypeOK, SendingHeld, InSend, MessagesTyped,
           Positions
<1>2. CASE ClearActiveConversation
  <2>1. MessagesTyped'
    BY <1>2, <1>m, <1>e DEF ClearActiveConversation, MessagesTyped
  <2>2. cleared' \in [Conversations -> 0..MaxSends]
    BY <1>2 DEF ClearActiveConversation, TypeOK
  <2>3. QED
    BY <1>2, <2>1, <2>2
       DEF ClearActiveConversation, TypeOK, SendingHeld, InSend,
           MessagesTyped, Positions
<1>f. CASE ForgetLastRequest
  BY <1>f DEF ForgetLastRequest, TypeOK, SendingHeld, InSend, Positions
<1>3. CASE SwitchConversation
  BY <1>3 DEF SwitchConversation, TypeOK, SendingHeld, InSend
<1>4. CASE ToggleEvaluationMode
  BY <1>4 DEF ToggleEvaluationMode, TypeOK, SendingHeld, InSend
<1>5. CASE Send
  BY <1>5, BeginType DEF Send
<1>6. CASE Retry
  <2>1. last_request \in Record
    BY <1>6 DEF Retry, TypeOK
  <2>2. last_request.prompt \in Prompts
    BY <2>1 DEF Record
  <2>3. QED  BY <1>6, <2>2, BeginType DEF Retry
<1>7. CASE Call
  BY <1>7 DEF Call, session, TypeOK, SendingHeld, InSend, Positions
<1>8. ASSUME NEW result \in Results, position = "calling", Return(result),
             server' \in [Conversations ->
                            [query : Prompts, has_image : BOOLEAN] \cup {None}],
             disturbed' \in BOOLEAN
      PROVE  TypeOK' /\ SendingHeld'
  <2>1. sending' \in Sending
    BY <1>8, ReturnType
  <2>2. QED
    BY <1>8, <2>1 DEF Return, session, TypeOK, SendingHeld, InSend, Positions
<1>s. position = "calling" =>
         /\ sending \in Sending /\ sending.conversation \in Conversations
         /\ sending.prompt \in Prompts /\ sending.has_image \in BOOLEAN
  BY DEF SendingHeld, InSend, Sending
<1>9. CASE ServeMessage
  <2>1. [query |-> sending.prompt, has_image |-> sending.has_image]
           \in [query : Prompts, has_image : BOOLEAN]
    BY <1>9, <1>s DEF ServeMessage
  <2>2. server' \in [Conversations ->
                       [query : Prompts, has_image : BOOLEAN] \cup {None}]
    BY <1>9, <2>1 DEF ServeMessage, TypeOK
  <2>3. QED  BY <1>8, <1>9, <2>2 DEF ServeMessage, Results
<1>10. CASE RefuseImage
  BY <1>8, <1>10 DEF RefuseImage, Results, TypeOK
<1>11. CASE ServeRetry
  BY <1>8, <1>11 DEF ServeRetry, Results, TypeOK
<1>12. CASE LoseRequest
  BY <1>8, <1>12 DEF LoseRequest, Results, TypeOK
<1>13. CASE ShowAnswer
  <2>1. sending \in Sending
    BY <1>13 DEF ShowAnswer, SendingHeld, InSend
  <2>2. conversations' = [conversations EXCEPT ![sending.conversation] =
                             Append(@, [role |-> "assistant",
                                        number |-> sending.number])]
    BY <1>13 DEF ShowAnswer, AppendMessage
  <2>3. [role |-> "assistant", number |-> sending.number] \in Message
    BY <2>1 DEF Sending, Message
  <2>4. ASSUME sending.conversation \in DOMAIN conversations
        PROVE  Append(conversations[sending.conversation],
                      [role |-> "assistant", number |-> sending.number])
                  \in Seq(Message)
    BY <2>3, <2>4, <1>m, AppendProperties DEF MessagesTyped
  <2>5. MessagesTyped'
    BY <1>13, <1>m, <2>2, <2>4 DEF ShowAnswer, MessagesTyped
  <2>6. QED
    BY <1>13, <2>1, <2>5
       DEF ShowAnswer, TypeOK, SendingHeld, InSend, MessagesTyped, Positions
<1>14. CASE RecordHistory
  <2>1. NewRecord \in Record /\ sending \in Sending
    BY <1>14, NewRecordType DEF RecordHistory, SendingHeld, InSend
  <2>2. evaluation_history' \in Seq(Record)
    BY <1>14, <2>1, AppendProperties DEF RecordHistory, TypeOK
  <2>3. QED
    BY <1>14, <2>1, <2>2
       DEF RecordHistory, TypeOK, SendingHeld, InSend, Positions
<1>15. CASE RecordDataset
  <2>1. NewRecord \in Record /\ sending \in Sending
    BY <1>15, NewRecordType DEF RecordDataset, SendingHeld, InSend
  <2>2. evaluation_dataset' \in Seq(Record)
    BY <1>15, <2>1, AppendProperties DEF RecordDataset, TypeOK
  <2>3. QED
    BY <1>15, <2>1, <2>2
       DEF RecordDataset, TypeOK, SendingHeld, InSend, Positions
<1>16. CASE KeepLastRequest
  <2>1. NewRecord \in Record
    BY <1>16, NewRecordType DEF KeepLastRequest, SendingHeld, InSend
  <2>2. QED
    BY <1>16, <2>1 DEF KeepLastRequest, TypeOK, SendingHeld, InSend, Positions
<1>17. CASE Interrupt
  <2>1. MessagesTyped'
    BY <1>17, <1>m, <1>e DEF Interrupt, MessagesTyped
  <2>2. QED
    BY <1>17, <2>1
       DEF Interrupt, TypeOK, SendingHeld, InSend, MessagesTyped, Positions
<1>18. CASE RestartServer
  BY <1>18 DEF RestartServer, session, TypeOK, SendingHeld, InSend, Positions
<1>19. CASE UNCHANGED vars
  BY <1>19 DEF vars, session, TypeOK, SendingHeld, InSend
<1>20. QED
  BY <1>1, <1>o, <1>2, <1>f, <1>3, <1>4, <1>5, <1>6, <1>7, <1>9, <1>10,
     <1>11, <1>12, <1>13, <1>14, <1>15, <1>16, <1>17, <1>18, <1>19 DEF Next

\* The session, the run and the server have their types; in particular the
\* conversation that is active is one of the session's.
THEOREM TypeCorrect == Spec => []TypeOK
<1>1. QED  BY InitType, StepType, PTL DEF Spec


-----------------------------------------------------------------------------
(* When a retry repeats the server's turn.                                 *)

\* The server's turn of the conversation is the prompt, without an image.
Holds(c, prompt) == server[c] = [query |-> prompt, has_image |-> FALSE]

\* A run sends to the conversation that is active, and a retry sends no
\* image.
SendsHere ==
    InSend =>
        /\ sending.conversation = active
        /\ sending.retry => ~sending.has_image

\* Undisturbed, the server holds the prompt that may be retried: between two
\* runs that of the last request, and within a run its own, from the start
\* for a retry and from the response on for a message.
RetryReady ==
    ~disturbed =>
        /\ position = "idle" /\ last_request # None =>
              last_request.has_image \/ Holds(active, last_request.prompt)
        /\ position \in {"prompted", "calling"} /\ sending.retry =>
              Holds(active, sending.prompt)
        /\ position \in {"returned", "answered", "recorded", "collected"} =>
              sending.has_image \/ Holds(active, sending.prompt)

RetryInv == TypeOK /\ SendingHeld /\ SendsHere /\ RetryReady

\* Runs keep to their conversation.
LEMMA StepSends ==
    TypeOK /\ SendingHeld /\ SendsHere /\ [Next]_vars => SendsHere'
<1> SUFFICES ASSUME TypeOK, SendingHeld, SendsHere, [Next]_vars
             PROVE  SendsHere'
  OBVIOUS
<1>1. CASE Send
  BY <1>1, BeginType DEF Send, Begin, SendsHere, InSend
<1>2. CASE Retry
  <2>1. last_request.prompt \in Prompts
    BY <1>2 DEF Retry, TypeOK, Record
  <2>2. QED  BY <1>2, <2>1, BeginType DEF Retry, Begin, SendsHere, InSend
<1>3. CASE ServeMessage \/ RefuseImage \/ ServeRetry \/ LoseRequest
  <2>1. PICK result \in Results : Return(result)
    BY <1>3
       DEF ServeMessage, RefuseImage, ServeRetry, LoseRequest, Results
  <2>2. position = "calling"
    BY <1>3 DEF ServeMessage, RefuseImage, ServeRetry, LoseRequest
  <2>3. QED  BY <2>1, <2>2, ReturnType DEF Return, session, SendsHere, InSend
<1>4. CASE StartNewConversation \/ OpenConversation
           \/ ClearActiveConversation \/ ForgetLastRequest
           \/ SwitchConversation \/ ToggleEvaluationMode
  BY <1>4
     DEF StartNewConversation, OpenConversation, ClearActiveConversation,
         ForgetLastRequest, SwitchConversation, ToggleEvaluationMode,
         SendsHere, InSend
<1>5. CASE Call \/ ShowAnswer \/ RecordHistory \/ RecordDataset
           \/ KeepLastRequest \/ Interrupt \/ RestartServer
           \/ UNCHANGED vars
  BY <1>5
     DEF Call, ShowAnswer, RecordHistory, RecordDataset, KeepLastRequest,
         Interrupt, RestartServer, vars, session, SendsHere, InSend
<1>6. QED  BY <1>1, <1>2, <1>3, <1>4, <1>5 DEF Next

\* Every step keeps it.
LEMMA StepRetry == RetryInv /\ [Next]_vars => RetryInv'
<1> SUFFICES ASSUME RetryInv, [Next]_vars PROVE RetryReady'
  BY StepType, StepSends DEF RetryInv
<1> USE DEF RetryInv
<1>1. CASE StartNewConversation
  BY <1>1 DEF StartNewConversation, RetryReady
<1>o. CASE OpenConversation
  BY <1>o DEF OpenConversation, RetryReady
<1>2. CASE ClearActiveConversation
  BY <1>2 DEF ClearActiveConversation, RetryReady
<1>f. CASE ForgetLastRequest
  BY <1>f DEF ForgetLastRequest, RetryReady
<1>3. CASE SwitchConversation
  BY <1>3 DEF SwitchConversation, RetryReady
<1>4. CASE ToggleEvaluationMode
  BY <1>4 DEF ToggleEvaluationMode, RetryReady, Holds
<1>5. CASE Send
  <2>1. PICK prompt \in Prompts, has_image \in BOOLEAN :
           Begin(prompt, has_image, FALSE)
    BY <1>5 DEF Send
  <2>2. sending' = [number |-> sends + 1, conversation |-> active,
                    prompt |-> prompt, has_image |-> has_image,
                    retry |-> FALSE, result |-> None]
    BY <2>1, BeginType
  <2>3. QED  BY <2>1, <2>2 DEF Begin, RetryReady
<1>6. CASE Retry
  <2>1. last_request \in Record /\ ~last_request.has_image
    BY <1>6 DEF Retry, TypeOK
  <2>2. last_request.prompt \in Prompts
    BY <2>1 DEF Record
  <2>3. sending' = [number |-> sends + 1, conversation |-> active,
                    prompt |-> last_request.prompt, has_image |-> FALSE,
                    retry |-> TRUE, result |-> None]
    BY <1>6, <2>2, BeginType DEF Retry
  <2>4. ~disturbed => Holds(active, last_request.prompt)
    BY <1>6, <2>1 DEF Retry, Begin, RetryReady
  <2>5. QED
    BY <1>6, <2>3, <2>4 DEF Retry, Begin, RetryReady, Holds
<1>7. CASE Call
  BY <1>7 DEF Call, session, RetryReady, Holds
<1>r. ASSUME NEW result \in Results, position = "calling", Return(result)
      PROVE  /\ sending' \in Sending /\ position' = "returned"
             /\ active' = active /\ sending.conversation = active
             /\ sending'.prompt = sending.prompt
             /\ sending'.has_image = sending.has_image
  BY <1>r, ReturnType DEF Return, session, SendsHere, InSend
<1>8. CASE ServeMessage
  <2>1. PICK result \in Results : Return(result)
    BY <1>8 DEF ServeMessage, Results
  <2>2. sending \in Sending
    BY <1>8 DEF ServeMessage, SendingHeld, InSend
  <2>3. server'[active] = [query |-> sending.prompt,
                           has_image |-> sending.has_image]
    BY <1>8, <1>r, <2>1, <2>2 DEF ServeMessage, TypeOK, Sending
  <2>4. sending.has_image \in BOOLEAN
    BY <2>2 DEF Sending
  <2>5. sending'.has_image \/ Holds(active, sending.prompt)'
    <3>1. CASE sending.has_image
      BY <1>8, <1>r, <2>1, <3>1 DEF ServeMessage
    <3>2. CASE sending.has_image = FALSE
      BY <1>8, <1>r, <2>1, <2>3, <3>2 DEF ServeMessage, Holds
    <3>3. QED  BY <2>4, <3>1, <3>2
  <2>6. QED
    BY <1>8, <1>r, <2>1, <2>5 DEF ServeMessage, RetryReady, Holds
<1>9. CASE RefuseImage
  <2>1. PICK result \in Results : Return(result)
    BY <1>9 DEF RefuseImage, Results
  <2>2. QED  BY <1>9, <1>r, <2>1 DEF RefuseImage, RetryReady
<1>10. CASE ServeRetry
  <2>1. PICK result \in Results : Return(result)
    BY <1>10 DEF ServeRetry, Results
  <2>2. QED  BY <1>10, <1>r, <2>1 DEF ServeRetry, RetryReady, Holds
<1>11. CASE LoseRequest
  BY <1>11, <1>r DEF LoseRequest, Results, RetryReady
<1>12. CASE ShowAnswer
  BY <1>12 DEF ShowAnswer, RetryReady, Holds
<1>13. CASE RecordHistory
  BY <1>13 DEF RecordHistory, RetryReady, Holds
<1>14. CASE RecordDataset
  BY <1>14 DEF RecordDataset, RetryReady, Holds
<1>15. CASE KeepLastRequest
  <2>1. sending \in Sending
    BY <1>15 DEF KeepLastRequest, SendingHeld, InSend
  <2>2. QED
    BY <1>15, <2>1, NewRecordType
       DEF KeepLastRequest, RetryReady, Holds
<1>16. CASE Interrupt
  BY <1>16 DEF Interrupt, RetryReady
<1>17. CASE RestartServer
  BY <1>17 DEF RestartServer, session, RetryReady
<1>18. CASE UNCHANGED vars
  BY <1>18 DEF vars, session, RetryReady, Holds
<1>19. QED
  BY <1>1, <1>o, <1>2, <1>f, <1>3, <1>4, <1>5, <1>6, <1>7, <1>8, <1>9,
     <1>10, <1>11, <1>12, <1>13, <1>14, <1>15, <1>16, <1>17, <1>18 DEF Next

\* Unless it was disturbed, a retry that reaches the API asks again what the
\* server has as the conversation's last turn.
THEOREM RetriesRepeat == Spec => []RetryRepeats
<1>1. Init => RetryInv
  BY InitType DEF Init, RetryInv, SendsHere, InSend, RetryReady
<1>2. RetryInv => RetryRepeats
  BY DEF RetryInv, SendsHere, InSend, RetryReady, RetryRepeats, Holds
<1>3. QED  BY <1>1, <1>2, StepRetry, PTL DEF Spec

-----------------------------------------------------------------------------
(* The records stand for what was said.                                    *)

\* The last message is the prompt of that number.
EndsWithPrompt(messages, number) ==
    /\ messages # << >>
    /\ messages[Len(messages)] = [role |-> "user", number |-> number]

\* The messages of the run that is under way: its prompt is the last, and
\* then its answer is right after it.
RunSpoken ==
    /\ position \in {"prompted", "calling", "returned"} =>
          EndsWithPrompt(conversations[active], sending.number)
    /\ position \in {"answered", "recorded", "collected"} =>
          Exchanged(conversations[active], sending.number)

\* The numbers are of requests that were made.
NumbersMade ==
    /\ InSend => sending.number <= sends
    /\ \A i \in DOMAIN evaluation_history :
          /\ evaluation_history[i].number <= sends
          /\ evaluation_history[i].conversation \in DOMAIN conversations

RecordsInv ==
    /\ TypeOK /\ SendingHeld /\ SendsHere
    /\ RunSpoken /\ NumbersMade /\ HistoryStands

\* A message more leaves what was said where it was.
LEMMA AppendKeepsExchange ==
    ASSUME NEW messages \in Seq(Message), NEW message \in Message, NEW number,
           Exchanged(messages, number)
    PROVE  Exchanged(Append(messages, message), number)
<1>1. PICK k \in 1..(Len(messages) - 1) :
         /\ messages[k] = [role |-> "user", number |-> number]
         /\ messages[k + 1] = [role |-> "assistant", number |-> number]
  BY DEF Exchanged
<1>2. /\ Len(Append(messages, message)) = Len(messages) + 1
      /\ \A i \in 1..Len(messages) :
            Append(messages, message)[i] = messages[i]
      /\ Len(messages) \in Nat
  BY AppendProperties, LenProperties
<1>3. /\ k \in 1..(Len(Append(messages, message)) - 1)
      /\ k \in 1..Len(messages) /\ k + 1 \in 1..Len(messages)
  BY <1>2
<1>4. QED  BY <1>1, <1>2, <1>3 DEF Exchanged

\* The answer to the last message makes an exchange.
LEMMA AnswerMakesExchange ==
    ASSUME NEW messages \in Seq(Message), NEW number \in 1..MaxSends,
           EndsWithPrompt(messages, number)
    PROVE  Exchanged(Append(messages,
                            [role |-> "assistant", number |-> number]),
                     number)
<1> DEFINE answer == [role |-> "assistant", number |-> number]
<1>1. answer \in Message
  BY DEF Message
<1>2. /\ Len(Append(messages, answer)) = Len(messages) + 1
      /\ \A i \in 1..Len(messages) :
            Append(messages, answer)[i] = messages[i]
      /\ Append(messages, answer)[Len(messages) + 1] = answer
      /\ Len(messages) \in Nat /\ Len(messages) # 0
  BY <1>1, AppendProperties, LenProperties, EmptySeq DEF EndsWithPrompt
<1>3. /\ Len(messages) \in 1..(Len(Append(messages, answer)) - 1)
      /\ Len(messages) \in 1..Len(messages)
  BY <1>2
<1>4. QED  BY <1>2, <1>3 DEF Exchanged, EndsWithPrompt

\* A step that appends a message to the active conversation, or none.
LEMMA HistoryKept ==
    ASSUME RecordsInv, TypeOK', UNCHANGED <<evaluation_history, cleared>>,
           \/ UNCHANGED conversations
           \/ /\ position # "opened"
              /\ \E message \in Message :
                    conversations' = [conversations EXCEPT ![active] =
                                         Append(@, message)]
    PROVE  /\ HistoryStands'
           /\ DOMAIN conversations' = DOMAIN conversations
<1>1. CASE UNCHANGED conversations
  BY <1>1 DEF RecordsInv, HistoryStands
<1>2. ASSUME position # "opened", NEW message \in Message,
             conversations' = [conversations EXCEPT ![active] =
                                  Append(@, message)]
      PROVE  /\ HistoryStands'
             /\ DOMAIN conversations' = DOMAIN conversations
  <2>1. conversations[active] \in Seq(Message)
    BY <1>2 DEF RecordsInv, TypeOK
  <2>2. \A c \in DOMAIN conversations : \A number :
           Exchanged(conversations[c], number)
              => Exchanged(conversations'[c], number)
    BY <1>2, <2>1, AppendKeepsExchange DEF RecordsInv, TypeOK
  <2>3. QED
    BY <1>2, <2>2 DEF RecordsInv, HistoryStands, NumbersMade, InSend, TypeOK
<1>3. QED  BY <1>1, <1>2

\* The history is empty or a sequence of records.
LEMMA HistoryTyped ==
    ASSUME TypeOK, NEW i \in DOMAIN evaluation_history
    PROVE  /\ evaluation_history[i] \in Record
           /\ evaluation_history[i].number \in Nat
           /\ evaluation_history[i].conversation \in Conversations
<1>1. evaluation_history[i] \in Record
  BY LenProperties DEF TypeOK
<1>2. QED  BY <1>1 DEF Record

\* Every step keeps the records standing.
LEMMA StepRecords == RecordsInv /\ [Next]_vars => RecordsInv'
<1> SUFFICES ASSUME RecordsInv, [Next]_vars
             PROVE  RunSpoken' /\ NumbersMade' /\ HistoryStands'
  BY StepType, StepSends DEF RecordsInv
<1>t. TypeOK /\ SendingHeld /\ TypeOK' /\ SendingHeld'
  BY StepType DEF RecordsInv
<1>n. sends \in Int
  BY <1>t DEF TypeOK
<1>k. ASSUME UNCHANGED <<conversations, evaluation_history, cleared>>
      PROVE  HistoryStands'
  BY <1>k, <1>t, HistoryKept
<1>l. ASSUME UNCHANGED <<evaluation_history, cleared>>,
             DOMAIN conversations \subseteq DOMAIN conversations',
             \A c \in DOMAIN conversations :
                conversations'[c] = conversations[c]
      PROVE  HistoryStands'
  BY <1>l DEF RecordsInv, HistoryStands, NumbersMade, InSend, Exchanged
<1>1. CASE StartNewConversation
  BY <1>1, <1>k
     DEF StartNewConversation, RecordsInv, RunSpoken, NumbersMade, InSend
<1>o. CASE OpenConversation
  <2>1. /\ DOMAIN conversations \subseteq DOMAIN conversations'
        /\ \A c \in DOMAIN conversations :
              conversations'[c] = conversations[c]
    BY <1>o, <1>t DEF OpenConversation, TypeOK
  <2>2. HistoryStands'
    BY <1>o, <1>l, <2>1 DEF OpenConversation
  <2>3. QED
    BY <1>o, <2>1, <2>2
       DEF OpenConversation, RecordsInv, RunSpoken, NumbersMade, InSend
<1>2. CASE ClearActiveConversation
  <2>1. ASSUME NEW i \in DOMAIN evaluation_history,
               evaluation_history[i].number
                  > cleared'[evaluation_history[i].conversation]
        PROVE  Exchanged(conversations[evaluation_history[i].conversation],
                         evaluation_history[i].number)'
    <3>1. evaluation_history[i].conversation # active
      BY <1>2, <1>t, <1>n, <2>1, HistoryTyped
         DEF ClearActiveConversation, RecordsInv, NumbersMade, InSend, TypeOK
    <3>2. conversations'[evaluation_history[i].conversation]
             = conversations[evaluation_history[i].conversation]
      BY <1>2, <3>1, <2>1
         DEF ClearActiveConversation, RecordsInv, NumbersMade, InSend
    <3>3. cleared'[evaluation_history[i].conversation]
             = cleared[evaluation_history[i].conversation]
      BY <1>2, <1>t, <3>1, <2>1, HistoryTyped
         DEF ClearActiveConversation, TypeOK
    <3>4. QED
      BY <1>2, <2>1, <3>2, <3>3
         DEF ClearActiveConversation, RecordsInv, HistoryStands, Exchanged
  <2>2. HistoryStands'
    BY <1>2, <2>1 DEF ClearActiveConversation, HistoryStands
  <2>3. QED
    BY <1>2, <2>2
       DEF ClearActiveConversation, RecordsInv, RunSpoken, NumbersMade, InSend
<1>f. CASE ForgetLastRequest
  BY <1>f, <1>k
     DEF ForgetLastRequest, RecordsInv, RunSpoken, NumbersMade, InSend
<1>3. CASE SwitchConversation
  BY <1>3, <1>k
     DEF SwitchConversation, RecordsInv, RunSpoken, NumbersMade, InSend
<1>4. CASE ToggleEvaluationMode
  BY <1>4, <1>k
     DEF ToggleEvaluationMode, RecordsInv, RunSpoken, NumbersMade, InSend
<1>5. ASSUME NEW prompt \in Prompts, NEW has_image \in BOOLEAN,
             NEW retry \in BOOLEAN, Begin(prompt, has_image, retry)
      PROVE  RunSpoken' /\ NumbersMade' /\ HistoryStands'
  <2> DEFINE message == [role |-> "user", number |-> sends + 1]
  <2>1. sending'.number = sends + 1 /\ sends' = sends + 1
        /\ sends + 1 \in 1..MaxSends
    BY <1>5, <1>t, BeginType DEF Begin, TypeOK
  <2>2. message \in Message
    BY <2>1 DEF Message
  <2>3. conversations' = [conversations EXCEPT ![active] =
                             Append(@, message)]
    BY <1>5, <2>1 DEF Begin, AppendMessage
  <2>4. HistoryStands' /\ DOMAIN conversations' = DOMAIN conversations
    BY <1>5, <1>t, <2>2, <2>3, HistoryKept DEF Begin
  <2>5. EndsWithPrompt(conversations'[active], sends + 1)
    <3>1. conversations[active] \in Seq(Message)
          /\ conversations'[active] = Append(conversations[active], message)
      BY <1>t, <2>3 DEF TypeOK
    <3>2. /\ Len(conversations'[active]) = Len(conversations[active]) + 1
          /\ conversations'[active][Len(conversations[active]) + 1] = message
          /\ conversations'[active] # << >>
      BY <2>2, <3>1, AppendProperties
    <3>3. QED  BY <3>2 DEF EndsWithPrompt
  <2>6. NumbersMade'
    BY <1>5, <1>t, <1>n, <2>1, <2>4, HistoryTyped
       DEF Begin, RecordsInv, NumbersMade, InSend
  <2>7. QED  BY <1>5, <2>1, <2>4, <2>5, <2>6 DEF Begin, RunSpoken
<1>6. CASE Send
  BY <1>5, <1>6 DEF Send
<1>7. CASE Retry
  <2>1. last_request.prompt \in Prompts
    BY <1>7, <1>t DEF Retry, TypeOK, Record
  <2>2. QED  BY <1>5, <1>7, <2>1 DEF Retry
<1>8. CASE Call
  BY <1>8, <1>k DEF Call, session, RecordsInv, RunSpoken, NumbersMade, InSend
<1>9. CASE ServeMessage \/ RefuseImage \/ ServeRetry \/ LoseRequest
  <2>1. position = "calling"
    BY <1>9 DEF ServeMessage, RefuseImage, ServeRetry, LoseRequest
  <2>2. PICK result \in Results : Return(result)
    BY <1>9
       DEF ServeMessage, RefuseImage, ServeRetry, LoseRequest, Results
  <2>3. sending'.number = sending.number /\ position' = "returned"
    BY <1>t, <2>1, <2>2, ReturnType
  <2>4. QED
    BY <1>k, <2>1, <2>2, <2>3
       DEF Return, session, RecordsInv, RunSpoken, NumbersMade, InSend
<1>10. CASE ShowAnswer
  <2> DEFINE message == [role |-> "assistant", number |-> sending.number]
  <2>1. sending \in Sending /\ sending.number \in 1..MaxSends
        /\ sending.conversation = active
    BY <1>10 DEF ShowAnswer, RecordsInv, SendingHeld, SendsHere, InSend, Sending
  <2>2. message \in Message
    BY <2>1 DEF Message
  <2>3. conversations' = [conversations EXCEPT ![active] =
                             Append(@, message)]
    BY <1>10, <2>1 DEF ShowAnswer, AppendMessage
  <2>4. HistoryStands' /\ DOMAIN conversations' = DOMAIN conversations
    BY <1>10, <1>t, <2>2, <2>3, HistoryKept DEF ShowAnswer
  <2>5. Exchanged(conversations'[active], sending.number)
    <3>1. conversations[active] \in Seq(Message)
          /\ conversations'[active] = Append(conversations[active], message)
      BY <1>t, <2>3 DEF TypeOK
    <3>2. EndsWithPrompt(conversations[active], sending.number)
      BY <1>10 DEF ShowAnswer, RecordsInv, RunSpoken
    <3>3. QED  BY <2>1, <3>1, <3>2, AnswerMakesExchange
  <2>6. NumbersMade'
    BY <1>10, <2>4 DEF ShowAnswer, RecordsInv, NumbersMade, InSend
  <2>7. QED  BY <1>10, <2>4, <2>5, <2>6 DEF ShowAnswer, RunSpoken
<1>11. CASE RecordHistory
  <2>1. sending \in Sending /\ sending.conversation = active
        /\ sending.number <= sends
    BY <1>11
       DEF RecordHistory, RecordsInv, SendingHeld, SendsHere, NumbersMade,
           InSend
  <2>2. /\ NewRecord \in Record
        /\ NewRecord.number = sending.number
        /\ NewRecord.conversation = active
    BY <2>1, NewRecordType
  <2>3. /\ evaluation_history \in Seq(Record)
        /\ evaluation_history' = Append(evaluation_history, NewRecord)
    BY <1>11, <1>t DEF RecordHistory, TypeOK
  <2>4. \A i \in DOMAIN evaluation_history' :
           \/ /\ i \in DOMAIN evaluation_history
              /\ evaluation_history'[i] = evaluation_history[i]
           \/ evaluation_history'[i] = NewRecord
    BY <2>2, <2>3, AppendProperties, LenProperties
  <2>5. Exchanged(conversations[active], sending.number)
        /\ active \in DOMAIN conversations
    BY <1>11, <1>t DEF RecordHistory, RecordsInv, RunSpoken, TypeOK
  <2>6. UNCHANGED <<conversations, cleared, sends, sending, active>>
    BY <1>11 DEF RecordHistory
  <2>7. HistoryStands'
    <3>1. ASSUME NEW i \in DOMAIN evaluation_history',
                 evaluation_history'[i].number
                    > cleared'[evaluation_history'[i].conversation]
          PROVE  Exchanged(conversations'[evaluation_history'[i].conversation],
                           evaluation_history'[i].number)
      <4>1. CASE evaluation_history'[i] = NewRecord
        BY <2>2, <2>5, <2>6, <4>1
      <4>2. CASE /\ i \in DOMAIN evaluation_history
                 /\ evaluation_history'[i] = evaluation_history[i]
        BY <2>6, <3>1, <4>2 DEF RecordsInv, HistoryStands
      <4>3. QED  BY <2>4, <4>1, <4>2
    <3>2. QED  BY <3>1 DEF HistoryStands, Exchanged
  <2>8. NumbersMade'
    BY <2>1, <2>2, <2>4, <2>5, <2>6 DEF RecordsInv, NumbersMade, InSend
  <2>9. QED
    BY <1>11, <2>5, <2>6, <2>7, <2>8 DEF RecordHistory, RunSpoken, Exchanged
<1>12. CASE RecordDataset
  BY <1>12, <1>k DEF RecordDataset, RecordsInv, RunSpoken, NumbersMade, InSend
<1>13. CASE KeepLastRequest
  BY <1>13, <1>k DEF KeepLastRequest, RecordsInv, RunSpoken, NumbersMade, InSend
<1>14. CASE Interrupt
  <2>1. /\ DOMAIN conversations \subseteq DOMAIN conversations'
        /\ \A c \in DOMAIN conversations :
              conversations'[c] = conversations[c]
    BY <1>14 DEF Interrupt
  <2>2. HistoryStands'
    BY <1>14, <1>l, <2>1 DEF Interrupt
  <2>3. QED
    BY <1>14, <2>1, <2>2
       DEF Interrupt, RecordsInv, RunSpoken, NumbersMade, InSend
<1>15. CASE RestartServer
  BY <1>15, <1>k
     DEF RestartServer, session, RecordsInv, RunSpoken, NumbersMade, InSend
<1>16. CASE UNCHANGED vars
  BY <1>16, <1>k DEF vars, session, RecordsInv, RunSpoken, NumbersMade, InSend
<1>17. QED
  BY <1>1, <1>o, <1>2, <1>f, <1>3, <1>4, <1>6, <1>7, <1>8, <1>9, <1>10,
     <1>11, <1>12, <1>13, <1>14, <1>15, <1>16 DEF Next

\* Wherever runs were stopped and whatever was cleared, each record of the
\* history has its prompt and, right after it, its answer in the
\* conversation.
LEMMA HistoryAlwaysStands == Spec => [](RecordsInv /\ HistoryStands)
<1>1. Init => RecordsInv
  BY InitType
     DEF Init, RecordsInv, SendsHere, RunSpoken, NumbersMade, InSend,
         HistoryStands
<1>2. RecordsInv => HistoryStands
  BY DEF RecordsInv
<1>3. QED  BY <1>1, <1>2, StepRecords, PTL DEF Spec

-----------------------------------------------------------------------------
(* The dataset.                                                            *)

\* The dataset is part of the history; between the two appends, of what the
\* history was before the new record.
DatasetFollows ==
    /\ PartOf(evaluation_dataset, evaluation_history)
    /\ position = "recorded" =>
          \E earlier \in Seq(Record) :
              /\ evaluation_history = Append(earlier, NewRecord)
              /\ PartOf(evaluation_dataset, earlier)

\* Part of a list is part of the longer list,
LEMMA PartOfLonger ==
    ASSUME NEW part \in Seq(Record), NEW list \in Seq(Record),
           NEW record \in Record, PartOf(part, list)
    PROVE  PartOf(part, Append(list, record))
<1>1. PICK place \in [1..Len(part) -> 1..Len(list)] :
         /\ \A i, j \in 1..Len(part) : i < j => place[i] < place[j]
         /\ \A i \in 1..Len(part) : part[i] = list[place[i]]
  BY DEF PartOf
<1>2. /\ Len(Append(list, record)) = Len(list) + 1 /\ Len(list) \in Nat
      /\ \A i \in 1..Len(list) : Append(list, record)[i] = list[i]
  BY AppendProperties, LenProperties
<1>3. place \in [1..Len(part) -> 1..Len(Append(list, record))]
  BY <1>2
<1>4. \A i \in 1..Len(part) : part[i] = Append(list, record)[place[i]]
  BY <1>1, <1>2
<1>5. QED  BY <1>1, <1>3, <1>4 DEF PartOf

\* and so it is when both get the same record.
LEMMA PartOfBoth ==
    ASSUME NEW part \in Seq(Record), NEW list \in Seq(Record),
           NEW record \in Record, PartOf(part, list)
    PROVE  PartOf(Append(part, record), Append(list, record))
<1>1. PICK place \in [1..Len(part) -> 1..Len(list)] :
         /\ \A i, j \in 1..Len(part) : i < j => place[i] < place[j]
         /\ \A i \in 1..Len(part) : part[i] = list[place[i]]
  BY DEF PartOf
<1>2. PICK n \in Nat, m \in Nat : n = Len(part) /\ m = Len(list)
  BY LenProperties
<1>3. /\ Len(Append(part, record)) = n + 1 /\ Len(Append(list, record)) = m + 1
      /\ \A i \in 1..n : Append(part, record)[i] = part[i]
      /\ \A i \in 1..m : Append(list, record)[i] = list[i]
      /\ Append(part, record)[n + 1] = record
      /\ Append(list, record)[m + 1] = record
  BY <1>2, AppendProperties
<1>p. /\ place \in [1..n -> 1..m]
      /\ \A i \in 1..n : place[i] \in 1..m /\ part[i] = list[place[i]]
      /\ \A i, j \in 1..n : i < j => place[i] < place[j]
  BY <1>1, <1>2
<1>n. /\ n + 1 \in 1..(n + 1) /\ m + 1 \in 1..(m + 1)
      /\ \A i \in 1..(n + 1) : i = n + 1 \/ i \in 1..n
      /\ \A i \in 1..n : i \in 1..(n + 1) /\ i # n + 1
      /\ \A k \in 1..m : k \in 1..(m + 1)
  BY <1>2
<1>4. PICK last : last = [i \in 1..(n + 1) |-> IF i = n + 1 THEN m + 1 ELSE place[i]]
  OBVIOUS
<1>5. /\ last \in [1..(n + 1) -> 1..(m + 1)]
      /\ \A i \in 1..n : last[i] = place[i] /\ place[i] \in 1..m
      /\ last[n + 1] = m + 1
  <2>1. \A i \in 1..(n + 1) : last[i] = IF i = n + 1 THEN m + 1 ELSE place[i]
    BY <1>4
  <2>2. \A i \in 1..n : last[i] = place[i] /\ place[i] \in 1..m
    BY <1>p, <1>n, <2>1
  <2>3. last[n + 1] = m + 1
    BY <1>n, <2>1
  <2>4. \A i \in 1..(n + 1) : last[i] \in 1..(m + 1)
    BY <1>n, <2>2, <2>3
  <2>5. last \in [1..(n + 1) -> 1..(m + 1)]
    BY <1>4, <2>4
  <2>6. QED  BY <2>2, <2>3, <2>5
<1>6. ASSUME NEW i \in 1..(n + 1), NEW j \in 1..(n + 1), i < j
      PROVE  last[i] < last[j]
  <2>1. i \in 1..n
    BY <1>2, <1>6
  <2>2. CASE j = n + 1
    BY <1>2, <1>5, <2>1, <2>2
  <2>3. CASE j \in 1..n
    BY <1>p, <1>5, <1>6, <2>1, <2>3
  <2>4. QED  BY <1>n, <2>2, <2>3
<1>7. ASSUME NEW i \in 1..(n + 1)
      PROVE  Append(part, record)[i] = Append(list, record)[last[i]]
  <2>1. CASE i = n + 1
    BY <1>3, <1>5, <2>1
  <2>2. CASE i \in 1..n
    <3>1. Append(part, record)[i] = part[i] /\ last[i] = place[i]
      BY <1>3, <1>5, <2>2
    <3>2. /\ place[i] \in 1..m /\ part[i] = list[place[i]]
          /\ Append(list, record)[place[i]] = list[place[i]]
      BY <1>p, <1>3, <2>2
    <3>3. QED  BY <3>1, <3>2
  <2>3. QED  BY <1>n, <2>1, <2>2
<1>8. QED  BY <1>3, <1>5, <1>6, <1>7 DEF PartOf

LEMMA StepDataset ==
    ASSUME RecordsInv, DatasetFollows, [Next]_vars
    PROVE  DatasetFollows'
<1>t. /\ evaluation_history \in Seq(Record)
      /\ evaluation_dataset \in Seq(Record)
      /\ InSend => NewRecord \in Record
  BY NewRecordType DEF RecordsInv, TypeOK, SendingHeld, InSend
<1>1. CASE RecordHistory
  <2>1. /\ evaluation_history' = Append(evaluation_history, NewRecord)
        /\ evaluation_dataset' = evaluation_dataset
        /\ NewRecord \in Record
        /\ NewRecord' = NewRecord
    BY <1>1, <1>t DEF RecordHistory, NewRecord, InSend
  <2>2. PartOf(evaluation_dataset, evaluation_history)
    BY DEF DatasetFollows
  <2>3. PartOf(evaluation_dataset', evaluation_history')
    BY <1>t, <2>1, <2>2, PartOfLonger
  <2>4. \E earlier \in Seq(Record) :
            /\ evaluation_history' = Append(earlier, NewRecord')
            /\ PartOf(evaluation_dataset', earlier)
    BY <1>t, <2>1, <2>2
  <2>5. QED  BY <2>3, <2>4 DEF DatasetFollows, PartOf
<1>2. CASE RecordDataset
  <2>1. PICK earlier \in Seq(Record) :
           /\ evaluation_history = Append(earlier, NewRecord)
           /\ PartOf(evaluation_dataset, earlier)
    BY <1>2 DEF RecordDataset, DatasetFollows
  <2>2. /\ evaluation_history' = evaluation_history /\ position' = "collected"
        /\ \/ evaluation_dataset' = evaluation_dataset
           \/ evaluation_dataset' = Append(evaluation_dataset, NewRecord)
    BY <1>2 DEF RecordDataset
  <2>3. NewRecord \in Record
    BY <1>2, <1>t DEF RecordDataset, InSend
  <2>4. PartOf(Append(evaluation_dataset, NewRecord), evaluation_history)
    BY <1>t, <2>1, <2>3, PartOfBoth
  <2>5. PartOf(evaluation_dataset', evaluation_history')
    BY <2>2, <2>4 DEF DatasetFollows
  <2>6. QED  BY <2>2, <2>5 DEF DatasetFollows, PartOf
<1>3. CASE /\ UNCHANGED <<evaluation_history, evaluation_dataset>>
           /\ position' # "recorded"
  <2>1. PartOf(evaluation_dataset', evaluation_history')
    BY <1>3 DEF DatasetFollows
  <2>2. QED  BY <1>3, <2>1 DEF DatasetFollows, PartOf
<1>4. CASE UNCHANGED vars
  BY <1>4 DEF vars, session, DatasetFollows, PartOf, NewRecord
<1>5. CASE \/ StartNewConversation \/ OpenConversation
           \/ ClearActiveConversation \/ ForgetLastRequest
           \/ SwitchConversation \/ ToggleEvaluationMode \/ Send \/ Retry
  BY <1>3, <1>5
     DEF StartNewConversation, OpenConversation, ClearActiveConversation,
         ForgetLastRequest, SwitchConversation, ToggleEvaluationMode, Send,
         Retry, Begin
<1>6. CASE \/ Call \/ ServeMessage \/ RefuseImage \/ ServeRetry \/ LoseRequest
           \/ ShowAnswer \/ KeepLastRequest \/ Interrupt \/ RestartServer
  BY <1>3, <1>6
     DEF Call, ServeMessage, RefuseImage, ServeRetry, LoseRequest, Return,
         ShowAnswer, KeepLastRequest, Interrupt, RestartServer, session
<1>7. QED  BY <1>1, <1>2, <1>4, <1>5, <1>6 DEF Next

\* Wherever runs were stopped and whatever was cleared, each record of the
\* history has its prompt and its answer in the conversation, and the dataset
\* holds records of the history, each once and in its order.
THEOREM RecordsAlwaysStand == Spec => []RecordsStand
<1>1. Init => DatasetFollows
  <2>1. ASSUME Init PROVE PartOf(evaluation_dataset, evaluation_history)
    <3>1. Len(evaluation_dataset) = 0 /\ Len(evaluation_history) = 0
      BY <2>1 DEF Init
    <3>2. 1..0 = {}
      OBVIOUS
    <3>3. [i \in 1..0 |-> i] \in [1..0 -> 1..0]
      OBVIOUS
    <3>4. QED  BY <3>1, <3>2, <3>3 DEF PartOf
  <2>2. QED  BY <2>1 DEF Init, DatasetFollows
<1>2. RecordsInv /\ DatasetFollows /\ [Next]_vars => DatasetFollows'
  BY StepDataset
<1>3. HistoryStands /\ DatasetFollows => RecordsStand
  BY DEF DatasetFollows, RecordsStand
<1>4. QED  BY <1>1, <1>2, <1>3, HistoryAlwaysStands, PTL DEF Spec

=============================================================================
