--------------------------- MODULE TranscriptProofs ---------------------------
(***************************************************************************)
(* Proofs that transcript rows keep the order of the conversation, for     *)
(* every value of the constants.  The server appends to the conversation   *)
(* and to the socket, O takes from the socket and numbers; whatever else   *)
(* the tasks do leaves the order alone.                                    *)
(***************************************************************************)
EXTENDS RealtimeBridgeProofs

numberVars == <<item_sequences, next_sequence>>
\* What the order of the transcripts depends on, the number of the row apart
orderVars == <<events, generationVars, turn, speeches, conversation,
               untranscribed, numberVars, transcripts>>

OrderTypeOK == ServerTypeOK /\ BridgeTypeOK

AboutItem(event) == event.type \in {"delta", "committed", "transcript"}

LEMMA ReceivedItem ==
    ASSUME NEW event \in Event, AboutItem(event)
    PROVE  event.item \in Items
BY EventFields DEF AboutItem, Items

-----------------------------------------------------------------------------
(* The server appends an event, and perhaps an item. *)

LEMMA EmitMentions ==
    ASSUME OrderTypeOK, NEW event \in Event, Emit(event)
    PROVE  /\ DOMAIN events' = DOMAIN events \cup {Len(events) + 1}
           /\ DOMAIN events = 1..Len(events)
           /\ \A k \in DOMAIN events, item \in Items :
                  Mentions(k, item)' <=> Mentions(k, item)
           /\ \A k \in DOMAIN events' \ DOMAIN events, item \in Items :
                  Mentions(k, item)' <=> AboutItem(event) /\ event.item = item
<1>1. events \in Seq(Event) BY DEF OrderTypeOK, ServerTypeOK
<1>2. events' = Append(events, event) BY DEF Emit
<1>3. /\ DOMAIN events' = DOMAIN events \cup {Len(events) + 1}
      /\ DOMAIN events = 1..Len(events)
      /\ \A k \in DOMAIN events : events'[k] = events[k]
      /\ events'[Len(events) + 1] = event
  BY <1>1, <1>2
<1> QED BY <1>3 DEF Mentions, AboutItem

LEMMA EnterItem ==
    ASSUME OrderTypeOK, NEW item \in Items, Enter(item)
    PROVE  /\ DOMAIN conversation' = DOMAIN conversation \cup {Len(conversation) + 1}
           /\ DOMAIN conversation = 1..Len(conversation)
           /\ \A n \in DOMAIN conversation : conversation'[n] = conversation[n]
           /\ conversation'[Len(conversation) + 1] = item
           /\ \A other \in Items :
                  InConversation(other)' <=> InConversation(other) \/ other = item
<1>1. conversation \in Seq(Items) BY DEF OrderTypeOK, ServerTypeOK
<1>2. conversation' = Append(conversation, item) BY DEF Enter
<1>3. /\ DOMAIN conversation' = DOMAIN conversation \cup {Len(conversation) + 1}
      /\ DOMAIN conversation = 1..Len(conversation)
      /\ \A n \in DOMAIN conversation : conversation'[n] = conversation[n]
      /\ conversation'[Len(conversation) + 1] = item
  BY <1>1, <1>2
<1> QED BY <1>3 DEF InConversation

LEMMA ConversationItems ==
    OrderTypeOK => \A n \in DOMAIN conversation : conversation[n] \in Items
BY DEF OrderTypeOK, ServerTypeOK

\* An event behind all others comes behind one for every unnumbered item
LEMMA EmitKeepsOrder ==
    ASSUME OrderTypeOK, MentionedInOrder, NEW event \in Event, Emit(event),
           UNCHANGED <<conversation, item_sequences>>
    PROVE  MentionedInOrder'
<1> DEFINE last == Len(events) + 1
<1>1. /\ DOMAIN events' = DOMAIN events \cup {last}
      /\ DOMAIN events = 1..Len(events)
      /\ \A k \in DOMAIN events, item \in Items :
             Mentions(k, item)' <=> Mentions(k, item)
  BY EmitMentions
<1>2. \A n \in DOMAIN conversation : conversation[n] \in Items
  BY ConversationItems
<1>3. (\A n \in DOMAIN conversation :
          \/ Numbered(conversation[n])
          \/ \E k \in DOMAIN events : Mentions(k, conversation[n]))'
  BY <1>1, <1>2 DEF MentionedInOrder, Numbered
<1>4. ASSUME NEW k \in DOMAIN events', NEW m \in DOMAIN conversation',
             NEW n \in DOMAIN conversation',
             m < n, Mentions(k, conversation[n])'
      PROVE  \/ Numbered(conversation[m])'
             \/ \E j \in 1..(k - 1) : Mentions(j, conversation[m])'
  <2>1. CASE k \in DOMAIN events
    <3>1. \/ Numbered(conversation[m])
          \/ \E j \in 1..(k - 1) : Mentions(j, conversation[m])
      BY <1>1, <1>2, <1>4, <2>1 DEF MentionedInOrder
    <3>2. 1..(k - 1) \subseteq DOMAIN events
      BY <1>1, <2>1 DEF OrderTypeOK, ServerTypeOK
    <3> QED BY <1>1, <1>2, <3>1, <3>2 DEF Numbered
  <2>2. CASE k = last
    <3>1. 1..(k - 1) = DOMAIN events
      BY <1>1, <2>2 DEF OrderTypeOK, ServerTypeOK
    <3> QED BY <1>1, <1>2, <3>1 DEF MentionedInOrder, Numbered
  <2> QED BY <1>1, <2>1, <2>2
<1> QED BY <1>3, <1>4 DEF MentionedInOrder

\* A new item enters the conversation with the event that mentions it
LEMMA EnterKeepsOrder ==
    ASSUME OrderTypeOK, AboutConversation, MentionedInOrder, NumberedInOrder,
           NEW item \in Items, ~InConversation(item), Enter(item),
           NEW event \in Event, Emit(event), AboutItem(event),
           event.item = item, UNCHANGED numberVars
    PROVE  MentionedInOrder' /\ NumberedInOrder'
<1> DEFINE last == Len(events) + 1
           new == Len(conversation) + 1
<1>1. /\ DOMAIN events' = DOMAIN events \cup {last}
      /\ DOMAIN events = 1..Len(events)
      /\ \A k \in DOMAIN events, other \in Items :
             Mentions(k, other)' <=> Mentions(k, other)
      /\ \A k \in DOMAIN events' \ DOMAIN events : Mentions(k, item)'
  BY EmitMentions
<1>2. /\ DOMAIN conversation' = DOMAIN conversation \cup {new}
      /\ DOMAIN conversation = 1..Len(conversation)
      /\ \A n \in DOMAIN conversation : conversation'[n] = conversation[n]
      /\ conversation'[new] = item
  BY EnterItem
<1>3. \A n \in DOMAIN conversation : conversation[n] \in Items
  BY ConversationItems
<1>4. ~Numbered(item) /\ \A k \in DOMAIN events : ~Mentions(k, item)
  BY DEF AboutConversation
<1>5. UNCHANGED item_sequences /\ UNCHANGED next_sequence BY DEF numberVars
<1>6. ASSUME NEW n \in DOMAIN conversation'
      PROVE  \/ Numbered(conversation[n])'
             \/ \E k \in DOMAIN events' : Mentions(k, conversation[n])'
  <2>1. CASE n \in DOMAIN conversation
    BY <1>1, <1>2, <1>3, <1>5, <2>1 DEF MentionedInOrder, Numbered
  <2>2. CASE n = new
    <3>1. last \in DOMAIN events' \ DOMAIN events
      BY <1>1 DEF OrderTypeOK, ServerTypeOK
    <3> QED BY <1>1, <1>2, <2>2, <3>1
  <2> QED BY <1>2, <2>1, <2>2
<1>7. ASSUME NEW m \in DOMAIN conversation', NEW n \in DOMAIN conversation', m < n
      PROVE  m \in DOMAIN conversation
  BY <1>2, <1>7 DEF OrderTypeOK, ServerTypeOK
<1>8. ASSUME NEW k \in DOMAIN events', NEW m \in DOMAIN conversation',
             NEW n \in DOMAIN conversation',
             m < n, Mentions(k, conversation[n])'
      PROVE  \/ Numbered(conversation[m])'
             \/ \E j \in 1..(k - 1) : Mentions(j, conversation[m])'
  <2>1. m \in DOMAIN conversation BY <1>7, <1>8
  <2>2. CASE k \in DOMAIN events
    <3>1. n \in DOMAIN conversation BY <1>1, <1>2, <1>4, <1>8, <2>2
    <3>2. \/ Numbered(conversation[m])
          \/ \E j \in 1..(k - 1) : Mentions(j, conversation[m])
      BY <1>1, <1>2, <1>3, <1>8, <2>1, <2>2, <3>1 DEF MentionedInOrder
    <3>3. 1..(k - 1) \subseteq DOMAIN events
      BY <1>1, <2>2 DEF OrderTypeOK, ServerTypeOK
    <3> QED BY <1>1, <1>2, <1>3, <1>5, <2>1, <3>2, <3>3 DEF Numbered
  <2>3. CASE k = last
    <3>1. 1..(k - 1) = DOMAIN events
      BY <1>1, <2>3 DEF OrderTypeOK, ServerTypeOK
    <3> QED BY <1>1, <1>2, <1>3, <1>5, <2>1, <3>1 DEF MentionedInOrder, Numbered
  <2> QED BY <1>1, <2>2, <2>3
<1>9. ASSUME NEW m \in DOMAIN conversation', NEW n \in DOMAIN conversation',
             m < n, Numbered(conversation[n])'
      PROVE  /\ Numbered(conversation[m])'
             /\ (item_sequences[conversation[m]] < item_sequences[conversation[n]])'
  <2>1. m \in DOMAIN conversation BY <1>7, <1>9
  <2>2. n \in DOMAIN conversation BY <1>2, <1>4, <1>5, <1>9 DEF Numbered
  <2> QED BY <1>2, <1>5, <1>9, <2>1, <2>2 DEF NumberedInOrder, Numbered
<1> QED BY <1>5, <1>6, <1>8, <1>9 DEF MentionedInOrder, NumberedInOrder

\* What no server step touches
ServerLeaves == UNCHANGED <<numberVars, transcripts, row, o_pc>>

LEMMA RowsKept == RowsNumbered /\ ServerLeaves => RowsNumbered'
BY DEF RowsNumbered, ServerLeaves, numberVars, Numbered

\* The steps of the server that only tell something: none enters an item
Tells ==
    \/ CreateRequested \/ CreateForTurn \/ RejectRequest \/ AudioDone
    \/ \E batch \in ToolBatches \cup {<<>>} : Done(batch)
    \/ Cancelled \/ SpeechStarted \/ APIError

LEMMA ToldEvent ==
    ASSUME OrderTypeOK, Tells
    PROVE  \E event \in Event : Emit(event) /\ ~AboutItem(event)
<1> USE DEF OrderTypeOK, ServerTypeOK, AboutItem, Event
<1>1. CASE CreateRequested \/ CreateForTurn
  <2>1. /\ Emit([type |-> "created", response |-> responses + 1])
        /\ responses < MaxResponses
    BY <1>1 DEF CreateRequested, CreateForTurn, StartResponse
  <2>2. responses + 1 \in Responses
    BY <2>1, AudioIdsAssumption DEF Responses
  <2>3. [type |-> "created", response |-> responses + 1] \in Event BY <2>2
  <2> QED BY <2>1, <2>3
<1>2. CASE RejectRequest \/ APIError BY <1>2 DEF RejectRequest, APIError
<1>3. CASE AudioDone BY <1>3 DEF AudioDone
<1>4. CASE \E batch \in ToolBatches \cup {<<>>} : Done(batch)
  BY <1>4 DEF Done, EndResponse
<1>5. CASE Cancelled BY <1>5 DEF Cancelled, EndResponse
<1>6. CASE SpeechStarted BY <1>6 DEF SpeechStarted
<1> QED BY <1>1, <1>2, <1>3, <1>4, <1>5, <1>6 DEF Tells

\* Responses and turns begin with no items of their own
LEMMA TellKeepsEntered ==
    ASSUME OrderTypeOK, EnteredOnce, Tells
    PROVE  /\ EnteredOnce'
           /\ UNCHANGED <<conversation, untranscribed>>
           /\ active' # 0 /\ stretch_open' =>
                  active # 0 /\ stretch_open /\ UNCHANGED <<active, stretch>>
<1> USE DEF EnteredOnce
<1>1. \A n \in DOMAIN conversation :
          conversation[n][1] \in Nat /\ conversation[n][2] \in Nat
  BY ConversationItems, AudioIdsAssumption
  DEF Items, AgentItems, RemoteItems, Responses
<1>2. CASE CreateRequested \/ CreateForTurn
  <2>1. PICK isGoodbye : StartResponse(isGoodbye)
    BY <1>2 DEF CreateRequested, CreateForTurn
  <2>2. UNCHANGED turn \/ turn' = "none"
    BY <1>2 DEF CreateRequested, CreateForTurn
  <2> QED
    BY <1>1, <2>1, <2>2 DEF StartResponse, OrderTypeOK, ServerTypeOK
<1>3. CASE SpeechStarted
  BY <1>1, <1>3 DEF SpeechStarted, OrderTypeOK, ServerTypeOK
<1>4. CASE RejectRequest \/ APIError
  BY <1>4 DEF RejectRequest, APIError, generationVars
<1>5. CASE AudioDone BY <1>5 DEF AudioDone
<1>6. CASE Cancelled \/ \E batch \in ToolBatches \cup {<<>>} : Done(batch)
  <2>1. PICK event : EndResponse(event) BY <1>6 DEF Cancelled, Done
  <2> QED BY <2>1 DEF EndResponse, OrderTypeOK, ServerTypeOK
<1> QED BY <1>2, <1>3, <1>4, <1>5, <1>6 DEF Tells

LEMMA TellKeepsOrder ==
    ASSUME OrderTypeOK, OrderInv, Tells, ServerLeaves
    PROVE  OrderInv'
<1> USE DEF OrderInv
<1>1. PICK event \in Event : Emit(event) /\ ~AboutItem(event) BY ToldEvent
<1>2. /\ EnteredOnce' /\ UNCHANGED <<conversation, untranscribed>>
      /\ active' # 0 /\ stretch_open' =>
             active # 0 /\ stretch_open /\ UNCHANGED <<active, stretch>>
  BY TellKeepsEntered
<1>3. UNCHANGED item_sequences /\ UNCHANGED next_sequence
  BY DEF ServerLeaves, numberVars
<1>4. AboutConversation'
  <2>1. \A k \in DOMAIN events', item \in Items :
            Mentions(k, item)' => k \in DOMAIN events /\ Mentions(k, item)
    BY <1>1, EmitMentions
  <2> QED
    BY <1>2, <1>3, <2>1 DEF AboutConversation, InConversation, Numbered
<1>5. MentionedInOrder' BY <1>1, <1>2, <1>3, EmitKeepsOrder
<1>6. NumberedInOrder' BY <1>2, <1>3 DEF NumberedInOrder, Numbered
<1> QED BY <1>2, <1>4, <1>5, <1>6, RowsKept

\* A further delta of a stretch, or the text of an item
LEMMA MentionKeepsOrder ==
    ASSUME OrderTypeOK, OrderInv, ServerLeaves,
           NEW item \in Items, InConversation(item),
           NEW event \in Event, Emit(event), event.item = item,
           untranscribed' \subseteq untranscribed,
           UNCHANGED <<active, stretch, stretch_open, responses, turn, speeches,
                       conversation>>
    PROVE  OrderInv'
<1> USE DEF OrderInv
<1>1. UNCHANGED item_sequences /\ UNCHANGED next_sequence
  BY DEF ServerLeaves, numberVars
<1>2. EnteredOnce' BY DEF EnteredOnce
<1>3. AboutConversation'
  <2>1. \A k \in DOMAIN events', other \in Items : Mentions(k, other)' =>
            \/ k \in DOMAIN events /\ Mentions(k, other)
            \/ other = item
    BY EmitMentions
  <2> QED BY <1>1, <2>1 DEF AboutConversation, InConversation, Numbered
<1>4. MentionedInOrder' BY <1>1, EmitKeepsOrder
<1>5. NumberedInOrder' BY <1>1 DEF NumberedInOrder, Numbered
<1> QED BY <1>2, <1>3, <1>4, <1>5, RowsKept

\* A new item is none of the conversation's, and is not open unless it was
\* entered just now
LEMMA EntryKeepsOrder ==
    ASSUME OrderTypeOK, OrderInv, ServerLeaves,
           NEW item \in Items, ~InConversation(item), Enter(item),
           NEW event \in Event, Emit(event), AboutItem(event),
           event.item = item,
           EnteredOnce',
           active' # 0 /\ stretch_open' =>
               \/ item = <<active', stretch'>>
               \/ active # 0 /\ stretch_open /\ UNCHANGED <<active, stretch>>
    PROVE  OrderInv'
<1> USE DEF OrderInv
<1>1. UNCHANGED numberVars /\ UNCHANGED item_sequences
  BY DEF ServerLeaves, numberVars
<1>2. MentionedInOrder' /\ NumberedInOrder' BY <1>1, EnterKeepsOrder
<1>3. AboutConversation'
  <2>1. /\ \A other \in Items :
               InConversation(other)' <=> InConversation(other) \/ other = item
        /\ \A n \in DOMAIN conversation :
               n \in DOMAIN conversation' /\ conversation'[n] = conversation[n]
        /\ \E n \in DOMAIN conversation' : conversation'[n] = item
    BY EnterItem
  <2>2. \A k \in DOMAIN events', other \in Items : Mentions(k, other)' =>
            \/ k \in DOMAIN events /\ Mentions(k, other)
            \/ other = item
    BY EmitMentions
  <2>3. untranscribed' \subseteq untranscribed \cup {item} BY DEF Enter
  <2>4. (active # 0 /\ stretch_open => InConversation(<<active, stretch>>))'
    BY <2>1 DEF AboutConversation, InConversation
  <2>5. (\A other \in Items :
             Numbered(other) \/ other \in untranscribed => InConversation(other))'
    BY <1>1, <2>1, <2>3 DEF AboutConversation, Numbered
  <2>6. (\A k \in DOMAIN events, other \in Items :
             Mentions(k, other) => InConversation(other))'
    BY <2>1, <2>2 DEF AboutConversation
  <2> QED BY <2>4, <2>5, <2>6 DEF AboutConversation
<1> QED BY <1>2, <1>3, RowsKept

LEMMA DeltaKeepsOrder ==
    ASSUME OrderTypeOK, OrderInv, NEW bytes \in DeltaBytes, Delta(bytes),
           ServerLeaves
    PROVE  OrderInv'
<1> DEFINE n == IF stretch_open THEN stretch ELSE stretch + 1
           item == <<active, n>>
           event == [type |-> "delta", response |-> active, item |-> item,
                     bytes |-> bytes]
<1>1. /\ active \in Responses /\ active # 0
      /\ n \in 1..MaxItems /\ stretch \in Nat
  BY AudioIdsAssumption DEF Delta, OrderTypeOK, ServerTypeOK, Responses
<1>2. item \in AgentItems /\ item \in Items BY <1>1 DEF AgentItems, Items
<1>3. event \in Event BY <1>1, <1>2 DEF Event
<1>4. Emit(event) /\ AboutItem(event) /\ event.item = item
  BY DEF Delta, AboutItem
<1>5. CASE stretch_open
  <2>1. InConversation(item)
    BY <1>1, <1>5 DEF OrderInv, AboutConversation
  <2>2. /\ UNCHANGED <<active, stretch, stretch_open, responses, turn, speeches,
                       conversation>>
        /\ untranscribed' \subseteq untranscribed
    BY <1>5 DEF Delta, OrderTypeOK, ServerTypeOK
  <2> QED BY <1>2, <1>3, <1>4, <2>1, <2>2, MentionKeepsOrder
<1>6. CASE ~stretch_open
  <2>1. /\ Enter(item) /\ stretch' = stretch + 1
        /\ UNCHANGED <<active, responses, turn, speeches>>
    BY <1>6 DEF Delta
  <2>2. ~InConversation(item)
    <3> SUFFICES ASSUME NEW k \in DOMAIN conversation, conversation[k] = item
                 PROVE  FALSE
      BY DEF InConversation
    <3>1. conversation[k][1] = active => conversation[k][2] <= stretch
      BY <1>1 DEF OrderInv, EnteredOnce
    <3> QED BY <1>1, <1>6, <3>1
  <2>3. EnteredOnce'
    <3>1. /\ DOMAIN conversation' = DOMAIN conversation \cup {Len(conversation) + 1}
          /\ \A k \in DOMAIN conversation : conversation'[k] = conversation[k]
          /\ conversation'[Len(conversation) + 1] = item
      BY <1>2, <2>1, EnterItem
    <3>2. ASSUME NEW k \in DOMAIN conversation
          PROVE  conversation[k][2] \in Nat /\ conversation[k] # item
      BY <2>2, ConversationItems, AudioIdsAssumption
      DEF InConversation, Items, AgentItems, RemoteItems
    <3>3. (\A k, m \in DOMAIN conversation :
              conversation[k] = conversation[m] => k = m)'
      BY <3>1, <3>2 DEF OrderInv, EnteredOnce
    <3>4. (active <= responses)' BY <2>1 DEF OrderInv, EnteredOnce
    <3>5. ASSUME NEW k \in DOMAIN conversation'
          PROVE  LET other == conversation'[k] IN
                   /\ other[1] <= responses'
                   /\ other[1] = 0 =>
                        /\ other[2] <= speeches'
                        /\ turn' = "talking" => other[2] < speeches'
                   /\ other[1] = active' => active' = 0 \/ other[2] <= stretch'
      <4>1. CASE k \in DOMAIN conversation
        BY <1>1, <2>1, <3>1, <3>2, <4>1 DEF OrderInv, EnteredOnce
      <4>2. CASE conversation'[k] = item
        BY <1>1, <1>6, <2>1, <4>2 DEF OrderInv, EnteredOnce
      <4> QED BY <3>1, <4>1, <4>2
    <3> QED BY <3>3, <3>4, <3>5 DEF EnteredOnce
  <2>4. item = <<active', stretch'>> BY <1>6, <2>1
  <2> QED BY <1>2, <1>3, <1>4, <2>1, <2>2, <2>3, <2>4, EntryKeepsOrder
<1> QED BY <1>5, <1>6

LEMMA CommitKeepsOrder ==
    ASSUME OrderTypeOK, OrderInv, Committed, ServerLeaves
    PROVE  OrderInv'
<1> DEFINE item == <<0, speeches>>
           event == [type |-> "committed", item |-> item]
<1>1. speeches \in 1..MaxSpeech
  BY AudioIdsAssumption DEF Committed, OrderTypeOK, ServerTypeOK
<1>2. item \in Items BY <1>1 DEF Items, RemoteItems
<1>3. event \in Event BY <1>2 DEF Event
<1>4. Emit(event) /\ AboutItem(event) /\ event.item = item
  BY DEF Committed, AboutItem
<1>5. /\ Enter(item) /\ turn = "talking" /\ turn' = "committed"
      /\ UNCHANGED <<generationVars, speeches>>
      /\ UNCHANGED <<active, responses, stretch, stretch_open>>
  BY DEF Committed, generationVars
<1>6. ~InConversation(item)
  <2> SUFFICES ASSUME NEW k \in DOMAIN conversation, conversation[k] = item
               PROVE  FALSE
    BY DEF InConversation
  <2>1. conversation[k][1] = 0 => conversation[k][2] < speeches
    BY <1>5 DEF OrderInv, EnteredOnce
  <2> QED BY <1>1, <2>1
<1>7. EnteredOnce'
  <2>1. /\ DOMAIN conversation' = DOMAIN conversation \cup {Len(conversation) + 1}
        /\ \A k \in DOMAIN conversation : conversation'[k] = conversation[k]
        /\ conversation'[Len(conversation) + 1] = item
    BY <1>2, <1>5, EnterItem
  <2>2. \A k \in DOMAIN conversation : conversation[k] # item
    BY <1>6 DEF InConversation
  <2>3. (\A k, m \in DOMAIN conversation :
            conversation[k] = conversation[m] => k = m)'
    BY <2>1, <2>2 DEF OrderInv, EnteredOnce
  <2>4. (active <= responses)' BY <1>5 DEF OrderInv, EnteredOnce
  <2>5. ASSUME NEW k \in DOMAIN conversation'
        PROVE  LET other == conversation'[k] IN
                 /\ other[1] <= responses'
                 /\ other[1] = 0 =>
                      /\ other[2] <= speeches'
                      /\ turn' = "talking" => other[2] < speeches'
                 /\ other[1] = active' => active' = 0 \/ other[2] <= stretch'
    <3>1. CASE k \in DOMAIN conversation
      BY <1>5, <2>1, <3>1 DEF OrderInv, EnteredOnce
    <3>2. CASE conversation'[k] = item
      BY <1>1, <1>5, <3>2 DEF OrderTypeOK, ServerTypeOK
    <3> QED BY <2>1, <3>1, <3>2
  <2> QED BY <2>3, <2>4, <2>5 DEF EnteredOnce
<1> QED BY <1>2, <1>3, <1>4, <1>5, <1>6, <1>7, EntryKeepsOrder

LEMMA TranscribedKeepsOrder ==
    ASSUME OrderTypeOK, OrderInv, NEW item \in untranscribed, Transcribed(item),
           ServerLeaves
    PROVE  OrderInv'
<1> DEFINE event == [type |-> "transcript", item |-> item]
<1>1. item \in Items BY DEF OrderTypeOK, ServerTypeOK
<1>2. event \in Event BY <1>1 DEF Event
<1>3. InConversation(item) BY <1>1 DEF OrderInv, AboutConversation
<1>4. /\ Emit(event) /\ event.item = item
      /\ untranscribed' \subseteq untranscribed
      /\ UNCHANGED <<active, stretch, stretch_open, responses, turn, speeches,
                     conversation>>
  BY DEF Transcribed, generationVars
<1> QED BY <1>1, <1>2, <1>3, <1>4, MentionKeepsOrder

LEMMA ServerKeepsOrder ==
    ASSUME OrderTypeOK, OrderInv, ServerStep, ServerLeaves
    PROVE  OrderInv'
BY TellKeepsOrder, DeltaKeepsOrder, CommitKeepsOrder, TranscribedKeepsOrder
DEF ServerStep, Tells
-----------------------------------------------------------------------------
(* O takes an event off the socket, and numbers the item it is about. *)

\* What taking an event off the socket leaves alone
ServerWaits ==
    UNCHANGED <<generationVars, turn, speeches, conversation, untranscribed>>

LEMMA TakeMentions ==
    ASSUME OrderTypeOK, events # <<>>, events' = Tail(events)
    PROVE  /\ 1 \in DOMAIN events /\ events[1] = Head(events)
           /\ DOMAIN events \subseteq Nat \ {0}
           /\ \A k \in DOMAIN events :
                  1..(k - 1) \subseteq DOMAIN events
           /\ \A k \in DOMAIN events : k # 1 => k - 1 \in DOMAIN events'
           /\ \A k \in DOMAIN events' :
                  /\ k \in Nat \ {0} /\ k + 1 \in DOMAIN events
                  /\ \A item \in Items :
                         Mentions(k, item)' <=> Mentions(k + 1, item)
<1>1. events \in Seq(Event) BY DEF OrderTypeOK, ServerTypeOK
<1>2. /\ 1 \in DOMAIN events /\ events[1] = Head(events)
      /\ DOMAIN events \subseteq Nat \ {0}
      /\ \A k \in DOMAIN events : 1..(k - 1) \subseteq DOMAIN events
      /\ \A k \in DOMAIN events : k # 1 => k - 1 \in DOMAIN events'
      /\ \A k \in DOMAIN events' :
             /\ k \in Nat \ {0} /\ k + 1 \in DOMAIN events
             /\ events'[k] = events[k + 1]
  BY <1>1
<1> QED BY <1>2 DEF Mentions

\* Whatever the event at the head mentions is numbered once it is taken
LEMMA TakeKeepsMentions ==
    ASSUME OrderTypeOK, MentionedInOrder, events # <<>>,
           events' = Tail(events), UNCHANGED conversation,
           \A item \in Items : Numbered(item) => Numbered(item)',
           \A item \in Items : Mentions(1, item) => Numbered(item)'
    PROVE  MentionedInOrder'
<1>1. \A n \in DOMAIN conversation : conversation[n] \in Items
  BY ConversationItems
<1>2. ASSUME NEW n \in DOMAIN conversation'
      PROVE  \/ Numbered(conversation[n])'
             \/ \E k \in DOMAIN events' : Mentions(k, conversation[n])'
  <2>1. ~Numbered(conversation[n]) =>
            \E k \in DOMAIN events : Mentions(k, conversation[n])
    BY DEF MentionedInOrder
  <2>2. CASE \E k \in DOMAIN events : k # 1 /\ Mentions(k, conversation[n])
    <3>1. PICK k \in DOMAIN events : k # 1 /\ Mentions(k, conversation[n])
      BY <2>2
    <3>2. k - 1 \in DOMAIN events' /\ (k - 1) + 1 = k
      BY <3>1, TakeMentions
    <3>3. \E j \in DOMAIN events' : j + 1 = k BY <3>2
    <3> QED BY <1>1, <3>1, <3>3, TakeMentions
  <2>3. CASE Numbered(conversation[n]) \/ Mentions(1, conversation[n])
    <3>1. \A item \in Items : Numbered(item) \/ Mentions(1, item) => Numbered(item)'
      OBVIOUS
    <3> QED BY <1>1, <2>3, <3>1 DEF Numbered
  <2> QED BY <2>1, <2>2, <2>3
<1>3. ASSUME NEW k \in DOMAIN events', NEW m \in DOMAIN conversation',
             NEW n \in DOMAIN conversation',
             m < n, Mentions(k, conversation[n])'
      PROVE  \/ Numbered(conversation[m])'
             \/ \E j \in 1..(k - 1) : Mentions(j, conversation[m])'
  <2>1. k + 1 \in DOMAIN events /\ Mentions(k + 1, conversation[n])
    BY <1>1, <1>3, TakeMentions
  <2>2. \/ Numbered(conversation[m])
        \/ \E j \in 1..((k + 1) - 1) : Mentions(j, conversation[m])
    BY <1>3, <2>1 DEF MentionedInOrder
  <2>3. CASE \E j \in 1..((k + 1) - 1) : j # 1 /\ Mentions(j, conversation[m])
    <3>1. PICK j \in 1..((k + 1) - 1) : j # 1 /\ Mentions(j, conversation[m])
      BY <2>3
    <3>2. k \in Nat /\ j \in DOMAIN events BY <2>1, TakeMentions
    <3>3. j - 1 \in DOMAIN events' /\ j - 1 \in 1..(k - 1) /\ (j - 1) + 1 = j
      BY <3>1, <3>2, TakeMentions
    <3>4. PICK i \in 1..(k - 1) : i \in DOMAIN events' /\ i + 1 = j BY <3>3
    <3> QED BY <1>1, <3>1, <3>4, TakeMentions
  <2>4. CASE Numbered(conversation[m]) \/ Mentions(1, conversation[m])
    <3>1. \A item \in Items : Numbered(item) \/ Mentions(1, item) => Numbered(item)'
      OBVIOUS
    <3> QED BY <1>1, <2>4, <3>1 DEF Numbered
  <2> QED BY <2>2, <2>3, <2>4
<1> QED BY <1>2, <1>3 DEF MentionedInOrder

LEMMA TakeKeepsAbout ==
    ASSUME OrderTypeOK, AboutConversation, events # <<>>,
           events' = Tail(events), ServerWaits,
           \A item \in Items :
               Numbered(item)' => Numbered(item) \/ InConversation(item)
    PROVE  AboutConversation'
<1>1. UNCHANGED <<active, stretch, stretch_open, conversation, untranscribed>>
  BY DEF ServerWaits, generationVars
<1>2. (active # 0 /\ stretch_open => InConversation(<<active, stretch>>))'
  BY <1>1 DEF AboutConversation, InConversation
<1>3. (\A item \in Items :
           Numbered(item) \/ item \in untranscribed => InConversation(item))'
  BY <1>1 DEF AboutConversation, InConversation
<1>4. (\A k \in DOMAIN events, item \in Items :
           Mentions(k, item) => InConversation(item))'
  BY <1>1, TakeMentions DEF AboutConversation, InConversation
<1> QED BY <1>2, <1>3, <1>4 DEF AboutConversation

\* _sequence_for_item: a first mention finds all earlier items numbered
LEMMA NumberStep ==
    ASSUME OrderTypeOK, OrderInv, NEW item \in Items, Mentions(1, item),
           1 \in DOMAIN events, SequenceForItem(item), UNCHANGED conversation
    PROVE  /\ \A other \in Items :
                  Numbered(other)' <=> Numbered(other) \/ other = item
           /\ \A other \in Items : Numbered(other) =>
                  item_sequences'[other] = item_sequences[other]
           /\ NumberedInOrder'
<1> USE DEF OrderInv
<1>1. /\ item_sequences \in [Items -> Nat] /\ next_sequence \in Nat
      /\ \A n \in DOMAIN conversation : conversation[n] \in Items
  BY ConversationItems DEF OrderTypeOK, BridgeTypeOK
<1>2. next_sequence # 0
  BY <1>1 DEF NumberedInOrder
<1>3. CASE Numbered(item)
  <2>1. UNCHANGED item_sequences /\ UNCHANGED next_sequence
    BY <1>3 DEF SequenceForItem, Numbered
  <2> QED BY <1>3, <2>1 DEF NumberedInOrder, Numbered
<1>4. CASE ~Numbered(item)
  <2>1. /\ item_sequences' = [item_sequences EXCEPT ![item] = next_sequence]
        /\ next_sequence' = next_sequence + 1
    BY <1>4 DEF SequenceForItem, Numbered
  <2>2. /\ item_sequences'[item] = next_sequence
        /\ \A other \in Items \ {item} :
               item_sequences'[other] = item_sequences[other]
    BY <1>1, <2>1
  <2>3. \A other \in Items :
            Numbered(other)' <=> Numbered(other) \/ other = item
    BY <1>2, <2>2 DEF Numbered
  <2>4. \A other \in Items : Numbered(other) =>
            item_sequences'[other] = item_sequences[other]
    BY <1>4, <2>2
  <2>5. \A other \in Items : item_sequences'[other] < next_sequence'
    BY <1>1, <2>1, <2>2 DEF NumberedInOrder
  <2>6. ASSUME NEW m \in DOMAIN conversation, NEW n \in DOMAIN conversation,
               m < n, Numbered(conversation[n]) \/ conversation[n] = item
        PROVE  /\ Numbered(conversation[m])
               /\ item_sequences'[conversation[m]] < item_sequences'[conversation[n]]
    <3>1. CASE Numbered(conversation[n])
      BY <1>1, <2>4, <2>6, <3>1 DEF NumberedInOrder
    <3>2. CASE conversation[n] = item
      <4>1. Numbered(conversation[m]) \/ \E j \in 1..(1 - 1) : Mentions(j, conversation[m])
        BY <2>6, <3>2 DEF MentionedInOrder
      <4>2. Numbered(conversation[m]) BY <4>1
      <4>3. item_sequences[conversation[m]] < next_sequence
        BY <1>1 DEF NumberedInOrder
      <4> QED BY <1>1, <2>2, <2>4, <3>2, <4>2, <4>3
    <3> QED BY <2>6, <3>1, <3>2
  <2>7. NumberedInOrder'
    <3>1. \A n \in DOMAIN conversation : Numbered(conversation[n])' <=>
              Numbered(conversation[n]) \/ conversation[n] = item
      BY <1>1, <2>3 DEF Numbered
    <3> QED BY <2>5, <2>6, <3>1 DEF NumberedInOrder
  <2> QED BY <2>3, <2>4, <2>7
<1> QED BY <1>3, <1>4

LEMMA EnteredKept == EnteredOnce /\ ServerWaits => EnteredOnce'
BY DEF EnteredOnce, ServerWaits, generationVars

\* The events O numbers an item for
LEMMA TakeMentionKeepsOrder ==
    ASSUME OrderTypeOK, OrderInv, events # <<>>, AboutItem(Head(events)),
           events' = Tail(events), ServerWaits,
           SequenceForItem(Head(events).item), UNCHANGED transcripts,
           o_pc' = "store_transcript" => row' = Head(events).item
    PROVE  OrderInv'
<1> DEFINE item == Head(events).item
<1> USE DEF OrderInv
<1>1. UNCHANGED conversation BY DEF ServerWaits
<1>2. 1 \in DOMAIN events /\ events[1] = Head(events) BY TakeMentions
<1>3. item \in Items
  <2>1. Head(events) \in Event BY <1>2 DEF OrderTypeOK, ServerTypeOK
  <2> QED BY <2>1, ReceivedItem
<1>4. \A other \in Items : Mentions(1, other) <=> other = item
  BY <1>2 DEF Mentions, AboutItem
<1>5. /\ \A other \in Items :
             Numbered(other)' <=> Numbered(other) \/ other = item
      /\ \A other \in Items : Numbered(other) =>
             item_sequences'[other] = item_sequences[other]
      /\ NumberedInOrder'
  BY <1>1, <1>2, <1>3, <1>4, NumberStep
<1>6. InConversation(item) BY <1>2, <1>3, <1>4 DEF AboutConversation
<1>7. AboutConversation' BY <1>5, <1>6, TakeKeepsAbout
<1>8. MentionedInOrder' BY <1>1, <1>4, <1>5, TakeKeepsMentions
<1>9. RowsNumbered'
  <2>1. \A t \in transcripts : t.item \in Items
    BY DEF OrderTypeOK, BridgeTypeOK
  <2>2. item_sequences'[item] # 0 BY <1>3, <1>5 DEF Numbered
  <2>3. (o_pc = "store_transcript" => Numbered(row))' BY <2>2 DEF Numbered
  <2>4. (\A t \in transcripts : Numbered(t.item) /\ t.sequence = item_sequences[t.item])'
    BY <1>5, <2>1 DEF RowsNumbered, Numbered
  <2> QED BY <2>3, <2>4 DEF RowsNumbered
<1> QED BY <1>5, <1>7, <1>8, <1>9, EnteredKept

\* The other events
LEMMA TakeOtherKeepsOrder ==
    ASSUME OrderTypeOK, OrderInv, events # <<>>, ~AboutItem(Head(events)),
           events' = Tail(events), ServerWaits,
           UNCHANGED <<numberVars, transcripts>>, o_pc' # "store_transcript"
    PROVE  OrderInv'
<1> USE DEF OrderInv
<1>1. UNCHANGED conversation BY DEF ServerWaits
<1>2. UNCHANGED item_sequences /\ UNCHANGED next_sequence BY DEF numberVars
<1>3. \A item \in Items : ~Mentions(1, item)
  BY TakeMentions DEF Mentions, AboutItem
<1>4. \A item \in Items : Numbered(item)' <=> Numbered(item)
  BY <1>2 DEF Numbered
<1>5. AboutConversation' BY <1>4, TakeKeepsAbout
<1>6. MentionedInOrder' BY <1>1, <1>3, <1>4, TakeKeepsMentions
<1>7. NumberedInOrder' BY <1>1, <1>2 DEF NumberedInOrder, Numbered
<1>8. RowsNumbered' BY <1>2 DEF RowsNumbered, Numbered
<1> QED BY <1>5, <1>6, <1>7, <1>8, EnteredKept
-----------------------------------------------------------------------------
(* The steps of the bridge *)

\* The order is left alone; a transcript that waits for its row goes on waiting
LEMMA OrderSame ==
    ASSUME OrderTypeOK, OrderInv, UNCHANGED orderVars,
           o_pc' = "store_transcript" => o_pc = "store_transcript" /\ UNCHANGED row
    PROVE  OrderInv'
<1> USE DEF OrderInv
<1>1. /\ UNCHANGED <<events, conversation, untranscribed, item_sequences>>
      /\ UNCHANGED <<next_sequence, transcripts, active, stretch, stretch_open>>
      /\ ServerWaits
  BY DEF orderVars, generationVars, numberVars, ServerWaits
<1>2. EnteredOnce' BY <1>1, EnteredKept
<1>3. AboutConversation'
  BY <1>1 DEF AboutConversation, InConversation, Numbered, Mentions
<1>4. MentionedInOrder' BY <1>1 DEF MentionedInOrder, Numbered, Mentions
<1>5. NumberedInOrder' BY <1>1 DEF NumberedInOrder, Numbered
<1>6. RowsNumbered' BY <1>1 DEF RowsNumbered, Numbered
<1> QED BY <1>2, <1>3, <1>4, <1>5, <1>6

\* A stored row carries the number its item has had since it was mentioned
LEMMA StoreKeepsOrder ==
    ASSUME OrderTypeOK, OrderInv, OStoreTranscript
    PROVE  OrderInv'
<1> USE DEF OrderInv
<1>1. /\ UNCHANGED <<events, conversation, untranscribed, item_sequences>>
      /\ UNCHANGED <<next_sequence, active, stretch, stretch_open>>
      /\ ServerWaits
  BY DEF OStoreTranscript, serverVars, generationVars, ServerWaits
<1>2. EnteredOnce' BY <1>1, EnteredKept
<1>3. AboutConversation'
  BY <1>1 DEF AboutConversation, InConversation, Numbered, Mentions
<1>4. MentionedInOrder' BY <1>1 DEF MentionedInOrder, Numbered, Mentions
<1>5. NumberedInOrder' BY <1>1 DEF NumberedInOrder, Numbered
<1>6. RowsNumbered'
  <2>1. Numbered(row) BY DEF OStoreTranscript, OAt, RowsNumbered
  <2>2. o_pc' # "store_transcript" BY DEF OStoreTranscript, Storing
  <2>3. \A t \in transcripts' : t \in transcripts \/
            t = [item |-> row, sequence |-> item_sequences[row]]
    BY DEF OStoreTranscript
  <2> QED BY <1>1, <2>1, <2>2, <2>3 DEF RowsNumbered, Numbered
<1> QED BY <1>2, <1>3, <1>4, <1>5, <1>6

LEMMA ReceiveTakes ==
    ASSUME NEW type, Receive(type)
    PROVE  /\ events # <<>> /\ Head(events).type = type
           /\ events' = Tail(events) /\ ServerWaits /\ o_pc = "recv"
BY DEF Receive, ServerWaits, OAt

LEMMA ReceiveKeepsOrder ==
    ASSUME OrderTypeOK, OrderInv,
           \/ ODelta \/ OCommitted \/ OTranscript \/ OSpeechStarted
           \/ OAudioDone \/ OCancelled \/ ODone \/ OCreated \/ OError
    PROVE  OrderInv'
<1>1. CASE ODelta
  <2>1. Receive("delta") /\ SequenceForItem(Head(events).item)
    BY <1>1 DEF ODelta
  <2>2. UNCHANGED transcripts /\ o_pc' \in {o_pc, "send_media"}
    BY <1>1 DEF ODelta
  <2> QED
    BY <2>1, <2>2, ReceiveTakes, TakeMentionKeepsOrder DEF AboutItem
<1>2. CASE OCommitted
  <2>1. Receive("committed") /\ SequenceForItem(Head(events).item)
    BY <1>2 DEF OCommitted
  <2>2. UNCHANGED transcripts /\ UNCHANGED o_pc BY <1>2 DEF OCommitted
  <2> QED
    BY <2>1, <2>2, ReceiveTakes, TakeMentionKeepsOrder DEF AboutItem
<1>3. CASE OTranscript
  <2>1. Receive("transcript") /\ SequenceForItem(Head(events).item)
    BY <1>3 DEF OTranscript
  <2>2. UNCHANGED transcripts /\ row' = Head(events).item
    BY <1>3 DEF OTranscript
  <2> QED
    BY <2>1, <2>2, ReceiveTakes, TakeMentionKeepsOrder DEF AboutItem
<1>4. CASE \/ OSpeechStarted \/ OAudioDone \/ OCancelled \/ ODone \/ OCreated
           \/ OError
  <2>1. PICK type \in {"speech_started", "audio_done", "cancelled", "done",
                       "created", "error"} : Receive(type)
    BY <1>4 DEF OSpeechStarted, OAudioDone, OCancelled, ODone, OCreated, OError,
                OForward
  <2>2. /\ UNCHANGED transcriptVars
        /\ o_pc' \in {o_pc, "speech_event", "hung_up", "recv", "tool_event",
                      "completed_event", "event", "finished"}
    BY <1>4 DEF OSpeechStarted, OAudioDone, OCancelled, ODone, OCreated, OError,
                OForward
  <2>3. UNCHANGED <<numberVars, transcripts>>
    BY <2>2 DEF transcriptVars, numberVars
  <2> QED
    BY <2>1, <2>2, <2>3, ReceiveTakes, TakeOtherKeepsOrder DEF AboutItem
<1> QED BY <1>1, <1>2, <1>3, <1>4

\* The other steps of O, at an await behind the event they answer
OBehind ==
    \/ OSendMedia \/ OSendMark \/ OInterrupt \/ OSpeechEventFails
    \/ OInterruptEvent \/ OTruncate \/ OClear \/ OCompletedEvent \/ OEvent
    \/ OToolEvent \/ OToolAwait \/ OSubmitTool \/ ORequestResponse
    \/ ODisconnect \/ OCancel

LEMMA RequestLeaves ==
    ASSUME NEW isGoodbye, RequestResponse(isGoodbye), UNCHANGED transcriptVars
    PROVE  UNCHANGED orderVars
BY DEF RequestResponse, orderVars, generationVars, transcriptVars, numberVars

LEMMA ServerLeft ==
    ASSUME UNCHANGED serverVars, UNCHANGED transcriptVars
    PROVE  UNCHANGED orderVars
BY DEF serverVars, orderVars, generationVars, transcriptVars, numberVars

LEMMA BehindKeepsOrder ==
    ASSUME OrderTypeOK, OrderInv, OBehind
    PROVE  OrderInv'
<1>1. UNCHANGED transcriptVars
  BY DEF OBehind, OSendMedia, OSendMark, OInterrupt, OSpeechEventFails,
         OInterruptEvent, OTruncate, OClear, OCompletedEvent, OEvent, OToolEvent,
         OToolAwait, OSubmitTool, ORequestResponse, ODisconnect, OCancel, OAwait
<1>2. UNCHANGED serverVars \/ RequestResponse(finish_requested)
  BY DEF OBehind, OSendMedia, OSendMark, OInterrupt, OSpeechEventFails,
         OInterruptEvent, OTruncate, OClear, OCompletedEvent, OEvent, OToolEvent,
         OToolAwait, OSubmitTool, ORequestResponse, ODisconnect, OCancel, OAwait
<1>3. o_pc' # "store_transcript"
  <2>1. CASE \/ OSendMedia \/ OSendMark \/ OInterrupt \/ OSpeechEventFails
             \/ OInterruptEvent \/ OTruncate \/ OCompletedEvent \/ OEvent
    BY <2>1 DEF OSendMedia, OSendMark, OInterrupt, OSpeechEventFails,
                OInterruptEvent, OTruncate, OCompletedEvent, OEvent, OAwait,
                Storing
  <2>2. CASE OClear BY <2>2 DEF OClear, OClearing, OAt
  <2>3. CASE \/ OToolEvent \/ OToolAwait \/ OSubmitTool \/ ORequestResponse
             \/ ODisconnect \/ OCancel
    BY <2>3 DEF OToolEvent, OToolAwait, OSubmitTool, ORequestResponse,
                ODisconnect, OCancel, OAwait, Storing
  <2> QED BY <2>1, <2>2, <2>3 DEF OBehind
<1> QED BY <1>1, <1>2, <1>3, RequestLeaves, ServerLeft, OrderSame

LEMMA OrderStep ==
    ASSUME TypeOK, OrderInv, [Next]_vars
    PROVE  OrderInv'
<1> USE DEF OrderTypeOK
<1>1. OrderTypeOK BY DEF TypeOK
<1>2. CASE Run
  <2>1. UNCHANGED <<o_pc, transcriptVars>> /\ UNCHANGED row
    BY <1>2 DEF Run, Connect, ConnectedEvent, Configure, RelayEnds, Close,
                DisconnectedEvent, RunUnchanged, transcriptVars
  <2>2. UNCHANGED serverVars \/ RequestResponse(FALSE)
    BY <1>2 DEF Run, Connect, ConnectedEvent, Configure, RelayEnds, Close,
                DisconnectedEvent
  <2> QED BY <1>1, <2>1, <2>2, RequestLeaves, ServerLeft, OrderSame
<1>3. CASE T
  <2>1. TUnchanged
    BY <1>3 DEF T, TMark, TMedia, TAppend, TStop, TStopEvent, TDisconnect,
                TCancel, TAwait
  <2>2. UNCHANGED <<serverVars, transcriptVars, o_pc>> /\ UNCHANGED row
    BY <2>1 DEF TUnchanged, transcriptVars
  <2> QED BY <1>1, <2>2, ServerLeft, OrderSame
<1>4. CASE O
  BY <1>1, <1>4, ReceiveKeepsOrder, StoreKeepsOrder, BehindKeepsOrder
  DEF O, OBehind
<1>5. CASE OpenAI
  <2>1. ServerStep /\ ServerLeaves
    BY <1>5 DEF OpenAI, BridgeUnchanged, ServerLeaves, transcriptVars, numberVars
  <2> QED BY <1>1, <2>1, ServerKeepsOrder
<1>6. CASE Twilio \/ LoseOpenAI \/ LoseTwilio
  <2>1. UNCHANGED <<serverVars, transcriptVars, o_pc>> /\ UNCHANGED row
    BY <1>6 DEF Twilio, LoseOpenAI, LoseTwilio, BridgeUnchanged, transcriptVars
  <2> QED BY <1>1, <2>1, ServerLeft, OrderSame
<1>7. CASE UNCHANGED vars
  <2>1. UNCHANGED <<serverVars, transcriptVars, o_pc>> /\ UNCHANGED row
    BY <1>7 DEF vars, transcriptVars
  <2> QED BY <1>1, <2>1, ServerLeft, OrderSame
<1> QED BY <1>2, <1>3, <1>4, <1>5, <1>6, <1>7 DEF Next

LEMMA OrderInit == Init => OrderInv
<1> SUFFICES ASSUME Init PROVE OrderInv OBVIOUS
<1> USE DEF Init, ServerInit
<1>1. EnteredOnce BY DEF EnteredOnce
<1>2. AboutConversation BY DEF AboutConversation, Numbered, Mentions
<1>3. MentionedInOrder BY DEF MentionedInOrder
<1>4. NumberedInOrder BY DEF NumberedInOrder
<1>5. RowsNumbered BY DEF RowsNumbered
<1> QED BY <1>1, <1>2, <1>3, <1>4, <1>5 DEF OrderInv

\* The invariant of BridgeInvariant holds in every reachable state: what it
\* says of the tracker, and that items are numbered in the order in which the
\* conversation took them, also those the bridge has not heard of yet.
THEOREM Invariant == Spec => []IInv
<1>1. Init => OrderInv BY OrderInit
<1>2. TypeOK /\ OrderInv /\ [Next]_vars => OrderInv' BY OrderStep
<1>3. Spec => []OrderInv BY <1>1, <1>2, TypeCorrect, PTL DEF Spec
<1>4. TrackingInv /\ OrderInv => IInv BY DEF IInv
<1> QED BY <1>3, <1>4, TrackingInvariant, PTL

\* _sequence_for_item numbers the transcript rows in the order their items
\* entered the conversation, however late the texts arrive.
THEOREM TranscriptsInOrder == Spec => []TranscriptOrder
<1>1. IInv => TranscriptOrder
  <2> SUFFICES ASSUME IInv,
                      NEW a \in transcripts, NEW b \in transcripts,
                      NEW m \in DOMAIN conversation, NEW n \in DOMAIN conversation,
                      conversation[m] = a.item, conversation[n] = b.item, m < n
               PROVE  a.sequence < b.sequence
    BY DEF TranscriptOrder
  <2>1. /\ Numbered(b.item)
        /\ a.sequence = item_sequences[a.item]
        /\ b.sequence = item_sequences[b.item]
    BY DEF IInv, OrderInv, RowsNumbered
  <2> QED BY <2>1 DEF IInv, OrderInv, NumberedInOrder
<1> QED BY <1>1, Invariant, PTL

=============================================================================
