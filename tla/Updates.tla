------------------------------ MODULE Updates ------------------------------
(***************************************************************************)
(* The bot's edge: Telegram updates, UpdateHandler.handle and the agent    *)
(* conversation of a chat.  aiogram runs every update as an asyncio task   *)
(* of one process, so an action is the work of one task between two        *)
(* awaits.  The database survives a crash; tasks and the session map do    *)
(* not, and Telegram delivers again what was not confirmed.                *)
(***************************************************************************)
EXTENDS Integers, Sequences

CONSTANTS
  Owners,       \* Telegram users
  Chats,        \* chats they write from
  Groups,       \* chats with a negative id, which set_preference refuses
  Messages,     \* messages the owners may send
  MaxUpdates,   \* bound: messages ever sent
  MaxFaults     \* bound: restarts of the process, and exceptions from the
                \* database, Telegram or the agent

NoChat    == "none"
NoSession == 0
UpdateIds == 1..MaxUpdates

Kinds == {"text", "/new", "voice", "photo", "other"}

ASSUME UpdatesAssumption ==
  /\ MaxUpdates \in Nat /\ MaxFaults \in Nat
  /\ Groups \subseteq Chats
  /\ NoChat \notin Chats
  /\ Messages \subseteq [owner: Owners, chat: Chats, kind: Kinds]

VARIABLES
  inbox,      \* messages sent so far; the update_id is the position
  confirmed,  \* last update Telegram will not deliver again
  polled,     \* last update get_updates has returned to this process
  processed,  \* processed_updates
  ownerChat,  \* preference owner_chat_id by Owner
  session,    \* _session_ids: the conversation each chat resumes
  task,       \* the handler task of each update in this process
  memory,     \* the turns each conversation holds, kept by the agent SDK
  faults,     \* restarts and exceptions so far
  turns,      \* history: agent turns started for each update
  answers,    \* history: answers to each update that reached the chat
  since,      \* history: turns of each chat since its last "/new"
  calm        \* history: since then nothing of the chat overlapped or failed

telegram == <<inbox, confirmed, polled>>
database == <<processed, ownerChat>>
agent    == <<session, memory, turns, since>>
vars     == <<telegram, database, agent, faults, task, answers, calm>>

-----------------------------------------------------------------------------
(* Tasks *)

\* Where a task stands: pc is the await it is to come back from.
Task(pc) == [pc |-> pc, seen |-> NoChat, resume |-> NoSession]

Sent        == 1..Len(inbox)
ChatOf(u)   == inbox[u].chat
OwnerOf(u)  == inbox[u].owner
At(u, pc)   == task[u].pc = pc
Goto(u, pc) == task' = [task EXCEPT ![u].pc = pc]

\* Nothing more will happen to u: its task has ended, or died after Telegram
\* had its confirmation.
Over(u) == task[u].pc \in {"done", "failed"} \/ (At(u, "none") /\ u <= confirmed)

\* Messages of a chat that are waiting or being handled.
Unfinished(chat) == {u \in Sent : ChatOf(u) = chat /\ ~Over(u)}

\* A claim, a preference and a conversation turn all happen in awaits that
\* leave this much alone.
Quietly == UNCHANGED <<telegram, agent, faults, answers, calm>>

-----------------------------------------------------------------------------
(* Telegram *)

\* An owner sends a message.
Send(m) ==
  /\ Len(inbox) < MaxUpdates
  /\ inbox' = Append(inbox, m)
  /\ calm'  = [calm EXCEPT ![m.chat] = @ /\ Unfinished(m.chat) = {}]
  /\ UNCHANGED <<confirmed, polled, database, agent, faults, task, answers>>

\* getUpdates: the request confirms what the last one returned, the response
\* brings the next updates, and each becomes a task.
Poll(last) ==
  /\ last \in polled..Len(inbox)
  /\ <<polled, last>> # <<confirmed, polled>>
  /\ confirmed' = polled
  /\ polled'    = last
  /\ task' = [u \in UpdateIds |-> IF u \in polled + 1..last THEN Task("claim") ELSE task[u]]
  /\ UNCHANGED <<inbox, database, agent, faults, answers, calm>>

-----------------------------------------------------------------------------
(* UpdateHandler.handle *)

\* (mutant) The claim does not look whether the update was recorded before.
ClaimAlways(u) ==
  /\ At(u, "claim")
  /\ processed' = processed \cup {u}
  /\ Goto(u, "load_chat")
  /\ UNCHANGED ownerChat
  /\ Quietly

\* try_record and its commit.  An update without text, voice or photo, and one
\* recorded before, are dropped.
Claim(u) ==
  /\ At(u, "claim")
  /\ IF inbox[u].kind = "other" \/ u \in processed
       THEN Goto(u, "done") /\ UNCHANGED processed
       ELSE Goto(u, "load_chat") /\ processed' = processed \cup {u}
  /\ UNCHANGED ownerChat
  /\ Quietly

\* (mutant) The id of a group is stored like any other.
LoadAnyChat(u) ==
  /\ At(u, "load_chat")
  /\ task' = [task EXCEPT ![u].pc = "write_chat", ![u].seen = ownerChat[OwnerOf(u)]]
  /\ UNCHANGED database
  /\ Quietly

\* set_preference(owner_chat_id) loads the row; the id of a group is no digit
\* string, and the refusal is ignored.
LoadOwnerChat(u) ==
  /\ At(u, "load_chat")
  /\ IF ChatOf(u) \in Groups
       THEN Goto(u, "listen")
       ELSE task' = [task EXCEPT ![u].pc = "write_chat", ![u].seen = ownerChat[OwnerOf(u)]]
  /\ UNCHANGED database
  /\ Quietly

\* (mutant) set_preference always inserts.
InsertOwnerChat(u) ==
  /\ At(u, "write_chat")
  /\ IF ownerChat[OwnerOf(u)] # NoChat
       THEN Goto(u, "failed") /\ UNCHANGED ownerChat
       ELSE Goto(u, "listen") /\ ownerChat' = [ownerChat EXCEPT ![OwnerOf(u)] = ChatOf(u)]
  /\ UNCHANGED <<telegram, processed, agent, faults, answers, calm>>

\* set_preference writes and commits: an INSERT where it saw no row, which
\* violates the primary key if another task has inserted one since.
WriteOwnerChat(u) ==
  /\ At(u, "write_chat")
  /\ IF task[u].seen = NoChat /\ ownerChat[OwnerOf(u)] # NoChat
       THEN /\ Goto(u, "failed")
            /\ calm' = [calm EXCEPT ![ChatOf(u)] = FALSE]
            /\ UNCHANGED ownerChat
       ELSE /\ Goto(u, "listen")
            /\ ownerChat' = [ownerChat EXCEPT ![OwnerOf(u)] = ChatOf(u)]
            /\ UNCHANGED calm
  /\ UNCHANGED <<telegram, processed, agent, faults, answers>>

\* What Whisper makes of a voice note: any text, or "unclear" for a request that
\* fails, an answer that is no answer and an empty text alike.
Transcribed == {"order", "/new", "unclear"}

\* What the owner turns out to have said; a photo's caption may be "/new".
Heard(kind) ==
  CASE kind = "voice" -> Transcribed
    [] kind = "photo" -> {"order", "/new"}
    [] kind = "/new"  -> {"/new"}
    [] kind = "text"  -> {"order"}

\* The photo or voice note has been downloaded and transcribed, or a text is at
\* hand, and it is an order for the agent.
HearOrder(u) ==
  /\ At(u, "listen") /\ "order" \in Heard(inbox[u].kind)
  /\ Goto(u, "build_prompt")
  /\ UNCHANGED database
  /\ Quietly

HearNothing(u) ==
  /\ At(u, "listen") /\ "unclear" \in Heard(inbox[u].kind)
  /\ Goto(u, "send")
  /\ UNCHANGED database
  /\ Quietly

\* "/new": clear_session.
HearNew(u) ==
  /\ At(u, "listen") /\ "/new" \in Heard(inbox[u].kind)
  /\ Goto(u, "send")
  /\ session' = [session EXCEPT ![ChatOf(u)] = NoSession]
  /\ since'   = [since EXCEPT ![ChatOf(u)] = {}]
  /\ calm'    = [calm EXCEPT ![ChatOf(u)] = Unfinished(ChatOf(u)) = {u}]
  /\ UNCHANGED <<telegram, database, memory, turns, faults, answers>>

-----------------------------------------------------------------------------
(* ClaudeAgentHarness.reply *)

\* The system prompt has been built; the chat's session is looked up and the
\* query starts.
StartTurn(u) ==
  /\ At(u, "build_prompt")
  /\ task' = [task EXCEPT ![u].pc = "stream", ![u].resume = session[ChatOf(u)]]
  /\ turns' = [turns EXCEPT ![u] = @ + 1]
  /\ UNCHANGED <<telegram, database, session, memory, since, faults, answers, calm>>

\* The SDK's init message names the conversation: the resumed one, or a new one
\* with its transcript.  A new conversation is named after its first update.
Conversation(u) == IF task[u].resume = NoSession THEN {u} ELSE {task[u].resume, u}

\* (mutant) Only the first turn of a conversation stores its session id.
InitOnce(u) ==
  /\ At(u, "stream")
  /\ \E s \in Conversation(u) :
       /\ session' = [session EXCEPT ![ChatOf(u)] =
                        IF task[u].resume = NoSession THEN s ELSE @]
       /\ memory'  = [memory EXCEPT ![s] = memory[task[u].resume] \cup {u}]
  /\ since' = [since EXCEPT ![ChatOf(u)] = @ \cup {u}]
  /\ Goto(u, "send")
  /\ UNCHANGED <<telegram, database, turns, faults, answers, calm>>

\* The init message stores the session id of the chat; the turn runs to its end.
InitMessage(u) ==
  /\ At(u, "stream")
  /\ \E s \in Conversation(u) :
       /\ session' = [session EXCEPT ![ChatOf(u)] = s]
       /\ memory'  = [memory EXCEPT ![s] = memory[task[u].resume] \cup {u}]
  /\ since' = [since EXCEPT ![ChatOf(u)] = @ \cup {u}]
  /\ Goto(u, "send")
  /\ UNCHANGED <<telegram, database, turns, faults, answers, calm>>

\* send_text: the agent's reply, the fresh session notice or the apology.
SendText(u) ==
  /\ At(u, "send")
  /\ answers' = [answers EXCEPT ![u] = @ + 1]
  /\ Goto(u, "done")
  /\ UNCHANGED <<telegram, database, agent, faults, calm>>

-----------------------------------------------------------------------------
(* Failures *)

Awaiting == {"claim", "load_chat", "write_chat", "listen", "build_prompt", "stream", "send"}

\* An await raises: the transaction rolls back, on_message logs it and the
\* update is not tried again.  A send may have reached the chat all the same.
Raise(u) ==
  /\ faults < MaxFaults
  /\ task[u].pc \in Awaiting
  /\ faults' = faults + 1
  /\ Goto(u, "failed")
  /\ calm' = [calm EXCEPT ![ChatOf(u)] = FALSE]
  /\ \/ UNCHANGED answers
     \/ At(u, "send") /\ answers' = [answers EXCEPT ![u] = @ + 1]
  /\ UNCHANGED <<telegram, database, agent>>

\* The process dies and starts again: it polls from what Telegram holds.
Crash ==
  /\ faults < MaxFaults
  /\ faults' = faults + 1
  /\ polled'  = confirmed
  /\ task'    = [u \in UpdateIds |-> Task("none")]
  /\ session' = [c \in Chats |-> NoSession]
  /\ calm'    = [c \in Chats |-> FALSE]
  /\ UNCHANGED <<inbox, confirmed, database, memory, turns, since, answers>>

-----------------------------------------------------------------------------
Init ==
  /\ inbox = <<>>
  /\ confirmed = 0 /\ polled = 0
  /\ processed = {}
  /\ ownerChat = [o \in Owners |-> NoChat]
  /\ session = [c \in Chats |-> NoSession]
  /\ memory  = [s \in {NoSession} \cup UpdateIds |-> {}]
  /\ task    = [u \in UpdateIds |-> Task("none")]
  /\ turns   = [u \in UpdateIds |-> 0]
  /\ answers = [u \in UpdateIds |-> 0]
  /\ since = [c \in Chats |-> {}]
  /\ calm  = [c \in Chats |-> TRUE]
  /\ faults = 0

Handle(u) ==
  \/ Claim(u) \/ LoadOwnerChat(u) \/ WriteOwnerChat(u)
  \/ HearOrder(u) \/ HearNothing(u) \/ HearNew(u)
  \/ StartTurn(u) \/ InitMessage(u) \/ SendText(u)

Next ==
  \/ \E m \in Messages : Send(m)
  \/ \E last \in 0..MaxUpdates : Poll(last)
  \/ \E u \in Sent : Handle(u) \/ Raise(u)
  \/ Crash

Spec == Init /\ [][Next]_vars

\* Polling goes on, and every await of a task comes back.
FairSpec ==
  /\ Spec
  /\ WF_vars(\E last \in 0..MaxUpdates : last = Len(inbox) /\ Poll(last))
  /\ \A u \in UpdateIds : WF_vars(u \in Sent /\ Handle(u))

-----------------------------------------------------------------------------
(* Properties *)

\* Every variable has its type; an update is delivered before it is confirmed
\* and claimed before its turn starts.
TypeOK ==
  /\ inbox \in Seq(Messages) /\ Len(inbox) <= MaxUpdates
  /\ confirmed \in 0..polled /\ polled \in 0..Len(inbox)
  /\ processed \subseteq 1..Len(inbox)
  /\ ownerChat \in [Owners -> (Chats \ Groups) \cup {NoChat}]
  /\ session \in [Chats -> {NoSession} \cup processed]
  /\ \A u \in UpdateIds :
       /\ task[u].pc \in Awaiting \cup {"none", "done", "failed"}
       /\ task[u].resume \in {NoSession} \cup processed
       /\ u > polled => task[u].pc = "none"
       /\ turns[u] > 0 => u \in processed
  /\ faults \in 0..MaxFaults

\* README "Idempotency": whatever Telegram delivers again after a crash, the
\* agent runs at most once for an update, and the owner gets at most one answer.
HandledAtMostOnce == \A u \in UpdateIds : turns[u] <= 1 /\ answers[u] <= 1

\* An owner who waits for each answer talks to an agent that remembers exactly
\* what was said in this chat since the last "/new" (_session_ids).
RemembersConversation == \A c \in Chats : calm[c] => memory[session[c]] = since[c]

\* Once an owner's chat is on record, a message is answered unless an await
\* raises or the process dies.  (The first messages of an owner may collide in
\* set_preference, and then one of them is dropped.)
MessageAnswered ==
  \A u \in UpdateIds :
    (u \in Sent /\ u > polled /\ inbox[u].kind # "other" /\ ownerChat[OwnerOf(u)] # NoChat)
      ~> (answers[u] = 1 \/ faults > 0)
=============================================================================
