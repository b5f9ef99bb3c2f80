--------------------------- MODULE UpdatesProofs ---------------------------
(* The bot handles an update at most once, however often it is delivered,   *)
(* and a chat's turns go to its own conversation.                           *)
EXTENDS Updates, TLAPS

TaskType ==
  [pc : Awaiting \cup {"none", "done", "failed"}, seen : Chats \cup {NoChat},
   resume : 0..MaxUpdates]

StateTyped ==
  /\ inbox \in Seq(Messages) /\ Len(inbox) <= MaxUpdates
  /\ task \in [UpdateIds -> TaskType]
  /\ ownerChat \in [Owners -> Chats \cup {NoChat}]
  /\ session \in [Chats -> 0..MaxUpdates]
  /\ memory \in [0..MaxUpdates -> SUBSET UpdateIds]

CountsTyped == turns \in [UpdateIds -> Nat] /\ answers \in [UpdateIds -> Nat]

\* A task past the claim stands on a recorded update; before its turn starts
\* none has been started for it, and before it sends nothing has been answered.
BeforeTurn == {"load_chat", "write_chat", "listen", "build_prompt"}
BeforeSend == BeforeTurn \cup {"stream", "send"}

OnceAt(u) ==
  /\ task[u].pc \in BeforeSend => u \in processed
  /\ u \notin processed => turns[u] = 0 /\ answers[u] = 0
  /\ turns[u] <= 1 /\ answers[u] <= 1
  /\ task[u].pc \in BeforeTurn => turns[u] = 0
  /\ task[u].pc \in BeforeSend => answers[u] = 0

Once == \A u \in UpdateIds : OnceAt(u)

HandlingInv == StateTyped /\ CountsTyped /\ Once

-----------------------------------------------------------------------------
(* Types *)

\* A sent message has a chat and an owner, and its update_id is in bounds.
LEMMA SentTyped ==
  ASSUME StateTyped, NEW u \in Sent
  PROVE  u \in UpdateIds /\ ChatOf(u) \in Chats /\ OwnerOf(u) \in Owners
<1>1. MaxUpdates \in Nat /\ Messages \subseteq [owner: Owners, chat: Chats, kind: Kinds]
  BY UpdatesAssumption
<1>2. Len(inbox) \in Nat /\ u \in 1..Len(inbox) /\ Len(inbox) <= MaxUpdates
  BY DEF StateTyped, Sent
<1>3. u \in UpdateIds
  BY <1>1, <1>2 DEF UpdateIds
<1>4. inbox[u] \in Messages
  BY <1>2 DEF StateTyped
<1>5. inbox[u] \in [owner: Owners, chat: Chats, kind: Kinds]
  BY <1>1, <1>4
<1> QED
  BY <1>3, <1>5 DEF ChatOf, OwnerOf

\* The tables, the session map and the tasks keep their types.
LEMMA StateTypedInit == Init => StateTyped
<1> SUFFICES ASSUME Init PROVE StateTyped
  OBVIOUS
<1>1. MaxUpdates \in Nat
  BY UpdatesAssumption
<1>2. Task("none") \in TaskType
  BY <1>1 DEF Task, TaskType, NoChat, NoSession, Awaiting
<1>3. {NoSession} \cup UpdateIds = 0..MaxUpdates
  BY <1>1 DEF NoSession, UpdateIds
<1> QED
  BY <1>1, <1>2, <1>3 DEF Init, StateTyped, NoSession

\* A task that moves on stays a task.
LEMMA GotoTyped ==
  ASSUME StateTyped, NEW u \in UpdateIds,
         NEW pc \in Awaiting \cup {"none", "done", "failed"}, Goto(u, pc)
  PROVE  task' \in [UpdateIds -> TaskType]
BY DEF StateTyped, Goto, TaskType

\* Every step of a handler keeps the tables typed.
LEMMA HandleTyped ==
  ASSUME StateTyped, NEW u \in Sent, Handle(u)
  PROVE  StateTyped'
<1>1. u \in UpdateIds /\ ChatOf(u) \in Chats /\ OwnerOf(u) \in Owners
  BY SentTyped
<1>2. MaxUpdates \in Nat /\ UpdateIds = 1..MaxUpdates
  BY UpdatesAssumption DEF UpdateIds
<1>3. task[u] \in TaskType
  BY <1>1 DEF StateTyped
<1>4. CASE Claim(u)
  <2>1. task' \in [UpdateIds -> TaskType]
    BY <1>1, <1>4, GotoTyped DEF Claim, Awaiting
  <2> QED
    BY <1>4, <2>1 DEF Claim, Quietly, StateTyped, telegram, agent
<1>5. CASE LoadOwnerChat(u)
  <2>1. ownerChat[OwnerOf(u)] \in Chats \cup {NoChat}
    BY <1>1 DEF StateTyped
  <2>2. task' \in [UpdateIds -> TaskType]
    <3>1. CASE ChatOf(u) \in Groups
      BY <1>1, <1>5, <3>1, GotoTyped DEF LoadOwnerChat, Awaiting
    <3>2. CASE ChatOf(u) \notin Groups
      <4>1. task' = [task EXCEPT ![u] = [task[u] EXCEPT !.pc = "write_chat", !.seen = ownerChat[OwnerOf(u)]]]
        BY <1>1, <1>5, <3>2 DEF LoadOwnerChat, StateTyped
      <4>2. [task[u] EXCEPT !.pc = "write_chat", !.seen = ownerChat[OwnerOf(u)]] \in TaskType
        BY <1>3, <2>1 DEF TaskType, Awaiting
      <4> QED BY <1>1, <4>1, <4>2 DEF StateTyped
    <3> QED BY <3>1, <3>2
  <2> QED
    BY <1>5, <2>2 DEF LoadOwnerChat, Quietly, StateTyped, telegram, agent, database
<1>6. CASE WriteOwnerChat(u)
  <2>1. task' \in [UpdateIds -> TaskType]
    BY <1>1, <1>6, GotoTyped DEF WriteOwnerChat, Awaiting
  <2>2. ownerChat' \in [Owners -> Chats \cup {NoChat}]
    BY <1>1, <1>6 DEF WriteOwnerChat, StateTyped
  <2> QED
    BY <1>6, <2>1, <2>2 DEF WriteOwnerChat, StateTyped, telegram, agent
<1>7. CASE HearOrder(u)
  <2>1. task' \in [UpdateIds -> TaskType]
    BY <1>1, <1>7, GotoTyped DEF HearOrder, Awaiting
  <2> QED
    BY <1>7, <2>1 DEF HearOrder, Quietly, StateTyped, telegram, agent, database
<1>8. CASE HearNothing(u)
  <2>1. task' \in [UpdateIds -> TaskType]
    BY <1>1, <1>8, GotoTyped DEF HearNothing, Awaiting
  <2> QED
    BY <1>8, <2>1 DEF HearNothing, Quietly, StateTyped, telegram, agent, database
<1>9. CASE HearNew(u)
  <2>1. task' \in [UpdateIds -> TaskType]
    BY <1>1, <1>9, GotoTyped DEF HearNew, Awaiting
  <2>2. session' = [session EXCEPT ![ChatOf(u)] = NoSession]
    BY <1>9, Zenon DEF HearNew
  <2>3. session' \in [Chats -> 0..MaxUpdates]
    <3>1. NoSession \in 0..MaxUpdates /\ session \in [Chats -> 0..MaxUpdates]
      BY <1>2 DEF StateTyped, NoSession
    <3> QED
      BY <2>2, <3>1
  <2> QED
    BY <1>9, <2>1, <2>3 DEF HearNew, StateTyped, telegram, database
<1>10. CASE StartTurn(u)
  <2>1. session[ChatOf(u)] \in 0..MaxUpdates
    BY <1>1 DEF StateTyped
  <2>2. task' = [task EXCEPT ![u] =
                   [task[u] EXCEPT !.pc = "stream", !.resume = session[ChatOf(u)]]]
    BY <1>1, <1>10 DEF StartTurn, StateTyped
  <2>3. [task[u] EXCEPT !.pc = "stream", !.resume = session[ChatOf(u)]] \in TaskType
    BY <1>3, <2>1 DEF TaskType, Awaiting
  <2>4. task' \in [UpdateIds -> TaskType]
    BY <1>1, <2>2, <2>3 DEF StateTyped
  <2> QED
    BY <1>10, <2>4 DEF StartTurn, StateTyped, telegram, database
<1>11. CASE InitMessage(u)
  <2>1. task' \in [UpdateIds -> TaskType]
    BY <1>1, <1>11, GotoTyped DEF InitMessage, Awaiting
  <2>2. task[u].resume \in 0..MaxUpdates
    BY <1>3 DEF TaskType
  <2>3. PICK s \in Conversation(u) :
          /\ session' = [session EXCEPT ![ChatOf(u)] = s]
          /\ memory'  = [memory EXCEPT ![s] = memory[task[u].resume] \cup {u}]
    BY <1>11 DEF InitMessage
  <2>4. s \in 0..MaxUpdates
    BY <1>1, <1>2, <2>2, <2>3 DEF Conversation
  <2>5. memory[task[u].resume] \cup {u} \in SUBSET UpdateIds
    BY <1>1, <2>2 DEF StateTyped
  <2>6. session' \in [Chats -> 0..MaxUpdates] /\ memory' \in [0..MaxUpdates -> SUBSET UpdateIds]
    BY <2>3, <2>4, <2>5 DEF StateTyped
  <2> QED
    BY <1>11, <2>1, <2>6 DEF InitMessage, StateTyped, telegram, database
<1>12. CASE SendText(u)
  <2>1. task' \in [UpdateIds -> TaskType]
    BY <1>1, <1>12, GotoTyped DEF SendText, Awaiting
  <2> QED
    BY <1>12, <2>1 DEF SendText, StateTyped, telegram, agent, database
<1> QED
  BY <1>4, <1>5, <1>6, <1>7, <1>8, <1>9, <1>10, <1>11, <1>12 DEF Handle

\* So does every other step.
LEMMA StateTypedStep == StateTyped /\ [Next]_vars => StateTyped'
<1> SUFFICES ASSUME StateTyped, [Next]_vars PROVE StateTyped'
  OBVIOUS
<1>1. MaxUpdates \in Nat /\ UpdateIds = 1..MaxUpdates
  BY UpdatesAssumption DEF UpdateIds
<1>2. Task("none") \in TaskType /\ [Task("none") EXCEPT !.pc = "claim"] \in TaskType
      /\ Task("claim") \in TaskType
  BY <1>1 DEF Task, TaskType, NoChat, NoSession, Awaiting
<1>3. ASSUME NEW m \in Messages, Send(m) PROVE StateTyped'
  <2>1. inbox' = Append(inbox, m) /\ Len(inbox) < MaxUpdates /\ inbox \in Seq(Messages)
    BY <1>3 DEF Send, StateTyped
  <2>2. inbox' \in Seq(Messages) /\ Len(inbox') = Len(inbox) + 1 /\ Len(inbox) \in Nat
    BY <2>1
  <2>3. Len(inbox') <= MaxUpdates
    BY <1>1, <2>1, <2>2
  <2> QED
    BY <1>3, <2>2, <2>3 DEF Send, StateTyped, agent, database
<1>4. ASSUME NEW last \in 0..MaxUpdates, Poll(last) PROVE StateTyped'
  <2>1. task' \in [UpdateIds -> TaskType]
    BY <1>2, <1>4 DEF Poll, StateTyped
  <2> QED
    BY <1>4, <2>1 DEF Poll, StateTyped, agent, database
<1>5. ASSUME NEW u \in Sent, Handle(u) PROVE StateTyped'
  BY <1>5, HandleTyped
<1>6. ASSUME NEW u \in Sent, Raise(u) PROVE StateTyped'
  <2>1. u \in UpdateIds
    BY SentTyped
  <2>2. task' \in [UpdateIds -> TaskType]
    BY <1>6, <2>1, GotoTyped DEF Raise, Awaiting
  <2> QED
    BY <1>6, <2>2 DEF Raise, StateTyped, telegram, agent, database
<1>7. CASE Crash
  <2>1. task' \in [UpdateIds -> TaskType]
    BY <1>2, <1>7 DEF Crash
  <2>2. session' \in [Chats -> 0..MaxUpdates]
    BY <1>1, <1>7 DEF Crash, NoSession
  <2> QED
    BY <1>7, <2>1, <2>2 DEF Crash, StateTyped, database
<1>8. CASE UNCHANGED vars
  BY <1>8 DEF vars, telegram, agent, database, StateTyped
<1> QED
  BY <1>3, <1>4, <1>5, <1>6, <1>7, <1>8 DEF Next

-----------------------------------------------------------------------------
(* At most once *)

\* A step of u's task that leaves processed, turns and answers as they are, and
\* brings the task to pc.
LEMMA MovesOn ==
  ASSUME HandlingInv, NEW u \in UpdateIds, NEW pc,
         \A v \in UpdateIds \ {u} : task'[v] = task[v],
         task'[u].pc = pc,
         processed' = processed, turns' = turns, answers' = answers,
         pc \in BeforeSend => task[u].pc \in BeforeSend,
         pc \in BeforeTurn => task[u].pc \in BeforeTurn
  PROVE  CountsTyped' /\ Once'
<1>1. CountsTyped'
  BY DEF HandlingInv, CountsTyped
<1>2. ASSUME NEW v \in UpdateIds PROVE OnceAt(v)'
  <2>1. OnceAt(v)
    BY DEF HandlingInv, Once
  <2>2. CASE v = u
    BY <2>1, <2>2 DEF OnceAt
  <2>3. CASE v # u
    BY <2>1, <2>3 DEF OnceAt
  <2> QED BY <2>2, <2>3
<1> QED
  BY <1>1, <1>2 DEF Once

\* What Goto does to the tasks.
LEMMA GotoMoves ==
  ASSUME StateTyped, NEW u \in UpdateIds, NEW pc, Goto(u, pc)
  PROVE  task'[u].pc = pc /\ \A v \in UpdateIds \ {u} : task'[v] = task[v]
BY DEF StateTyped, Goto, TaskType

\* The message of u goes out: it had no answer before.
LEMMA AnswersOnce ==
  ASSUME HandlingInv, NEW u \in UpdateIds, task[u].pc = "send",
         NEW pc \in {"done", "failed"}, Goto(u, pc),
         answers' = [answers EXCEPT ![u] = @ + 1],
         processed' = processed, turns' = turns
  PROVE  CountsTyped' /\ Once'
<1>1. task'[u].pc = pc /\ \A v \in UpdateIds \ {u} : task'[v] = task[v]
  BY GotoMoves DEF HandlingInv
<1>2. CountsTyped /\ OnceAt(u) /\ task[u].pc \in BeforeSend
  BY DEF HandlingInv, Once, BeforeSend
<1>3. ASSUME NEW v \in UpdateIds PROVE OnceAt(v)'
  <2>1. OnceAt(v)
    BY DEF HandlingInv, Once
  <2>2. CASE v = u
    <3>1. answers'[u] = 1
      BY <1>2 DEF CountsTyped, OnceAt
    <3> QED
      BY <1>1, <1>2, <2>2, <3>1 DEF OnceAt, BeforeSend, BeforeTurn
  <2>3. CASE v # u
    <3>1. answers'[v] = answers[v]
      BY <1>2, <2>3 DEF CountsTyped
    <3> QED
      BY <1>1, <2>1, <2>3, <3>1 DEF OnceAt
  <2> QED BY <2>2, <2>3
<1> QED
  BY <1>2, <1>3 DEF Once, CountsTyped

\* A step of a handler starts at most one turn and gives at most one answer.
LEMMA HandleOnce ==
  ASSUME HandlingInv, NEW u \in Sent, Handle(u)
  PROVE  CountsTyped' /\ Once'
<1> USE DEF At
<1>1. u \in UpdateIds /\ StateTyped
  BY SentTyped DEF HandlingInv
<1>2. CASE Claim(u)
  <2>1. CASE inbox[u].kind = "other" \/ u \in processed
    <3>1. Goto(u, "done") /\ processed' = processed /\ turns' = turns /\ answers' = answers
      BY <1>2, <2>1 DEF Claim, Quietly, agent
    <3> QED
      BY <1>1, <3>1, GotoMoves, MovesOn DEF BeforeSend, BeforeTurn
  <2>2. CASE ~(inbox[u].kind = "other" \/ u \in processed)
    <3>1. Goto(u, "load_chat") /\ processed' = processed \cup {u} /\ u \notin processed
          /\ turns' = turns /\ answers' = answers
      BY <1>2, <2>2 DEF Claim, Quietly, agent
    <3>2. task'[u].pc = "load_chat" /\ \A v \in UpdateIds \ {u} : task'[v] = task[v]
      BY <1>1, <3>1, GotoMoves
    <3>3. ASSUME NEW v \in UpdateIds PROVE OnceAt(v)'
      <4>1. OnceAt(v)
        BY DEF HandlingInv, Once
      <4> QED
        BY <3>1, <3>2, <4>1 DEF OnceAt
    <3> QED
      BY <3>1, <3>3 DEF Once, HandlingInv, CountsTyped
  <2> QED BY <2>1, <2>2
<1>3. CASE LoadOwnerChat(u)
  <2>1. processed' = processed /\ turns' = turns /\ answers' = answers
        /\ task[u].pc = "load_chat"
    BY <1>3 DEF LoadOwnerChat, Quietly, agent, database
  <2>2. task'[u].pc \in {"listen", "write_chat"}
        /\ \A v \in UpdateIds \ {u} : task'[v] = task[v]
    <3>1. CASE ChatOf(u) \in Groups
      BY <1>1, <1>3, <3>1, GotoMoves DEF LoadOwnerChat
    <3>2. CASE ChatOf(u) \notin Groups
      BY <1>1, <1>3, <3>2 DEF LoadOwnerChat, StateTyped, TaskType
    <3> QED BY <3>1, <3>2
  <2> QED
    BY <1>1, <2>1, <2>2, MovesOn DEF BeforeSend, BeforeTurn
<1>4. CASE WriteOwnerChat(u)
  <2>1. processed' = processed /\ turns' = turns /\ answers' = answers
        /\ task[u].pc = "write_chat" /\ (Goto(u, "failed") \/ Goto(u, "listen"))
    BY <1>4 DEF WriteOwnerChat, agent
  <2>2. task'[u].pc \in {"failed", "listen"}
        /\ \A v \in UpdateIds \ {u} : task'[v] = task[v]
    BY <1>1, <2>1, GotoMoves
  <2> QED
    BY <1>1, <2>1, <2>2, MovesOn DEF BeforeSend, BeforeTurn
<1>5. CASE HearOrder(u)
  <2>1. processed' = processed /\ turns' = turns /\ answers' = answers
        /\ task[u].pc = "listen" /\ Goto(u, "build_prompt")
    BY <1>5 DEF HearOrder, Quietly, agent, database
  <2> QED
    BY <1>1, <2>1, GotoMoves, MovesOn DEF BeforeSend, BeforeTurn
<1>6. CASE HearNothing(u)
  <2>1. processed' = processed /\ turns' = turns /\ answers' = answers
        /\ task[u].pc = "listen" /\ Goto(u, "send")
    BY <1>6 DEF HearNothing, Quietly, agent, database
  <2> QED
    BY <1>1, <2>1, GotoMoves, MovesOn DEF BeforeSend, BeforeTurn
<1>7. CASE HearNew(u)
  <2>1. processed' = processed /\ turns' = turns /\ answers' = answers
        /\ task[u].pc = "listen" /\ Goto(u, "send")
    BY <1>7, Zenon DEF HearNew, database
  <2> QED
    BY <1>1, <2>1, GotoMoves, MovesOn DEF BeforeSend, BeforeTurn
<1>8. CASE StartTurn(u)
  <2>1. processed' = processed /\ answers' = answers /\ task[u].pc = "build_prompt"
        /\ turns' = [turns EXCEPT ![u] = @ + 1]
    BY <1>8 DEF StartTurn, database
  <2>2. task'[u].pc = "stream" /\ \A v \in UpdateIds \ {u} : task'[v] = task[v]
    BY <1>1, <1>8 DEF StartTurn, StateTyped, TaskType
  <2>3. CountsTyped /\ turns[u] = 0
    BY <1>1, <2>1 DEF HandlingInv, Once, OnceAt, BeforeTurn
  <2>4. ASSUME NEW v \in UpdateIds PROVE OnceAt(v)'
    <3>1. OnceAt(v)
      BY DEF HandlingInv, Once
    <3>2. CASE v = u
      <4>1. turns'[u] = 1
        BY <1>1, <2>1, <2>3 DEF CountsTyped
      <4> QED
        BY <2>1, <2>2, <3>1, <3>2, <4>1 DEF OnceAt, BeforeTurn, BeforeSend
    <3>3. CASE v # u
      <4>1. turns'[v] = turns[v]
        BY <2>1, <2>3, <3>3 DEF CountsTyped
      <4> QED
        BY <2>1, <2>2, <3>1, <3>3, <4>1 DEF OnceAt
    <3> QED BY <3>2, <3>3
  <2>5. CountsTyped'
    <3>1. turns' = [turns EXCEPT ![u] = 1] /\ turns \in [UpdateIds -> Nat]
      BY <2>1, <2>3 DEF CountsTyped
    <3>2. turns' \in [UpdateIds -> Nat]
      BY <3>1
    <3> QED
      BY <2>1, <2>3, <3>2 DEF CountsTyped
  <2> QED
    BY <2>4, <2>5 DEF Once
<1>9. CASE InitMessage(u)
  <2>1. processed' = processed /\ turns' = turns /\ answers' = answers
        /\ task[u].pc = "stream" /\ Goto(u, "send")
    BY <1>9 DEF InitMessage, database
  <2> QED
    BY <1>1, <2>1, GotoMoves, MovesOn DEF BeforeSend, BeforeTurn
<1>10. CASE SendText(u)
  <2>1. processed' = processed /\ turns' = turns /\ task[u].pc = "send" /\ Goto(u, "done")
        /\ answers' = [answers EXCEPT ![u] = @ + 1]
    BY <1>10 DEF SendText, database, agent
  <2> QED
    BY <1>1, <2>1, AnswersOnce
<1> QED
  BY <1>2, <1>3, <1>4, <1>5, <1>6, <1>7, <1>8, <1>9, <1>10 DEF Handle

\* Every step keeps the counts and where they may be 1.
LEMMA OnceStep == HandlingInv /\ [Next]_vars => CountsTyped' /\ Once'
<1> SUFFICES ASSUME HandlingInv, [Next]_vars PROVE CountsTyped' /\ Once'
  OBVIOUS
<1>1. StateTyped
  BY DEF HandlingInv
<1>2. ASSUME processed' = processed, turns' = turns, answers' = answers,
             \A v \in UpdateIds : task'[v] = task[v] \/ task'[v].pc \in {"none", "claim"}
      PROVE  CountsTyped' /\ Once'
  <2>1. ASSUME NEW v \in UpdateIds PROVE OnceAt(v)'
    <3>1. OnceAt(v)
      BY DEF HandlingInv, Once
    <3> QED
      BY <1>2, <3>1 DEF OnceAt, BeforeSend, BeforeTurn
  <2> QED
    BY <1>2, <2>1 DEF Once, HandlingInv, CountsTyped
<1>3. ASSUME NEW m \in Messages, Send(m) PROVE CountsTyped' /\ Once'
  BY <1>2, <1>3 DEF Send, agent, database
<1>4. ASSUME NEW last \in 0..MaxUpdates, Poll(last) PROVE CountsTyped' /\ Once'
  <2>1. \A v \in UpdateIds : task'[v] = task[v] \/ task'[v].pc \in {"none", "claim"}
    BY <1>4 DEF Poll, Task
  <2> QED
    BY <1>2, <1>4, <2>1 DEF Poll, agent, database
<1>5. ASSUME NEW u \in Sent, Handle(u) PROVE CountsTyped' /\ Once'
  BY <1>5, HandleOnce
<1>6. ASSUME NEW u \in Sent, Raise(u) PROVE CountsTyped' /\ Once'
  <2>1. u \in UpdateIds
    BY <1>1, SentTyped
  <2>2. processed' = processed /\ turns' = turns /\ Goto(u, "failed")
        /\ (answers' = answers \/ (task[u].pc = "send" /\ answers' = [answers EXCEPT ![u] = @ + 1]))
    BY <1>6 DEF Raise, agent, database, At
  <2>3. CASE answers' = answers
    BY <1>1, <2>1, <2>2, <2>3, GotoMoves, MovesOn DEF BeforeSend, BeforeTurn
  <2>4. CASE task[u].pc = "send" /\ answers' = [answers EXCEPT ![u] = @ + 1]
    BY <2>1, <2>2, <2>4, AnswersOnce
  <2> QED BY <2>2, <2>3, <2>4
<1>7. CASE Crash
  <2>1. \A v \in UpdateIds : task'[v] = task[v] \/ task'[v].pc \in {"none", "claim"}
    BY <1>7 DEF Crash, Task
  <2> QED
    BY <1>2, <1>7, <2>1 DEF Crash, database
<1>8. CASE UNCHANGED vars
  BY <1>2, <1>8 DEF vars, agent, database
<1> QED
  BY <1>3, <1>4, <1>5, <1>6, <1>7, <1>8 DEF Next

\* At the start no update has been sent, let alone handled.
LEMMA HandlingInvInit == Init => HandlingInv
<1> SUFFICES ASSUME Init PROVE CountsTyped /\ Once
  BY StateTypedInit DEF HandlingInv
<1> QED
  BY DEF Init, CountsTyped, Once, OnceAt, Task, BeforeSend, BeforeTurn

-----------------------------------------------------------------------------
(* The conversation of a chat *)

\* Updates come in order, and a task starts with its delivery.
Delivered ==
  /\ confirmed \in Nat /\ polled \in Nat /\ confirmed <= polled /\ polled <= Len(inbox)
  /\ \A u \in UpdateIds : u > polled => task[u].pc = "none"

\* A conversation has the name of an update of its own chat.
NamesOwn(s, c) == s # NoSession => s \in Sent /\ ChatOf(s) = c

OwnChats ==
  /\ \A c \in Chats : NamesOwn(session[c], c)
  /\ \A u \in Sent : task[u].pc = "stream" => NamesOwn(task[u].resume, ChatOf(u))

\* A calm chat has one message in hand, whose turn resumes its conversation.
CalmAt(c) ==
  calm[c] =>
    /\ memory[session[c]] = since[c]
    /\ \A u, v \in Unfinished(c) : u = v
    /\ \A u \in Unfinished(c) : task[u].pc = "stream" => task[u].resume = session[c]

Talks ==
  /\ Delivered /\ OwnChats
  /\ since \in [Chats -> SUBSET UpdateIds] /\ calm \in [Chats -> BOOLEAN]
  /\ memory[NoSession] = {}
  /\ \A c \in Chats : CalmAt(c)

\* A step of u's task: it was being handled, and only its own record moves.
TaskMoves(u) ==
  /\ UNCHANGED telegram
  /\ task[u].pc \in Awaiting
  /\ task'[u].pc # "none"
  /\ \A v \in UpdateIds \ {u} : task'[v] = task[v]

\* What every handler's step does to the tasks.
LEMMA HandlerMoves ==
  ASSUME StateTyped, NEW u \in Sent, Handle(u) \/ Raise(u)
  PROVE  /\ TaskMoves(u)
         /\ task'[u].pc = "stream" => StartTurn(u) /\ task'[u].resume = session[ChatOf(u)]
         /\ task'[u].pc = "write_chat" => ChatOf(u) \notin Groups
         /\ task'[u].resume \in {task[u].resume, session[ChatOf(u)]}
<1> USE DEF At, Awaiting
<1>1. u \in UpdateIds /\ task[u] \in TaskType /\ task \in [UpdateIds -> TaskType]
  BY SentTyped DEF StateTyped
<1>2. ASSUME NEW pc \in {"done", "failed", "load_chat", "listen", "build_prompt", "send"},
             Goto(u, pc), task[u].pc \in Awaiting, UNCHANGED telegram
      PROVE  /\ TaskMoves(u) /\ task'[u].pc = pc /\ task'[u].resume = task[u].resume
    <2>1. task'[u].pc = pc /\ \A v \in UpdateIds \ {u} : task'[v] = task[v]
      BY <1>1, <1>2, GotoMoves
    <2>2. task'[u].resume = task[u].resume
      BY <1>1, <1>2 DEF Goto, TaskType
    <2> QED
      BY <1>2, <2>1, <2>2 DEF TaskMoves
<1>3. CASE Claim(u)
  BY <1>2, <1>3 DEF Claim, Quietly
<1>4. CASE LoadOwnerChat(u)
  <2>1. CASE ChatOf(u) \in Groups
    BY <1>2, <1>4, <2>1 DEF LoadOwnerChat, Quietly
  <2>2. CASE ChatOf(u) \notin Groups
    <3>1. task' = [task EXCEPT ![u] = [task[u] EXCEPT !.pc = "write_chat", !.seen = ownerChat[OwnerOf(u)]]]
      BY <1>1, <1>4, <2>2 DEF LoadOwnerChat
    <3>2. /\ task'[u].pc = "write_chat" /\ task'[u].resume = task[u].resume
          /\ \A v \in UpdateIds \ {u} : task'[v] = task[v]
      BY <1>1, <3>1 DEF TaskType
    <3> QED
      BY <1>4, <2>2, <3>2 DEF LoadOwnerChat, Quietly, TaskMoves
  <2> QED BY <2>1, <2>2
<1>5. CASE WriteOwnerChat(u)
  BY <1>2, <1>5 DEF WriteOwnerChat
<1>6. CASE HearOrder(u)
  BY <1>2, <1>6 DEF HearOrder, Quietly
<1>7. CASE HearNothing(u)
  BY <1>2, <1>7 DEF HearNothing, Quietly
<1>8. CASE HearNew(u)
  <2>1. Goto(u, "send") /\ UNCHANGED telegram /\ task[u].pc \in Awaiting
    BY <1>8, Zenon DEF HearNew
  <2> QED
    BY <1>2, <2>1
<1>9. CASE StartTurn(u)
  <2>1. task' = [task EXCEPT ![u] = [task[u] EXCEPT !.pc = "stream", !.resume = session[ChatOf(u)]]]
    BY <1>1, <1>9 DEF StartTurn
  <2>2. /\ task'[u].pc = "stream" /\ task'[u].resume = session[ChatOf(u)]
        /\ \A v \in UpdateIds \ {u} : task'[v] = task[v]
    BY <1>1, <2>1 DEF TaskType
  <2> QED
    BY <1>9, <2>2 DEF StartTurn, TaskMoves
<1>10. CASE InitMessage(u)
  BY <1>2, <1>10 DEF InitMessage
<1>11. CASE SendText(u)
  BY <1>2, <1>11 DEF SendText
<1>12. CASE Raise(u)
  BY <1>2, <1>12 DEF Raise
<1> QED
  BY <1>3, <1>4, <1>5, <1>6, <1>7, <1>8, <1>9, <1>10, <1>11, <1>12 DEF Handle

\* What is being handled is unfinished, and a step of its task finishes it at most.
LEMMA FinishesOnly ==
  ASSUME StateTyped, Delivered, NEW u \in Sent, TaskMoves(u)
  PROVE  /\ Delivered' /\ u \in Unfinished(ChatOf(u))
         /\ \A c \in Chats : Unfinished(c)' \subseteq Unfinished(c)
<1>1. u \in UpdateIds /\ inbox' = inbox /\ confirmed' = confirmed /\ polled' = polled
  BY SentTyped DEF TaskMoves, telegram
<1>2. task[u].pc \notin {"none", "done", "failed"}
  BY DEF TaskMoves, Awaiting
<1>3. Delivered'
  BY <1>1, <1>2 DEF Delivered, TaskMoves
<1>4. ~Over(u)
  BY <1>2 DEF Over, At
<1>5. ASSUME NEW v \in Sent, ~Over(v)' PROVE ~Over(v)
  <2>1. CASE v = u
    BY <1>4, <2>1
  <2>2. CASE v # u
    <3>1. v \in UpdateIds
      BY SentTyped
    <3>2. task'[v] = task[v]
      BY <2>2, <3>1 DEF TaskMoves
    <3> QED
      BY <1>1, <1>5, <3>2 DEF Over, At
  <2> QED BY <2>1, <2>2
<1>6. ASSUME NEW c \in Chats PROVE Unfinished(c)' \subseteq Unfinished(c)
  BY <1>1, <1>5 DEF Unfinished, Sent, ChatOf
<1> QED
  BY <1>3, <1>4, <1>6 DEF Unfinished

\* A step that starts no conversation and makes no chat calm.
LEMMA TalkGoesOn ==
  ASSUME StateTyped, Talks, Delivered', inbox' = inbox,
         UNCHANGED <<session, memory, since>>,
         calm' \in [Chats -> BOOLEAN], \A c \in Chats : calm'[c] => calm[c],
         \A c \in Chats : Unfinished(c)' \subseteq Unfinished(c),
         \A u \in Sent : task'[u].pc = "stream" =>
            \/ task'[u] = task[u]
            \/ task'[u].resume = session[ChatOf(u)]
  PROVE  Talks'
<1>1. Sent' = Sent /\ \A v : ChatOf(v)' = ChatOf(v)
  BY DEF Sent, ChatOf
<1>2. OwnChats'
  <2>1. \A c \in Chats : NamesOwn(session[c], c)'
    BY <1>1 DEF Talks, OwnChats, NamesOwn
  <2>2. ASSUME NEW u \in Sent, task'[u].pc = "stream" PROVE NamesOwn(task[u].resume, ChatOf(u))'
    <3>1. ChatOf(u) \in Chats
      BY SentTyped
    <3>2. NamesOwn(task[u].resume, ChatOf(u)) \/ task'[u].resume = session[ChatOf(u)]
      BY <2>2 DEF Talks, OwnChats
    <3>3. NamesOwn(session[ChatOf(u)], ChatOf(u))
      BY <3>1 DEF Talks, OwnChats
    <3>4. NamesOwn(task'[u].resume, ChatOf(u))
      BY <2>2, <3>2, <3>3 DEF Talks, OwnChats
    <3> QED
      BY <1>1, <3>4 DEF NamesOwn
  <2> QED
    BY <1>1, <2>1, <2>2 DEF OwnChats
<1>3. ASSUME NEW c \in Chats PROVE CalmAt(c)'
  <2> SUFFICES ASSUME calm'[c]
               PROVE  /\ memory'[session'[c]] = since'[c]
                      /\ \A u, v \in Unfinished(c)' : u = v
                      /\ \A u \in Unfinished(c)' : task'[u].pc = "stream" => task'[u].resume = session'[c]
    BY DEF CalmAt
  <2>1. CalmAt(c) /\ calm[c]
    BY DEF Talks
  <2>2. ASSUME NEW u \in Unfinished(c)', task'[u].pc = "stream" PROVE task'[u].resume = session'[c]
    <3>1. u \in Unfinished(c) /\ u \in Sent /\ ChatOf(u) = c
      BY DEF Unfinished
    <3>2. task[u].pc = "stream" => task[u].resume = session[c]
      BY <2>1, <3>1 DEF CalmAt
    <3> QED
      BY <2>2, <3>1, <3>2
  <2> QED
    BY <2>1, <2>2 DEF CalmAt
<1> QED
  BY <1>2, <1>3 DEF Talks

\* A new message of a calm chat is its only one.
LEMMA SendTalks ==
  ASSUME StateTyped, StateTyped', Talks, NEW m \in Messages, Send(m)
  PROVE  Talks'
<1> DEFINE n == Len(inbox)
<1>1. /\ n \in Nat /\ inbox' = Append(inbox, m) /\ Len(inbox') = n + 1
      /\ inbox'[n + 1] = m /\ \A u \in 1..n : inbox'[u] = inbox[u]
  BY DEF Send, StateTyped
<1>2. UNCHANGED <<confirmed, polled, session, memory, since, task>>
  BY DEF Send, agent
<1>3. /\ Sent' = Sent \cup {n + 1} /\ n + 1 \notin Sent
      /\ \A u \in Sent : ChatOf(u)' = ChatOf(u) /\ (Over(u)' <=> Over(u))
  BY <1>1, <1>2 DEF Sent, ChatOf, Over, At
<1>4. n + 1 \in UpdateIds /\ task[n + 1].pc = "none"
  <2>1. n + 1 \in UpdateIds
    BY <1>1, UpdatesAssumption DEF StateTyped, UpdateIds
  <2>2. n + 1 > polled
    BY <1>1 DEF Talks, Delivered
  <2> QED
    BY <2>1, <2>2 DEF Talks, Delivered
<1>5. inbox'[n + 1].chat = m.chat
  BY <1>1
<1> HIDE DEF n
<1>6. Delivered'
  BY <1>1, <1>2 DEF Talks, Delivered, n
<1>7. OwnChats'
  BY <1>2, <1>3, <1>4 DEF Talks, OwnChats, NamesOwn
<1>8. m.chat \in Chats /\ calm' = [calm EXCEPT ![m.chat] = @ /\ Unfinished(m.chat) = {}]
  <2>1. m \in [owner: Owners, chat: Chats, kind: Kinds]
    BY UpdatesAssumption
  <2> QED
    BY <2>1 DEF Send
<1>9. calm \in [Chats -> BOOLEAN]
  BY DEF Talks
<1>10. ASSUME NEW c \in Chats PROVE CalmAt(c)'
  <2>1. CalmAt(c)
    BY DEF Talks
  <2>2. Unfinished(c)' \subseteq Unfinished(c) \cup {n + 1}
    BY <1>3 DEF Unfinished
  <2>3. CASE c = m.chat
    <3>1. calm'[c] => calm[c] /\ Unfinished(c) = {}
      BY <1>8, <1>9, <2>3, Zenon
    <3>2. calm'[c] => Unfinished(c)' \subseteq {n + 1}
      BY <2>2, <3>1
    <3> QED
      BY <1>2, <1>4, <2>1, <3>1, <3>2 DEF CalmAt
  <2>4. CASE c # m.chat
    <3>1. calm'[c] => calm[c]
      BY <1>8, <1>9, <2>4, Zenon
    <3>2. Unfinished(c)' \subseteq Unfinished(c)
      BY <1>5, <2>2, <2>4 DEF Unfinished, ChatOf
    <3> QED
      BY <1>2, <2>1, <3>1, <3>2 DEF CalmAt
  <2> QED BY <2>3, <2>4
<1>11. calm' \in [Chats -> BOOLEAN]
  BY <1>8, <1>9, Zenon
<1> QED
  BY <1>2, <1>6, <1>7, <1>10, <1>11 DEF Talks

\* A poll starts tasks for updates nobody has handled in this process.
LEMMA PollTalks ==
  ASSUME StateTyped, Talks, NEW last \in 0..MaxUpdates, Poll(last)
  PROVE  Talks'
<1>1. /\ last \in polled..Len(inbox) /\ confirmed' = polled /\ polled' = last
      /\ task' = [u \in UpdateIds |-> IF u \in polled + 1..last THEN Task("claim") ELSE task[u]]
      /\ UNCHANGED <<inbox, session, memory, since, calm>>
  BY DEF Poll, agent
<1>2. Len(inbox) \in Nat /\ UpdateIds = 1..MaxUpdates /\ MaxUpdates \in Nat /\ Len(inbox) <= MaxUpdates
  BY UpdatesAssumption DEF StateTyped, UpdateIds
<1>3. confirmed \in Nat /\ polled \in Nat /\ confirmed <= polled /\ polled <= Len(inbox)
      /\ \A u \in UpdateIds : u > polled => task[u].pc = "none"
  BY DEF Talks, Delivered
<1>4. \A u \in UpdateIds : task'[u] = task[u] \/ (u > polled /\ task'[u].pc = "claim")
  BY <1>1, <1>2, <1>3 DEF Task
<1>5. Delivered'
  <2>1. \A u \in UpdateIds : u > last => ~(u \in polled + 1..last)
    BY <1>1, <1>2, <1>3
  <2>2. \A u \in UpdateIds : u > last => task'[u].pc = "none"
    BY <1>1, <1>2, <1>3, <2>1
  <2> QED
    BY <1>1, <1>2, <1>3, <2>2 DEF Delivered
<1>6. ASSUME NEW c \in Chats PROVE Unfinished(c)' \subseteq Unfinished(c)
  <2> SUFFICES ASSUME NEW u \in Sent, ~Over(u)' PROVE ~Over(u)
    BY <1>1 DEF Unfinished, Sent, ChatOf
  <2>1. u \in UpdateIds /\ u \in Nat
    BY <1>2, SentTyped
  <2>2. CASE task'[u] = task[u]
    BY <1>1, <1>3, <2>1, <2>2 DEF Over, At
  <2>3. CASE u > polled
    BY <1>3, <2>1, <2>3 DEF Over, At
  <2> QED BY <1>4, <2>1, <2>2, <2>3
<1>7. \A u \in Sent : task'[u].pc = "stream" => task'[u] = task[u]
  BY <1>4, SentTyped
<1>8. calm' \in [Chats -> BOOLEAN] /\ \A c \in Chats : calm'[c] => calm[c]
  BY <1>1 DEF Talks
<1> QED
  BY <1>1, <1>5, <1>6, <1>7, <1>8, TalkGoesOn

\* "/new" makes the chat calm if nothing else of it is in hand.
LEMMA NewTalks ==
  ASSUME StateTyped, Talks, NEW u \in Sent, HearNew(u)
  PROVE  Talks'
<1> DEFINE k == ChatOf(u)
<1>1. u \in UpdateIds /\ k \in Chats
  BY SentTyped
<1>2. TaskMoves(u) /\ (task'[u].pc = "stream" => StartTurn(u))
  BY HandlerMoves, Zenon DEF Handle
<1>3. /\ session' = [session EXCEPT ![k] = NoSession] /\ since' = [since EXCEPT ![k] = {}]
      /\ calm' = [calm EXCEPT ![k] = Unfinished(k) = {u}]
      /\ memory' = memory /\ Goto(u, "send") /\ inbox' = inbox
  BY Zenon DEF HearNew, telegram
<1>4. /\ Delivered' /\ \A c \in Chats : Unfinished(c)' \subseteq Unfinished(c)
  BY <1>2, FinishesOnly DEF Talks
<1>5. task'[u].pc = "send" /\ \A v \in UpdateIds \ {u} : task'[v] = task[v]
  BY <1>1, <1>3, GotoMoves
<1>6. session \in [Chats -> 0..MaxUpdates] /\ since \in [Chats -> SUBSET UpdateIds] /\ calm \in [Chats -> BOOLEAN]
  BY DEF StateTyped, Talks
<1>7. /\ session'[k] = NoSession /\ since'[k] = {}
      /\ \A c \in Chats \ {k} : session'[c] = session[c] /\ since'[c] = since[c] /\ calm'[c] = calm[c]
      /\ calm'[k] => Unfinished(k) = {u}
  BY <1>1, <1>3, <1>6, Zenon
<1>8. since' \in [Chats -> SUBSET UpdateIds] /\ calm' \in [Chats -> BOOLEAN]
  <2>1. since' \in [Chats -> SUBSET UpdateIds]
    BY <1>3, <1>6
  <2>2. calm' \in [Chats -> BOOLEAN]
    BY <1>3, <1>6, Zenon
  <2> QED BY <2>1, <2>2
<1> HIDE DEF k
<1>9. Sent' = Sent /\ \A v : ChatOf(v)' = ChatOf(v)
  BY <1>3 DEF Sent, ChatOf
<1>10. OwnChats'
  <2>1. \A c \in Chats : NamesOwn(session'[c], c)
    BY <1>7 DEF Talks, OwnChats, NamesOwn
  <2>2. \A v \in Sent : task'[v].pc = "stream" => NamesOwn(task'[v].resume, ChatOf(v))
    BY <1>5, SentTyped DEF Talks, OwnChats
  <2> QED
    BY <1>9, <2>1, <2>2 DEF OwnChats, NamesOwn
<1>11. ASSUME NEW c \in Chats, calm'[c]
       PROVE  /\ memory'[session'[c]] = since'[c]
              /\ \A v, w \in Unfinished(c)' : v = w
              /\ \A v \in Unfinished(c)' : task'[v].pc = "stream" => task'[v].resume = session'[c]
  <2>1. CASE c = k
    <3>1. Unfinished(c)' \subseteq {u}
      BY <1>4, <1>7, <1>11, <2>1
    <3>2. memory'[session'[c]] = since'[c]
      BY <1>3, <1>7, <2>1 DEF Talks
    <3> QED
      BY <1>5, <3>1, <3>2
  <2>2. CASE c # k
    <3>1. session'[c] = session[c] /\ since'[c] = since[c] /\ calm[c] /\ CalmAt(c)
      BY <1>7, <1>11, <2>2 DEF Talks
    <3>2. \A v \in Unfinished(c)' : v \in Unfinished(c) /\ v \in UpdateIds
      BY <1>4, SentTyped DEF Unfinished
    <3>3. \A v \in Unfinished(c)' : task'[v].pc = "stream" => task'[v] = task[v]
      BY <1>5, <3>2
    <3> QED
      BY <1>3, <3>1, <3>2, <3>3 DEF CalmAt
  <2> QED BY <2>1, <2>2
<1>12. \A c \in Chats : CalmAt(c)'
  BY <1>11 DEF CalmAt
<1> QED
  BY <1>3, <1>4, <1>8, <1>10, <1>12 DEF Talks

\* A turn adds to the conversation its chat resumes, and to no other chat's.
LEMMA TurnTalks ==
  ASSUME StateTyped, Talks, NEW u \in Sent, InitMessage(u)
  PROVE  Talks'
<1> DEFINE k == ChatOf(u)
           r == task[u].resume
<1>1. u \in UpdateIds /\ k \in Chats /\ u \in Nat \ {0}
  <2>1. u \in UpdateIds /\ k \in Chats
    BY SentTyped
  <2> QED
    BY <2>1, UpdatesAssumption DEF UpdateIds
<1>2. TaskMoves(u)
  BY HandlerMoves DEF Handle
<1>3. PICK s \in Conversation(u) :
        /\ session' = [session EXCEPT ![k] = s]
        /\ memory'  = [memory EXCEPT ![s] = memory[r] \cup {u}]
  BY DEF InitMessage
<1>4. /\ since' = [since EXCEPT ![k] = @ \cup {u}] /\ calm' = calm
      /\ Goto(u, "send") /\ inbox' = inbox /\ task[u].pc = "stream"
  BY DEF InitMessage, telegram, At
<1>5. /\ Delivered' /\ u \in Unfinished(k) /\ \A c \in Chats : Unfinished(c)' \subseteq Unfinished(c)
  BY <1>2, FinishesOnly DEF Talks
<1>6. task'[u].pc = "send" /\ \A v \in UpdateIds \ {u} : task'[v] = task[v]
  BY <1>1, <1>4, GotoMoves
<1>7. /\ session \in [Chats -> 0..MaxUpdates] /\ since \in [Chats -> SUBSET UpdateIds]
      /\ memory \in [0..MaxUpdates -> SUBSET UpdateIds] /\ r \in 0..MaxUpdates
  BY <1>1 DEF StateTyped, Talks, TaskType
<1>8. NamesOwn(r, k)
  BY <1>4 DEF Talks, OwnChats
<1>9. s # NoSession /\ s \in Sent /\ ChatOf(s) = k /\ s \in 0..MaxUpdates
  <2>1. CASE s = u
    BY <1>1, <2>1, UpdatesAssumption DEF NoSession, UpdateIds
  <2>2. CASE s = r /\ r # NoSession
    BY <1>7, <1>8, <2>2 DEF NamesOwn
  <2> QED
    BY <1>3, <2>1, <2>2 DEF Conversation
<1>10. /\ session'[k] = s /\ since'[k] = since[k] \cup {u} /\ memory'[s] = memory[r] \cup {u}
       /\ \A c \in Chats \ {k} : session'[c] = session[c] /\ since'[c] = since[c]
       /\ \A z \in 0..MaxUpdates : z # s => memory'[z] = memory[z]
  BY <1>1, <1>3, <1>4, <1>7, <1>9
<1>11. since' \in [Chats -> SUBSET UpdateIds] /\ memory'[NoSession] = {}
  <2>1. since[k] \cup {u} \in SUBSET UpdateIds
    BY <1>1, <1>7
  <2>2. since' \in [Chats -> SUBSET UpdateIds]
    BY <1>4, <1>7, <2>1
  <2>3. NoSession \in 0..MaxUpdates /\ memory[NoSession] = {}
    BY UpdatesAssumption DEF NoSession, Talks
  <2> QED
    BY <1>9, <1>10, <2>2, <2>3
<1> HIDE DEF k, r
<1>12. Sent' = Sent /\ \A v : ChatOf(v)' = ChatOf(v)
  BY <1>4 DEF Sent, ChatOf
<1>13. OwnChats'
  <2>1. \A c \in Chats : NamesOwn(session'[c], c)
    BY <1>9, <1>10 DEF Talks, OwnChats, NamesOwn
  <2>2. \A v \in Sent : task'[v].pc = "stream" => NamesOwn(task'[v].resume, ChatOf(v))
    BY <1>6, SentTyped DEF Talks, OwnChats
  <2> QED
    BY <1>12, <2>1, <2>2 DEF OwnChats, NamesOwn
<1>14. ASSUME NEW c \in Chats, calm[c]
       PROVE  /\ memory'[session'[c]] = since'[c]
              /\ \A v, w \in Unfinished(c)' : v = w
              /\ \A v \in Unfinished(c)' : task'[v].pc = "stream" => task'[v].resume = session'[c]
  <2>0. CalmAt(c) /\ \A v \in Unfinished(c)' : v \in Unfinished(c) /\ v \in UpdateIds
    BY <1>5, SentTyped DEF Talks, Unfinished
  <2>1. memory[session[c]] = since[c] /\ (\A v, w \in Unfinished(c) : v = w)
        /\ \A v \in Unfinished(c) : task[v].pc = "stream" => task[v].resume = session[c]
    BY <1>14, <2>0 DEF CalmAt
  <2>2. CASE c = k
    <3>1. r = session[c]
      BY <1>4, <1>5, <2>1, <2>2 DEF r
    <3>2. \A v \in Unfinished(c)' : v = u
      BY <1>5, <2>0, <2>1, <2>2
    <3>3. memory'[session'[c]] = since'[c]
      BY <1>10, <2>1, <2>2, <3>1
    <3> QED
      BY <1>6, <3>2, <3>3
  <2>3. CASE c # k
    <3>1. session'[c] = session[c] /\ since'[c] = since[c] /\ session[c] \in 0..MaxUpdates
      BY <1>7, <1>10, <2>3
    <3>2. session[c] # s
      BY <1>9, <2>3 DEF Talks, OwnChats, NamesOwn
    <3>3. memory'[session'[c]] = since'[c]
      BY <1>10, <2>1, <3>1, <3>2
    <3>4. \A v \in Unfinished(c)' : task'[v].pc = "stream" => task'[v] = task[v]
      BY <1>6, <2>0
    <3> QED
      BY <2>0, <2>1, <3>1, <3>3, <3>4
  <2> QED BY <2>2, <2>3
<1>15. \A c \in Chats : CalmAt(c)'
  BY <1>4, <1>14 DEF CalmAt
<1>16. calm' \in [Chats -> BOOLEAN]
  BY <1>4 DEF Talks
<1> QED
  BY <1>5, <1>11, <1>13, <1>15, <1>16 DEF Talks

\* The conversations survive every step.
LEMMA TalksStep == StateTyped /\ StateTyped' /\ Talks /\ [Next]_vars => Talks'
<1> SUFFICES ASSUME StateTyped, StateTyped', Talks, [Next]_vars PROVE Talks'
  OBVIOUS
<1>1. ASSUME NEW m \in Messages, Send(m) PROVE Talks'
  BY <1>1, SendTalks
<1>2. ASSUME NEW last \in 0..MaxUpdates, Poll(last) PROVE Talks'
  BY <1>2, PollTalks
<1>3. ASSUME NEW u \in Sent, Handle(u), ~HearNew(u), ~InitMessage(u) PROVE Talks'
  <2>1. /\ TaskMoves(u)
        /\ task'[u].pc = "stream" => task'[u].resume = session[ChatOf(u)]
    BY <1>3, HandlerMoves
  <2>2. Delivered' /\ \A c \in Chats : Unfinished(c)' \subseteq Unfinished(c)
    BY <2>1, FinishesOnly DEF Talks
  <2>3. \A v \in Sent : task'[v].pc = "stream" =>
           task'[v] = task[v] \/ task'[v].resume = session[ChatOf(v)]
    BY <2>1, SentTyped DEF TaskMoves
  <2>4. inbox' = inbox /\ UNCHANGED <<session, memory, since>>
    <3>1. inbox' = inbox
      BY <2>1 DEF TaskMoves, telegram
    <3>2. UNCHANGED <<session, memory, since>>
      BY <1>3 DEF Handle, Claim, LoadOwnerChat, WriteOwnerChat, HearOrder, HearNothing,
                  StartTurn, SendText, Quietly, agent
    <3> QED BY <3>1, <3>2
  <2>5. calm' = calm \/ calm' = [calm EXCEPT ![ChatOf(u)] = FALSE]
    BY <1>3 DEF Handle, Claim, LoadOwnerChat, WriteOwnerChat, HearOrder, HearNothing,
                StartTurn, SendText, Quietly
  <2>6. calm' \in [Chats -> BOOLEAN] /\ \A c \in Chats : calm'[c] => calm[c]
    BY <2>5 DEF Talks
  <2> QED
    BY <2>2, <2>3, <2>4, <2>6, TalkGoesOn
<1>4. ASSUME NEW u \in Sent, HearNew(u) \/ InitMessage(u) PROVE Talks'
  BY <1>4, NewTalks, TurnTalks
<1>5. ASSUME NEW u \in Sent, Raise(u) PROVE Talks'
  <2>1. /\ TaskMoves(u)
        /\ task'[u].pc = "stream" => task'[u].resume = session[ChatOf(u)]
    BY <1>5, HandlerMoves
  <2>2. Delivered' /\ \A c \in Chats : Unfinished(c)' \subseteq Unfinished(c)
    BY <2>1, FinishesOnly DEF Talks
  <2>3. \A v \in Sent : task'[v].pc = "stream" =>
           task'[v] = task[v] \/ task'[v].resume = session[ChatOf(v)]
    BY <2>1, SentTyped DEF TaskMoves
  <2>4. /\ inbox' = inbox /\ UNCHANGED <<session, memory, since>>
        /\ calm' = [calm EXCEPT ![ChatOf(u)] = FALSE]
    BY <1>5 DEF Raise, telegram, agent
  <2>5. calm' \in [Chats -> BOOLEAN] /\ \A c \in Chats : calm'[c] => calm[c]
    BY <2>4 DEF Talks
  <2> QED
    BY <2>2, <2>3, <2>4, <2>5, TalkGoesOn
<1>6. CASE Crash
  <2>1. /\ inbox' = inbox /\ confirmed' = confirmed /\ polled' = confirmed
        /\ task' = [u \in UpdateIds |-> Task("none")] /\ session' = [c \in Chats |-> NoSession]
        /\ calm' = [c \in Chats |-> FALSE] /\ memory' = memory /\ since' = since
    BY <1>6 DEF Crash
  <2>2. \A u \in UpdateIds : task'[u].pc = "none"
    BY <2>1 DEF Task
  <2>3. Delivered'
    BY <2>1, <2>2 DEF Talks, Delivered, StateTyped
  <2>4. OwnChats'
    <3>1. \A u \in Sent' : u \in UpdateIds
      BY <2>1, SentTyped DEF Sent
    <3> QED
      BY <2>1, <2>2, <3>1 DEF OwnChats, NamesOwn
  <2>5. \A c \in Chats : CalmAt(c)'
    BY <2>1 DEF CalmAt
  <2>6. calm' \in [Chats -> BOOLEAN]
    BY <2>1
  <2> QED
    BY <2>1, <2>3, <2>4, <2>5, <2>6 DEF Talks
<1>7. CASE UNCHANGED vars
  <2>1. UNCHANGED <<telegram, session, memory, since, task, calm>>
    BY <1>7 DEF vars, agent
  <2>2. Delivered' /\ \A c \in Chats : Unfinished(c)' = Unfinished(c)
    BY <2>1 DEF telegram, Talks, Delivered, Unfinished, Sent, ChatOf, Over, At
  <2>3. inbox' = inbox /\ calm' \in [Chats -> BOOLEAN] /\ \A c \in Chats : calm'[c] => calm[c]
    BY <2>1 DEF telegram, Talks
  <2> QED
    BY <2>1, <2>2, <2>3, TalkGoesOn
<1> QED
  BY <1>1, <1>2, <1>3, <1>4, <1>5, <1>6, <1>7 DEF Next

\* Before the first message every chat is calm and has said nothing.
LEMMA TalksInit == Init => Talks
<1> SUFFICES ASSUME Init PROVE Talks
  OBVIOUS
<1>1. inbox = <<>> /\ Sent = {} /\ Len(inbox) = 0
  BY DEF Init, Sent
<1>2. Delivered
  BY <1>1 DEF Init, Delivered, Task
<1>3. OwnChats
  BY <1>1 DEF Init, OwnChats, NamesOwn
<1>4. NoSession \in 0..MaxUpdates /\ memory[NoSession] = {}
  BY UpdatesAssumption DEF Init, NoSession, UpdateIds
<1>5. \A c \in Chats : CalmAt(c)
  BY <1>1, <1>4 DEF Init, CalmAt, Unfinished
<1>6. since \in [Chats -> SUBSET UpdateIds] /\ calm \in [Chats -> BOOLEAN]
  BY DEF Init
<1> QED
  BY <1>2, <1>3, <1>4, <1>5, <1>6 DEF Talks

\* What the database and the session map hold comes from recorded updates.
Recorded ==
  /\ processed \subseteq Sent
  /\ ownerChat \in [Owners -> (Chats \ Groups) \cup {NoChat}]
  /\ \A c \in Chats : session[c] \in {NoSession} \cup processed
  /\ \A u \in UpdateIds : task[u].resume \in {NoSession} \cup processed
  /\ \A u \in Sent : task[u].pc = "write_chat" => ChatOf(u) \notin Groups
  /\ faults \in 0..MaxFaults

\* Every step keeps it so.
LEMMA RecordedStep == HandlingInv /\ Talks /\ Recorded /\ [Next]_vars => Recorded'
<1> SUFFICES ASSUME HandlingInv, Talks, Recorded, [Next]_vars PROVE Recorded'
  OBVIOUS
<1>1. StateTyped /\ MaxFaults \in Nat
  BY UpdatesAssumption DEF HandlingInv
<1>2. ASSUME processed' = processed, ownerChat' = ownerChat, faults' \in 0..MaxFaults,
             Sent \subseteq Sent', \A u \in Sent : ChatOf(u)' = ChatOf(u),
             \A c \in Chats : session'[c] \in {NoSession, session[c]},
             \A u \in UpdateIds : task'[u] = task[u] \/ task'[u].resume = NoSession,
             \A u \in Sent' : task'[u].pc = "write_chat" => u \in Sent /\ task'[u] = task[u]
      PROVE  Recorded'
  BY <1>2 DEF Recorded
<1>3. ASSUME NEW m \in Messages, Send(m) PROVE Recorded'
  <2>1. /\ inbox' = Append(inbox, m) /\ inbox \in Seq(Messages) /\ task' = task
        /\ UNCHANGED <<processed, ownerChat, faults, session, polled>>
    BY <1>1, <1>3 DEF Send, database, agent, StateTyped
  <2>2. Len(inbox) \in Nat /\ Len(inbox') = Len(inbox) + 1 /\ Len(inbox) < MaxUpdates
        /\ \A u \in 1..Len(inbox) : inbox'[u] = inbox[u]
    BY <1>3, <2>1 DEF Send
  <2>3. Sent' = Sent \cup {Len(inbox) + 1} /\ \A u \in Sent : ChatOf(u)' = ChatOf(u)
    BY <2>2 DEF Sent, ChatOf
  <2>4. task[Len(inbox) + 1].pc = "none"
    <3>1. Len(inbox) + 1 \in UpdateIds /\ Len(inbox) + 1 > polled
      BY <2>2, UpdatesAssumption DEF Talks, Delivered, UpdateIds
    <3> QED
      BY <3>1 DEF Talks, Delivered
  <2> QED
    BY <1>2, <2>1, <2>3, <2>4 DEF Recorded
<1>4. ASSUME NEW last \in 0..MaxUpdates, Poll(last) PROVE Recorded'
  <2>1. \A u \in UpdateIds : task'[u] = task[u] \/ (task'[u].pc = "claim" /\ task'[u].resume = NoSession)
    BY <1>4 DEF Poll, Task
  <2>2. UNCHANGED <<processed, ownerChat, faults, session, inbox>>
    BY <1>4 DEF Poll, database, agent
  <2>3. Sent' = Sent /\ \A u : ChatOf(u)' = ChatOf(u)
    BY <2>2 DEF Sent, ChatOf
  <2>4. \A u \in Sent : task'[u].pc = "write_chat" => task'[u] = task[u]
    BY <1>1, <2>1, SentTyped
  <2> QED
    BY <1>2, <2>1, <2>2, <2>3, <2>4 DEF Recorded
<1>5. ASSUME NEW u \in Sent, Handle(u) \/ Raise(u) PROVE Recorded'
  <2>0. u \in UpdateIds /\ ChatOf(u) \in Chats /\ OwnerOf(u) \in Owners
    BY <1>1, SentTyped
  <2>1. /\ TaskMoves(u) /\ (task'[u].pc = "write_chat" => ChatOf(u) \notin Groups)
        /\ task'[u].resume \in {task[u].resume, session[ChatOf(u)]}
    BY <1>1, <1>5, HandlerMoves
  <2>2. inbox' = inbox /\ \A v \in UpdateIds \ {u} : task'[v] = task[v]
    BY <2>1 DEF TaskMoves, telegram
  <2>3. Sent' = Sent /\ \A v : ChatOf(v)' = ChatOf(v)
    BY <2>2 DEF Sent, ChatOf
  <2>4. processed' \in {processed, processed \cup {u}}
    BY <1>5 DEF Handle, Raise, Claim, LoadOwnerChat, WriteOwnerChat, HearOrder, HearNothing,
                HearNew, StartTurn, InitMessage, SendText, Quietly, database
  <2>5. \A c \in Chats : session'[c] \in {NoSession} \cup processed
    <3>1. CASE session' = session
      BY <3>1 DEF Recorded
    <3>2. CASE session' = [session EXCEPT ![ChatOf(u)] = NoSession]
      BY <1>1, <3>2 DEF Recorded, StateTyped
    <3>3. CASE InitMessage(u)
      <4>1. PICK s \in Conversation(u) : session' = [session EXCEPT ![ChatOf(u)] = s]
        BY <3>3 DEF InitMessage
      <4>2. u \in processed
        BY <2>0, <3>3 DEF InitMessage, At, HandlingInv, Once, OnceAt, BeforeSend
      <4>3. s \in {NoSession} \cup processed
        BY <2>0, <4>1, <4>2 DEF Conversation, Recorded
      <4> QED
        BY <1>1, <4>1, <4>3 DEF Recorded, StateTyped
    <3>4. CASE HearNew(u)
      BY <3>2, <3>4, Zenon DEF HearNew
    <3> QED
      BY <1>5, <3>1, <3>3, <3>4 DEF Handle, Raise, Claim, LoadOwnerChat, WriteOwnerChat, HearOrder,
                  HearNothing, StartTurn, SendText, Quietly, agent
  <2>6. ownerChat' \in [Owners -> (Chats \ Groups) \cup {NoChat}]
    <3>1. CASE WriteOwnerChat(u)
      <4>1. ChatOf(u) \in Chats \ Groups
        BY <2>0, <3>1 DEF WriteOwnerChat, At, Recorded
      <4>2. ownerChat' = ownerChat \/ ownerChat' = [ownerChat EXCEPT ![OwnerOf(u)] = ChatOf(u)]
        BY <3>1 DEF WriteOwnerChat
      <4> QED
        BY <2>0, <4>1, <4>2 DEF Recorded
    <3>2. CASE ownerChat' = ownerChat
      BY <3>2 DEF Recorded
    <3> QED
      BY <1>5, <3>1, <3>2 DEF Handle, Raise, Claim, LoadOwnerChat, HearOrder, HearNothing,
                HearNew, StartTurn, InitMessage, SendText, Quietly, database
  <2>7. faults' \in 0..MaxFaults
    <3>1. faults' = faults \/ (faults < MaxFaults /\ faults' = faults + 1)
      BY <1>5 DEF Handle, Raise, Claim, LoadOwnerChat, WriteOwnerChat, HearOrder, HearNothing,
                HearNew, StartTurn, InitMessage, SendText, Quietly
    <3> QED
      BY <1>1, <3>1 DEF Recorded
  <2>8. \A v \in UpdateIds : task'[v].resume \in {NoSession} \cup processed'
    BY <2>0, <2>1, <2>2, <2>4 DEF Recorded
  <2>9. processed' \subseteq Sent'
    BY <2>3, <2>4 DEF Recorded
  <2>10. \A v \in Sent : task'[v].pc = "write_chat" => ChatOf(v) \notin Groups
    BY <1>1, <2>1, <2>2, SentTyped DEF Recorded
  <2> QED
    BY <2>3, <2>4, <2>5, <2>6, <2>7, <2>8, <2>9, <2>10 DEF Recorded
<1>6. CASE Crash
  <2>1. /\ UNCHANGED <<processed, ownerChat, inbox>> /\ faults < MaxFaults /\ faults' = faults + 1
        /\ session' = [c \in Chats |-> NoSession] /\ task' = [u \in UpdateIds |-> Task("none")]
    BY <1>6 DEF Crash, database
  <2>2. \A u \in UpdateIds : task'[u].pc = "none" /\ task'[u].resume = NoSession
    BY <2>1 DEF Task
  <2>3. Sent' = Sent /\ \A u : ChatOf(u)' = ChatOf(u)
    BY <2>1 DEF Sent, ChatOf
  <2>4. faults' \in 0..MaxFaults
    BY <1>1, <2>1 DEF Recorded
  <2>5. \A u \in Sent : task'[u].pc # "write_chat"
    BY <1>1, <2>2, SentTyped
  <2> QED
    BY <1>2, <2>1, <2>2, <2>3, <2>4, <2>5
<1>7. CASE UNCHANGED vars
  BY <1>7 DEF vars, telegram, agent, database, Recorded, Sent, ChatOf
<1> QED
  BY <1>3, <1>4, <1>5, <1>6, <1>7 DEF Next

\* At the start there is nothing to record.
LEMMA RecordedInit == Init => Recorded
<1> SUFFICES ASSUME Init PROVE Recorded
  OBVIOUS
<1>1. Sent = {} /\ MaxFaults \in Nat
  BY UpdatesAssumption DEF Init, Sent
<1> QED
  BY <1>1 DEF Init, Recorded, Task

EdgeInv == HandlingInv /\ Talks /\ Recorded

\* The whole invariant of the bot's edge.
LEMMA EdgeInvHolds == Spec => []EdgeInv
<1>1. Init => EdgeInv
  BY HandlingInvInit, TalksInit, RecordedInit DEF EdgeInv
<1>2. EdgeInv /\ [Next]_vars => EdgeInv'
  <2> SUFFICES ASSUME EdgeInv, [Next]_vars PROVE EdgeInv'
    OBVIOUS
  <2>1. HandlingInv /\ StateTyped /\ Talks /\ Recorded
    BY DEF EdgeInv, HandlingInv
  <2>2. StateTyped' /\ CountsTyped' /\ Once'
    BY <2>1, StateTypedStep, OnceStep
  <2> QED
    BY <2>1, <2>2, TalksStep, RecordedStep DEF EdgeInv, HandlingInv
<1> QED
  BY <1>1, <1>2, PTL DEF Spec

-----------------------------------------------------------------------------
(* Theorems *)

\* HandledAtMostOnce holds for any number of owners, chats, messages, crashes and
\* failures: an update that Telegram delivers again, while or after it was
\* handled, starts no second agent turn and gets no second answer.
THEOREM UpdatesHandledAtMostOnce == Spec => []HandledAtMostOnce
<1>1. Init => HandlingInv
  BY HandlingInvInit
<1>2. HandlingInv /\ [Next]_vars => HandlingInv'
  BY StateTypedStep, OnceStep DEF HandlingInv
<1>3. HandlingInv => HandledAtMostOnce
  BY DEF HandlingInv, Once, OnceAt, HandledAtMostOnce
<1> QED
  BY <1>1, <1>2, <1>3, PTL DEF Spec

\* An owner who waits for each answer talks to an agent that remembers exactly
\* what was said in the chat since the last "/new", whatever other chats do at
\* the same time: the turn of one chat never lands in another's conversation.
THEOREM AgentRemembers == Spec => []RemembersConversation
<1>1. EdgeInv => RemembersConversation
  BY DEF EdgeInv, Talks, CalmAt, RemembersConversation
<1> QED
  BY <1>1, EdgeInvHolds, PTL

\* The variables have their types: a turn starts, and a session is named, only
\* for an update on record, and no group is ever stored as an owner's chat.
THEOREM EdgeTyped == Spec => []TypeOK
<1>1. EdgeInv => TypeOK
  <2> SUFFICES ASSUME EdgeInv PROVE TypeOK
    OBVIOUS
  <2>1. StateTyped /\ CountsTyped /\ Once /\ Delivered /\ Recorded
    BY DEF EdgeInv, HandlingInv, Talks
  <2>2. inbox \in Seq(Messages) /\ Len(inbox) <= MaxUpdates /\ Len(inbox) \in Nat
    BY <2>1 DEF StateTyped
  <2>3. confirmed \in 0..polled /\ polled \in 0..Len(inbox)
    BY <2>1, <2>2 DEF Delivered
  <2>4. session \in [Chats -> {NoSession} \cup processed]
    <3>1. session \in [Chats -> 0..MaxUpdates] /\ \A c \in Chats : session[c] \in {NoSession} \cup processed
      BY <2>1 DEF StateTyped, Recorded
    <3> QED
      BY <3>1
  <2>5. ASSUME NEW u \in UpdateIds
        PROVE  /\ task[u].pc \in Awaiting \cup {"none", "done", "failed"}
               /\ task[u].resume \in {NoSession} \cup processed
               /\ u > polled => task[u].pc = "none"
               /\ turns[u] > 0 => u \in processed
    <3>1. task[u].pc \in Awaiting \cup {"none", "done", "failed"}
      BY <2>1 DEF StateTyped, TaskType
    <3>2. turns[u] > 0 => u \in processed
      BY <2>1 DEF Once, OnceAt
    <3> QED
      BY <2>1, <3>1, <3>2 DEF Recorded, Delivered
  <2> QED
    BY <2>1, <2>2, <2>3, <2>4, <2>5 DEF TypeOK, Recorded, Sent
<1> QED
  BY <1>1, EdgeInvHolds, PTL
=============================================================================
