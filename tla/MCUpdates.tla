----------------------------- MODULE MCUpdates -----------------------------
(* Instances of Updates for TLC.                                           *)
EXTENDS Updates

Msg(o, c, k) == [owner |-> o, chat |-> c, kind |-> k]

\* One owner who sends voice notes, which may say anything, from a private chat
\* and photos from a group.
FaultyMessages == {Msg("ravi", "home", "voice"), Msg("ravi", "group", "photo")}

\* One owner writes from two private chats; some messages are not for the bot.
TwoChatMessages ==
  {Msg("ravi", "home", "text"), Msg("ravi", "shop", "/new"), Msg("ravi", "home", "other")}
=============================================================================
