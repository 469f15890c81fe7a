------------------------------ MODULE Announce ------------------------------
(***************************************************************************)
(* Where a game is announced: the message of its chat and the message of   *)
(* its channel that the row of Game names, and that every refresh edits.   *)
(*                                                                         *)
(* Jobs, listeners and the bot load the row, await Telegram, and commit    *)
(* the columns they changed.  Telegram forwards the posts of a channel to  *)
(* the group that discusses it; the bot replaces the forward of a          *)
(* published game by a message of its own, and moves the game there.       *)
(* Nothing is locked on purpose, but the session flushes what it changed   *)
(* before its next query, and from then on others wait for the row.        *)
(***************************************************************************)
EXTENDS Integers, FiniteSets

CONSTANTS
  Hands,     \* jobs, listeners and handlers at work
  MaxPosts,  \* bound on the messages
  Overlap    \* whether two of them post at once, other than a publisher that
             \* has flushed its post in the channel and handlers of forwards

VARIABLES
  row,      \* Game.chat_id, message_id, channel_id, channel_message_id
  posted,   \* the messages the bot sent about the game
  gone,     \* those that people deleted
  forwards, \* posts of the channel whose forward the bot has yet to see
  holder,   \* whose uncommitted UPDATE holds the row
  hand      \* how far each of them has come

announceVars == <<row, posted, gone, forwards, holder, hand>>

NoHand   == "nobody"

ASSUME AnnounceHands == NoHand \notin Hands /\ Overlap \in BOOLEAN

Resting  == [duty |-> "none", at |-> "rest"]
Message(chat, id) == [chat |-> chat, id |-> id]
NewPost  == Cardinality(posted) + 1

\* The columns of f where it has them, those of g elsewhere.
Over(f, g) == [c \in DOMAIN g |-> IF c \in DOMAIN f THEN f[c] ELSE g[c]]
Unset      == [c \in {} |-> 0]

\* A game of a group or of a channel, not announced yet.
AnnounceInit ==
  /\ row \in [chat : {"group", "channel"}, message : {0}, channel : {"none"}, cmsg : {0}]
  /\ posted = {} /\ gone = {} /\ forwards = {}
  /\ holder = NoHand
  /\ hand = [h \in Hands |-> Resting]

(***************************************************************************)
(* Each of them begins with the row as it is; .wants is what it has set.   *)
(***************************************************************************)
Undertake(h, duty, at, wants) ==
  /\ hand[h] = Resting
  /\ hand' = [hand EXCEPT ![h] = [duty |-> duty, at |-> at, read |-> row, wants |-> wants]]
  /\ UNCHANGED <<row, posted, gone, holder>>

Alone == \A h \in Hands : hand[h] = Resting

\* on_game_created, if the game is to be published at once.  Telegram may
\* not say what kind of chat it is.
CreatedBegin(h, known) ==
  /\ posted = {} /\ Alone
  /\ Undertake(h, "created", "flush",
               IF known /\ row.chat = "channel" THEN [channel |-> "channel"] ELSE Unset)
  /\ UNCHANGED forwards

\* publish_game_task: scheduled, or by the command republish.
PublishBegin(h) ==
  /\ Overlap \/ Alone
  /\ Undertake(h, "publish", IF row.channel = "none" THEN "flush" ELSE "channel", Unset)
  /\ UNCHANGED forwards

\* on_teams_published sends the message anew if there is none to edit.
TeamsBegin(h) ==
  /\ Overlap \/ Alone
  /\ row.message = 0 \/ Message(row.chat, row.message) \in gone
  /\ Undertake(h, "teams", "flush", Unset)
  /\ UNCHANGED forwards

\* The post in the channel is written, if not committed yet.
Flushed(t) == t.duty = "publish" /\ t.at \in {"post", "write"} /\ "cmsg" \in DOMAIN t.wants

\* handle_auto_forward: nothing is committed if the game is at home in the
\* group already.
ForwardBegin(h, id) ==
  /\ id \in forwards
  /\ \/ Overlap
     \/ \A k \in Hands : \/ hand[k].duty \in {"none", "forward"}
                         \/ Flushed(hand[k])
  /\ forwards' = forwards \ {id}
  /\ IF row.chat = "group" /\ row.message # 0
       THEN UNCHANGED <<row, posted, gone, holder, hand>>
       ELSE Undertake(h, "forward", "flush", [channel |-> "channel", cmsg |-> id])

(***************************************************************************)
(* Posting and writing.                                                    *)
(***************************************************************************)
\* The full text in the channel, with the link by which its forward is
\* known; a failure is logged.
PostChannel(h, arrives) ==
  /\ hand[h].at = "channel"
  /\ NewPost <= MaxPosts
  /\ IF arrives
       THEN /\ posted' = posted \cup {Message("channel", NewPost)}
            /\ forwards' = forwards \cup {NewPost}
            /\ hand' = [hand EXCEPT ![h].at = "flush", ![h].wants = [cmsg |-> NewPost]]
       ELSE /\ hand' = [hand EXCEPT ![h].at = "flush"]
            /\ UNCHANGED <<posted, forwards>>
  /\ UNCHANGED <<row, gone, holder>>

Dirty(t) == {c \in DOMAIN t.wants : t.wants[c] # t.read[c]}

\* (mutated: nothing is written before the commit)
FlushLate(h) ==
  /\ hand[h].at = "flush"
  /\ hand' = [hand EXCEPT ![h].at = "post"]
  /\ UNCHANGED <<row, posted, gone, forwards, holder>>

\* The query for the language of the chat flushes what was changed.
Flush(h) ==
  /\ hand[h].at = "flush"
  /\ Dirty(hand[h]) # {} => holder = NoHand
  /\ holder' = IF Dirty(hand[h]) # {} THEN h ELSE holder
  /\ hand' = [hand EXCEPT ![h].at = "post"]
  /\ UNCHANGED <<row, posted, gone, forwards>>

\* The message for the chat: for that of the row as it was loaded, or for
\* the group of the forward (in answer to it, if the forward stays).
Target(t) == IF t.duty = "forward" THEN "group" ELSE t.read.chat

Sent(t, id) ==
  LET channel == Over(t.wants, t.read).channel
      base    == IF t.duty = "forward" THEN [chat |-> "group", message |-> id]
                 ELSE IF t.duty = "created" /\ channel = t.read.chat
                        THEN [cmsg |-> id, message |-> id]
                        ELSE [message |-> id]
  IN  [c \in DOMAIN base \cup DOMAIN t.wants |-> IF c \in DOMAIN base THEN base[c] ELSE t.wants[c]]

PostChat(h) ==
  /\ hand[h].at = "post"
  /\ NewPost <= MaxPosts
  /\ posted' = posted \cup {Message(Target(hand[h]), NewPost)}
  /\ hand' = [hand EXCEPT ![h].at = "write", ![h].wants = Sent(hand[h], NewPost)]
  /\ UNCHANGED <<row, gone, forwards, holder>>

Released(h) == IF holder = h THEN NoHand ELSE holder

WriteRow(h) ==
  LET t == hand[h]
  IN  /\ t.at = "write"
      /\ holder \in {NoHand, h}
      /\ row' = Over([c \in Dirty(t) |-> t.wants[c]], row)
      /\ holder' = Released(h)
      /\ hand' = [hand EXCEPT ![h] = Resting]
      /\ UNCHANGED <<posted, gone, forwards>>

\* Telegram refuses, or the process dies: nothing is committed.
Abandon(h) ==
  /\ hand[h].at # "rest"
  /\ holder' = Released(h)
  /\ hand' = [hand EXCEPT ![h] = Resting]
  /\ UNCHANGED <<row, posted, gone, forwards>>

Remove(m) ==
  /\ m \in posted \ gone
  /\ gone' = gone \cup {m}
  /\ UNCHANGED <<row, posted, forwards, holder, hand>>

AnnounceNext ==
  \/ \E h \in Hands :
       \/ \E known \in BOOLEAN : CreatedBegin(h, known)
       \/ PublishBegin(h)
       \/ TeamsBegin(h)
       \/ \E id \in forwards : ForwardBegin(h, id)
       \/ \E arrives \in BOOLEAN : PostChannel(h, arrives)
       \/ Flush(h)
       \/ PostChat(h)
       \/ WriteRow(h)
       \/ Abandon(h)
  \/ \E m \in posted : Remove(m)

AnnounceSpec == AnnounceInit /\ [][AnnounceNext]_announceVars

(***************************************************************************)
(* Properties.                                                             *)
(***************************************************************************)

\* The row names messages of the bot, each in its own chat, so that a
\* refresh edits the game's own ("Updates the live game message in both
\* primary and channel chats", utils.py:376): although a publisher writes
\* the number of a message and the handler of its forward, which began
\* meanwhile, the number and the chat of another.
NamesOwnMessages ==
  /\ row.message # 0 => Message(row.chat, row.message) \in posted
  /\ row.cmsg # 0 => row.channel # "none" /\ Message(row.channel, row.cmsg) \in posted
=============================================================================
