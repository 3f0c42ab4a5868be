-------------------------------- MODULE Chatbot --------------------------------
(***************************************************************************)
(* The chat page of the template: its conversations, the one that is        *)
(* active, and one request per conversation that goes on while another is   *)
(* shown. The messages themselves are kept by the chat library.             *)
(***************************************************************************)
EXTENDS Naturals

CONSTANTS
  Presets,   \* conversations the page begins with, "default" among them
  Default,
  MaxNew     \* bound: conversations that are created

VARIABLES
  conversations,  \* keys of the list
  newest,         \* the first of the list is the newest of these
  drafts,         \* conversations without a message of this page
  activeKey,
  counter,        \* idCounter
  answering       \* conversations with a request under way

vars == <<conversations, newest, drafts, activeKey, counter, answering>>

New == 1..MaxNew
All == Presets \cup New

TypeOK ==
  /\ conversations \subseteq All /\ newest \in All
  /\ drafts \subseteq All /\ activeKey \in All /\ counter \in 0..MaxNew
  /\ answering \subseteq All

Init ==
  /\ conversations = Presets /\ newest = Default
  /\ drafts = {Default} /\ activeKey = Default /\ counter = 0 /\ answering = {}

\* newChat: in front of the others, and active.
NewChat ==
  /\ counter < MaxNew /\ counter' = counter + 1
  /\ conversations' = conversations \cup {counter'} /\ drafts' = drafts \cup {counter'}
  /\ newest' = counter' /\ activeKey' = counter'
  /\ UNCHANGED answering

Activate(c) ==
  /\ c \in conversations /\ c # activeKey /\ activeKey' = c
  /\ UNCHANGED <<conversations, newest, drafts, counter, answering>>

\* sendMessage: the sender is busy while the active conversation has a request.
\* The first message names a draft.
Send ==
  /\ activeKey \notin answering
  /\ answering' = answering \cup {activeKey}
  /\ drafts' = drafts \ {activeKey}
  /\ UNCHANGED <<conversations, newest, activeKey, counter>>

\* The answer ends, is cancelled or fails.
Answered(c) ==
  /\ c \in answering /\ answering' = answering \ {c}
  /\ UNCHANGED <<conversations, newest, drafts, activeKey, counter>>

\* Variant: the list may become empty.
Delete_All(c) ==
  /\ c \in conversations
  /\ conversations' = conversations \ {c} /\ drafts' = drafts \ {c}
  /\ \E f \in conversations' \cup {newest} :
       /\ newest' = f
       /\ activeKey' = IF c = activeKey THEN f ELSE activeKey
  /\ UNCHANGED <<counter, answering>>

\* Another takes its place: the first that is left, or a new one. The request
\* of a conversation that is deleted goes on.
Delete(c) ==
  /\ c \in conversations
  /\ LET left == conversations \ {c} IN
     \/ /\ left = {} /\ counter < MaxNew
        /\ counter' = counter + 1
        /\ conversations' = {counter'} /\ drafts' = {counter'}
        /\ newest' = counter' /\ activeKey' = counter'
     \/ /\ left # {}
        /\ conversations' = left /\ drafts' = drafts \ {c}
        /\ \E f \in left :
             /\ c # newest => f = newest
             /\ newest' = f
             /\ activeKey' = IF c = activeKey THEN f ELSE activeKey
        /\ UNCHANGED counter
  /\ UNCHANGED answering

Next ==
  \/ NewChat \/ Send
  \/ \E c \in All : Activate(c) \/ Answered(c) \/ Delete(c)

Spec == Init /\ [][Next]_vars

\* The conversation that is active is one of the list, whatever is deleted and
\* created: what is typed goes to a conversation the user can see.
ActiveIsListed == activeKey \in conversations
=============================================================================
