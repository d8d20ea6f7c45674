------------------------------- MODULE Inbox -------------------------------
(* What reaches the browser of an employee: the notifications that are     *)
(* pushed to its socket (Notifications, with SocketRegistry), and the      *)
(* messages of a tab that it reads and is sent (Conversations).            *)
EXTENDS Notifications

CONSTANTS People, PageRows, Times, Size, MaxMessages, MaxUnsent
VARIABLES message, pageRow, unsent, reader

Tab == INSTANCE Conversations
conversation == <<message, pageRow, unsent, reader>>
delivery == <<notification, adding, queue, worker, delivered, crashes, history>>

ASSUME ConversationsAssumption == Tab!ConversationAssumption
-----------------------------------------------------------------------------
(* Who scrolls through a conversation sees each of its messages once, but  *)
(* for named causes (Conversations).                                       *)
PagesAreExact == Tab!PagesAreExact

(* The list of conversations has every customer who wrote, with the newest *)
(* message (Conversations).                                                *)
ListIsComplete == Tab!ListIsComplete
=============================================================================
