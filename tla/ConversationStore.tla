--------------------------- MODULE ConversationStore ---------------------------
(***************************************************************************)
(* The web page's chats in the browser's storage, as                        *)
(* app/conversation_management_ui.py keeps them: every save with its        *)
(* retention and its restoration after a failed write, and the operations   *)
(* that change a chat and take the change back when it cannot be saved.     *)
(*                                                                         *)
(* A write may fail at any time: what the browser grants is shared with all *)
(* the page stores.  Of titles, search, export and focus nothing is here.  A chat is pinned or waits for *)
(* its model, not both; a draft protects a chat as pinning does.            *)
(***************************************************************************)
EXTENDS FiniteSets

CONSTANT StoreChats  \* chat identifiers

ASSUME StoreAssumption == IsFiniteSet(StoreChats) /\ StoreChats # {}

VARIABLES
  local,      \* chats, as the page has them
  current,    \* activeChatId
  stored,     \* CHATS_KEY
  storedCurrent, \* ACTIVE_CHAT_KEY
  retention,  \* chats not used for some time are removed
  storeHistory \* for the properties: the last save failed; the chats the user removed

storeVars == <<local, current, stored, storedCurrent, retention, storeHistory>>

Marks == {"none", "pinned", "pending"}
ChatStates == [used : BOOLEAN, mark : Marks, archived : BOOLEAN, old : BOOLEAN]
Empty == [used |-> FALSE, mark |-> "none", archived |-> FALSE, old |-> FALSE]
\* A list of chats is a function of the identifiers in it.
None == [c \in {} |-> Empty]
Has(list, c) == c \in DOMAIN list
Without(list, S) == [c \in DOMAIN list \ S |-> list[c]]
With(list, c, chat) == [d \in DOMAIN list \cup {c} |-> IF d = c THEN chat ELSE list[d]]
IsList(list) == DOMAIN list \subseteq StoreChats /\ \A c \in DOMAIN list : list[c] \in ChatStates
StoreTypeOK ==
  /\ IsList(local) /\ IsList(stored) /\ current \in DOMAIN local /\ storedCurrent \in StoreChats
  /\ retention \in BOOLEAN
  /\ storeHistory.unsaved \in BOOLEAN /\ storeHistory.removed \subseteq StoreChats
  /\ storeHistory.cleared \subseteq StoreChats

First == CHOOSE c \in StoreChats : TRUE
StoreInit ==
  /\ local = With(None, First, Empty) /\ current = First
  /\ stored = local /\ storedCurrent = First /\ retention = FALSE
  /\ storeHistory = [unsaved |-> FALSE, removed |-> {}, cleared |-> {}]

-----------------------------------------------------------------------------
(* Saving.                                                                  *)

\* Regression form: a chat that was pinned is removed too.
CandidatesPinned(list, active) ==
  {c \in DOMAIN list : c # active /\ list[c].mark # "pending" /\ list[c].old}

\* Regression form: the chat on screen is removed too.
CandidatesEvenShown(list, active) == {c \in DOMAIN list : list[c].mark = "none" /\ list[c].old}

\* retentionCandidates
Candidates(list, active) ==
  {c \in DOMAIN list : c # active /\ list[c].mark = "none" /\ list[c].old}

Retained(list, active, keep) == IF keep THEN Without(list, Candidates(list, active)) ELSE list

\* persistChats: what the page and the storage have after a write that succeeds or not
Persist(list, active, keep, ok) ==
  LET next == Retained(list, active, keep) IN
  IF ok THEN [local |-> next, stored |-> next, active |-> active]
  ELSE [local |-> list, stored |-> stored, active |-> storedCurrent]

\* An operation whose change stays in the page when it cannot be saved.
Keeps(list, active, history) ==
  \E ok \in BOOLEAN :
    LET p == Persist(list, active, retention, ok) IN
    /\ local' = p.local /\ current' = active /\ stored' = p.stored /\ storedCurrent' = p.active
    /\ storeHistory' = [history EXCEPT !.unsaved = ~ok]
    /\ UNCHANGED retention

\* An operation that has saved a list and then shows another chat, which is saved too.
SavedThenShows(list, active) ==
  LET first == Persist(list, current, retention, TRUE) IN
  \/ LET second == Persist(first.local, active, retention, TRUE) IN
     /\ local' = second.local /\ stored' = second.stored /\ current' = active /\ storedCurrent' = active
     /\ storeHistory' = [storeHistory EXCEPT !.unsaved = FALSE] /\ UNCHANGED retention
  \/ /\ local' = first.local /\ stored' = first.stored /\ current' = active /\ storedCurrent' = current
     /\ storeHistory' = [storeHistory EXCEPT !.unsaved = TRUE] /\ UNCHANGED retention

\* Regression form: a change that cannot be saved stays in the page.
KeepsAnyway(list, active) ==
  \E ok \in BOOLEAN :
    LET p == Persist(list, active, retention, ok) IN
    /\ local' = p.local /\ current' = active /\ stored' = p.stored /\ storedCurrent' = p.active
    /\ UNCHANGED <<retention, storeHistory>>

\* An operation that takes its change back: the page is what it was.
TakesBack(list, active) ==
  \/ LET p == Persist(list, active, retention, TRUE) IN
     /\ local' = p.local /\ current' = active /\ stored' = p.stored /\ storedCurrent' = p.active
     /\ storeHistory' = [storeHistory EXCEPT !.unsaved = FALSE] /\ UNCHANGED retention
  \/ UNCHANGED storeVars

-----------------------------------------------------------------------------
(* Operations.                                                              *)

\* A message or an answer, a prompt that waits, the end of its wait: saveConversation and saveChats
Changed(c) ==
  {[local[c] EXCEPT !.used = TRUE, !.old = FALSE],
   [local[c] EXCEPT !.mark = IF @ = "pending" THEN "none" ELSE @]}
  \cup (IF c = current /\ local[c].mark = "none"
        THEN {[local[c] EXCEPT !.used = TRUE, !.mark = "pending", !.old = FALSE]} ELSE {})
ChangeChat(c) == \E chat \in Changed(c) : Keeps([local EXCEPT ![c] = chat], current, storeHistory)

SwitchTo(c) == c # current /\ Keeps(local, c, storeHistory)

\* Identifiers are not used again.
Fresh(c) == c \notin DOMAIN local \cup storeHistory.removed \cup storeHistory.cleared

\* newChat, unless the current chat is empty
StartChat(c) == Fresh(c) /\ local[current].used /\ Keeps(With(local, c, Empty), c, storeHistory)

\* storageWritableForDeletion tries a write of what is stored; the list without the chat
\* is saved after the page has dropped it.
RemoveChat(c) ==
  \E next \in StoreChats \ {c} :
    LET rest == Without(local, {c})
        list == IF DOMAIN rest = {} THEN With(None, next, Empty) ELSE rest
        active == IF c = current THEN next ELSE current IN
    /\ DOMAIN rest = {} => Fresh(next)
    /\ Has(list, active) /\ Keeps(list, active, [storeHistory EXCEPT !.removed = @ \cup {c}])

TogglePin(c) ==
  /\ local[c].mark \in {"none", "pinned"}
  /\ TakesBack([local EXCEPT ![c].mark = IF @ = "pinned" THEN "none" ELSE "pinned", ![c].old = FALSE], current)

\* The chat that becomes current when the current one is archived: another one, or a new
\* one that must be saved too; when it cannot, the archiving is taken back.
ToggleArchive(c) ==
  LET archiving == ~local[c].archived
      list == [local EXCEPT ![c].archived = archiving, ![c].old = FALSE]
      saved == Persist(list, current, retention, TRUE).local
      others == {d \in DOMAIN saved \ {c} : ~saved[d].archived} IN
  /\ local[c].mark # "pending"
  /\ IF ~archiving \/ c # current THEN TakesBack(list, current)
     ELSE \/ UNCHANGED storeVars
          \/ \E d \in others : SavedThenShows(list, d)
          \/ others = {} /\ \E d \in StoreChats : Fresh(d) /\ SavedThenShows(With(saved, d, Empty), d)
          \/ /\ others = {}     \* what retention removed in between stays removed
             /\ LET back == [saved EXCEPT ![c] = local[c]] IN
                /\ local' = back /\ stored' \in {back, saved} /\ storedCurrent' = current
                /\ storeHistory' = [storeHistory EXCEPT !.unsaved = stored' # back]
             /\ UNCHANGED <<current, retention>>

\* duplicateChat and importJsonFile: the new chat is saved, then shown.
AddChat(c, chat) ==
  /\ Fresh(c)
  /\ SavedThenShows(With(local, c, chat), c) \/ UNCHANGED storeVars
Duplicate(c, d) == Has(local, d) /\ AddChat(c, [Empty EXCEPT !.used = local[d].used])
Import(c) ==
  \E mark \in {"none", "pinned"}, archived \in BOOLEAN :
    AddChat(c, [Empty EXCEPT !.used = TRUE, !.mark = mark, !.archived = archived])

\* The user has confirmed what a new retention removes.
ChangeRetention ==
  LET p == Persist(local, current, ~retention, TRUE) IN
  /\ local' = p.local /\ stored' = p.stored /\ storedCurrent' = current /\ retention' = ~retention
  /\ storeHistory' = [storeHistory EXCEPT !.unsaved = FALSE]
  /\ UNCHANGED current

\* The storage is emptied, and a new chat written.
ClearChats(c) ==
  /\ Fresh(c) /\ local' = With(None, c, Empty) /\ current' = c /\ storedCurrent' = c
  /\ \E ok \in BOOLEAN :
       /\ stored' = IF ok THEN local' ELSE None
       /\ storeHistory' = [storeHistory EXCEPT !.cleared = @ \cup DOMAIN local, !.unsaved = ~ok]
  /\ UNCHANGED retention

\* Time passes; a prompt waits for a day at most, no retention is that short.
Ages(c) ==
  /\ ~local[c].old /\ local[c].mark # "pending" /\ (Has(stored, c) => stored[c].mark # "pending")
  /\ local' = [local EXCEPT ![c].old = TRUE]
  /\ stored' = (IF Has(stored, c) THEN [stored EXCEPT ![c].old = TRUE] ELSE stored)
  /\ UNCHANGED <<current, storedCurrent, retention, storeHistory>>

\* loadChats, and the save with which every page begins
ReloadPage ==
  LET active == IF Has(stored, storedCurrent) THEN storedCurrent ELSE CHOOSE c \in DOMAIN stored : TRUE IN
  DOMAIN stored # {} /\ Keeps(stored, active, storeHistory)

StoreNext ==
  \/ \E c \in DOMAIN local :
       ChangeChat(c) \/ SwitchTo(c) \/ RemoveChat(c) \/ TogglePin(c) \/ ToggleArchive(c) \/ Ages(c)
  \/ \E c \in StoreChats :
       StartChat(c) \/ Import(c) \/ ClearChats(c) \/ (\E d \in StoreChats : Duplicate(c, d))
  \/ ChangeRetention \/ ReloadPage

StoreSpec == StoreInit /\ [][StoreNext]_storeVars

-----------------------------------------------------------------------------
\* Unless its last save failed the page is what a reload would show; an operation that was
\* taken back leaves them as they were (conversation_management_ui.py:292-321).
PageIsStored ==
  ~storeHistory.unsaved => stored = local /\ storedCurrent = current

\* Cleared chats never come back, whatever is saved later.
ClearedIsGone ==
  storeHistory.cleared \cap (DOMAIN local \cup DOMAIN stored) = {}

\* What the page promises of its chats.
StoreSafe == PageIsStored /\ ClearedIsGone

\* Saving never drops a chat that is pinned or waits for its model
\* (conversation_management_ui.py:1001-1002), and a deleted chat, once it has left the
\* storage, never returns to it.
ChatsAreKept ==
  [][ /\ \A c \in DOMAIN local :
           (local[c].mark # "none" /\ c \notin storeHistory'.removed \cup storeHistory'.cleared
              /\ ~storeHistory.unsaved)
           => Has(local', c)
      /\ \A c \in storeHistory.removed : Has(stored', c) => Has(stored, c) ]_storeVars

\* A conversation the page has deleted does not come back ("The conversation was not
\* deleted.", conversation_management_ui.py:351, is what the page says when it cannot write).
\* It does when that write fails after all.
DeletedIsGone == storeHistory.removed \cap DOMAIN local = {}
=============================================================================
