--------------------------------- MODULE Chat ---------------------------------
(***************************************************************************)
(* The interactive chat: panes, keys, and at most one request to the daemon *)
(* in flight, sent by a key and answered while more keys are pressed. The   *)
(* answer is handled in one go: the loop reads no key before the threads    *)
(* have been refreshed and the thread concerned has been loaded again.      *)
(*                                                                          *)
(* A message and its placeholder are put in the timeline before it is known *)
(* whether the request can be sent. Colours, lines and scrolling are left   *)
(* out, and so is the composer: Enter sends a message when it has one. The  *)
(* two Esc that make a quick pair are one key.                              *)
(***************************************************************************)
EXTENDS Naturals, Sequences, SequencesExt, FiniteSets

CONSTANTS
  System0,    \* SYSTEM_THREAD_ID
  SubThreads,
  MaxSends    \* bound: messages

ChatThreads == {System0} \cup SubThreads
NoThread == "none"

ASSUME ChatAssumption ==
  /\ System0 \notin SubThreads /\ NoThread \notin ChatThreads
  /\ IsFiniteSet(SubThreads) /\ MaxSends \in Nat

VARIABLES
  listed,        \* the threads, as the sidebar shows them
  readOnly,      \* saved threads, to be resurrected first
  items,         \* the timeline of each thread
  selected,      \* the selected item of each, from 1; 0: never selected
  active, sidebar, \* the thread shown, and the one selected in the sidebar
  focus, navigating, hidden, filter,
  pending,       \* the request in flight
  pendingThread, \* pending_thread_id
  placeholder,   \* pending_placeholder_index_by_thread; 0: none
  sends,
  early          \* history: a message was sent while a request was in flight

paneVars == <<active, sidebar, focus, navigating, hidden, filter>>
pendingVars == <<pending, pendingThread, placeholder>>
chatVars == <<listed, readOnly, items, selected, paneVars, pendingVars, sends, early>>

NoRequest == [kind |-> "none", thread |-> NoThread]
Request(kind, t) == [kind |-> kind, thread |-> t]

\* What the daemon may hold of a thread: a link is a delegation to a sub-agent thread.
Timelines == {<<"text">>, <<"text", "link">>}
Listings == {<<System0>> \o s : s \in UNION {SetToSeqs(S) : S \in SUBSET SubThreads}}
Saved(list) ==
  {saved \in [ChatThreads -> BOOLEAN] : \A t \in ChatThreads : saved[t] => t # System0 /\ Contains(list, t)}

ChatInit ==
  /\ listed \in Listings /\ readOnly \in Saved(listed)
  /\ items = [t \in ChatThreads |-> IF readOnly[t] THEN <<"note">> ELSE <<>>]
  /\ selected = [t \in ChatThreads |-> 0]
  /\ active = System0 /\ sidebar = System0 /\ focus = "input" /\ navigating = FALSE
  /\ hidden = FALSE /\ filter = "all"
  /\ pending = NoRequest /\ pendingThread = NoThread
  /\ placeholder = [t \in ChatThreads |-> 0] /\ sends = 0 /\ early = FALSE

-----------------------------------------------------------------------------
(* Keys.                                                                    *)

\* The keys that move between panes and modes.
Escape ==
  /\ navigating' = ~navigating /\ focus' = IF navigating THEN "input" ELSE "main"
  /\ UNCHANGED <<listed, readOnly, items, selected, active, sidebar, hidden, filter,
                 pendingVars, sends, early>>

NavigationInput ==
  /\ navigating
  /\ navigating' = FALSE /\ focus' = "input"
  /\ UNCHANGED <<listed, readOnly, items, selected, active, sidebar, hidden, filter,
                 pendingVars, sends, early>>

NextPane == [sidebar |-> "main", main |-> "input", input |-> "sidebar"]
PrevPane == [sidebar |-> "input", main |-> "sidebar", input |-> "main"]
Skipping(panes) == IF panes[focus] = "sidebar" /\ hidden THEN panes["sidebar"] ELSE panes[focus]

CycleFocus(panes) ==
  /\ ~navigating
  /\ focus' = Skipping(panes)
  /\ UNCHANGED <<listed, readOnly, items, selected, active, sidebar, navigating, hidden, filter,
                 pendingVars, sends, early>>

\* Ctrl+B; a narrow window hides the sidebar too, when it is drawn.
ToggleSidebar ==
  /\ hidden' = ~hidden
  /\ focus' = IF hidden' /\ focus = "sidebar" THEN "main" ELSE focus
  /\ UNCHANGED <<listed, readOnly, items, selected, active, sidebar, navigating, filter,
                 pendingVars, sends, early>>

Visible(f) == {k \in DOMAIN items[active] : f = "all" \/ items[active][k] = "link"}

\* align_selection_to_filter: the nearest visible item before, else the first.
Aligned(f) ==
  LET s == selected[active]  V == Visible(f)
  IN  IF s \in V \/ V = {} THEN s
      ELSE IF \E k \in V : k < s THEN CHOOSE k \in V : k < s /\ \A j \in V : j < s => j <= k
      ELSE CHOOSE k \in V : \A j \in V : k <= j

\* Up, down, and the keys that act on the item selected.
SelectMain(k) ==
  /\ focus = "main"
  /\ k \in Visible(filter)
  /\ \A j \in Visible(filter) : ~(j > k /\ j < Aligned(filter)) /\ ~(j < k /\ j > Aligned(filter))
  /\ selected' = [selected EXCEPT ![active] = k]
  /\ UNCHANGED <<listed, readOnly, items, active, sidebar, focus, navigating, hidden, filter,
                 pendingVars, sends, early>>

SetFilter(f) ==
  /\ focus = "main"
  /\ filter' = f /\ selected' = [selected EXCEPT ![active] = Aligned(f)]
  /\ UNCHANGED <<listed, readOnly, items, active, sidebar, focus, navigating, hidden,
                 pendingVars, sends, early>>

SelectSidebar(k) ==
  /\ focus = "sidebar" /\ ~navigating
  /\ k \in DOMAIN listed
  /\ sidebar' = listed[k]
  /\ UNCHANGED <<listed, readOnly, items, selected, active, focus, navigating, hidden, filter,
                 pendingVars, sends, early>>

\* The loop refuses a second request: "Request already in progress".
Submits(request) == pending' = IF pending = NoRequest THEN request ELSE pending

\* submit and start_local_send; the message and the placeholder stay if it is refused.
Send ==
  /\ focus = "input" /\ ~navigating /\ ~readOnly[active] /\ sends < MaxSends
  /\ sends' = sends + 1
  /\ items' = [items EXCEPT ![active] = @ \o <<"user", "thinking">>]
  /\ placeholder' = [placeholder EXCEPT ![active] = Len(items'[active])]
  /\ selected' = [selected EXCEPT ![active] = Len(items'[active])]
  /\ pendingThread' = active
  /\ Submits(Request("turn", active))
  /\ early' = (early \/ pending # NoRequest)
  /\ UNCHANGED <<listed, readOnly, active, sidebar, focus, navigating, hidden, filter>>

Open(t) ==
  /\ active' = t /\ sidebar' = t /\ focus' = "main"
  /\ Submits(Request("open", t))
  /\ UNCHANGED <<listed, readOnly, items, navigating, hidden, filter, pendingThread,
                 placeholder, sends, early>>

OpenFromSidebar == focus = "sidebar" /\ ~navigating /\ Open(sidebar) /\ UNCHANGED selected

\* A delegation's card leads to its thread, if the sidebar has it.
OpenLink(t) ==
  LET k == Aligned(filter)
  IN  /\ focus = "main" /\ k \in Visible(filter) /\ items[active][k] = "link"
      /\ t \in SubThreads /\ Contains(listed, t)
      /\ selected' = [selected EXCEPT ![active] = k]
      /\ Open(t)

-----------------------------------------------------------------------------
(* The answer to the request.                                               *)

\* sync_thread_summaries: threads the daemon does not list are dropped.
Synced(list, saved) ==
  [t \in ChatThreads |->
     IF ~Contains(list, t) THEN <<>>
     ELSE IF items[t] = <<>> /\ saved[t] THEN <<"note">> ELSE items[t]]
KeptOr(list, t, other) == IF Contains(list, t) THEN t ELSE other
SyncPanes(list) ==
  /\ active' = KeptOr(list, active, System0)
  /\ sidebar' = KeptOr(list, sidebar, active')

NoRefresh == UNCHANGED <<listed, readOnly, active, sidebar>>
Refreshes(list, saved) ==
  /\ list \in Listings /\ saved \in Saved(list)
  /\ listed' = list /\ readOnly' = saved

\* load_thread of what is listed, and clear_pending_marker.
Loads(t, list, its, timeline) ==
  /\ items' = IF Contains(list, t) THEN [its EXCEPT ![t] = timeline] ELSE its
  /\ selected' = IF Contains(list, t)
                 THEN [selected EXCEPT ![t] = IF @ = 0 \/ @ > Len(timeline) THEN Len(timeline) ELSE @]
                 ELSE selected
  /\ pendingThread' = NoThread /\ placeholder' = [placeholder EXCEPT ![t] = 0]

\* Mutant of WithoutPlaceholder: the message only is told to have failed.
PlaceholderStays(timeline, k) == timeline

WithoutPlaceholder(timeline, k) == IF k \in DOMAIN timeline THEN RemoveAt(timeline, k) ELSE timeline

\* mark_pending_failed: in the thread of the last message sent.
Fails(list, its) ==
  LET t == pendingThread
  IN  /\ pendingThread' = NoThread
      /\ IF t # NoThread /\ Contains(list, t)
         THEN /\ items' = [its EXCEPT ![t] = Append(WithoutPlaceholder(@, placeholder[t]), "error")]
              /\ selected' = [selected EXCEPT ![t] = Len(items'[t])]
              /\ placeholder' = [placeholder EXCEPT ![t] = 0]
         ELSE items' = its /\ UNCHANGED <<selected, placeholder>>

Settles(kind) ==
  /\ pending.kind = kind /\ pending' = NoRequest
  /\ UNCHANGED <<navigating, hidden, filter, sends, early>>

TurnAnswered(list, saved, timeline) ==
  /\ Settles("turn") /\ Refreshes(list, saved) /\ SyncPanes(list) /\ UNCHANGED focus
  /\ Loads(pending.thread, list, Synced(list, saved), timeline)

\* The turn failed, or the request's worker did, or the refresh after it.
RequestFails == (Settles("turn") \/ Settles("open")) /\ NoRefresh /\ UNCHANGED focus /\ Fails(listed, items)

LoadFails(list, saved) ==
  /\ Settles("turn") /\ Refreshes(list, saved) /\ SyncPanes(list) /\ UNCHANGED focus
  /\ Fails(list, Synced(list, saved))

ThreadOpened(list, saved, timeline) ==
  LET t == pending.thread
  IN  /\ Settles("open") /\ Refreshes(list, saved)
      /\ Loads(t, list, Synced(list, saved), timeline)
      /\ IF Contains(list, t) THEN active' = t /\ sidebar' = t /\ focus' = "main"
         ELSE SyncPanes(list) /\ UNCHANGED focus

\* The status says so; the threads may have been refreshed.
OpenFails ==
  /\ Settles("open") /\ UNCHANGED <<focus, selected, pendingThread, placeholder>>
  /\ \/ NoRefresh /\ UNCHANGED items
     \/ \E list \in Listings : \E saved \in Saved(list) :
          Refreshes(list, saved) /\ SyncPanes(list) /\ items' = Synced(list, saved)

Answered ==
  \/ RequestFails \/ OpenFails
  \/ \E list \in Listings : \E saved \in Saved(list) :
       \/ LoadFails(list, saved)
       \/ \E timeline \in Timelines :
            TurnAnswered(list, saved, timeline) \/ ThreadOpened(list, saved, timeline)

ChatNext ==
  \/ Escape \/ NavigationInput \/ CycleFocus(NextPane) \/ CycleFocus(PrevPane) \/ ToggleSidebar
  \/ \E k \in 1..(2 * MaxSends + 2) : SelectMain(k) \/ SelectSidebar(k)
  \/ \E f \in {"all", "delegates"} : SetFilter(f)
  \/ Send \/ OpenFromSidebar \/ \E t \in SubThreads : OpenLink(t)
  \/ Answered

-----------------------------------------------------------------------------
ChatTypeOK ==
  /\ listed \in Listings /\ {active, sidebar} \subseteq ChatThreads
  /\ \A t \in ChatThreads : items[t] \in Seq({"text", "link", "note", "user", "thinking", "error"})
  /\ pending.kind \in {"none", "turn", "open"} /\ pendingThread \in ChatThreads \cup {NoThread}
  /\ hidden \in BOOLEAN

Thinking(t) == {k \in DOMAIN items[t] : items[t][k] = "thinking"}

\* A user who waits for the answer is never left thinking: a placeholder is shown in the
\* thread of the turn in flight, where the marker says, and nowhere else, over failed
\* turns and loads, threads that come and go and threads opened meanwhile. A
\* message sent while a request is in flight is refused and loses that.
\* Keys act on what is shown: a listed thread and a pane that is there.
ChatShowsRequests ==
  /\ ~early =>
       \A t \in ChatThreads :
         Thinking(t) = IF pending = Request("turn", t) THEN {placeholder[t]} ELSE {}
  /\ Contains(listed, active) /\ Contains(listed, sidebar)
  /\ focus = "sidebar" => ~hidden
  /\ navigating => focus = "main"
==============================================================================
