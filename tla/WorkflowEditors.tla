--------------------------- MODULE WorkflowEditors ---------------------------
(***************************************************************************)
(* Editor windows of workflows.  A registry in the backend says which      *)
(* window edits which workflow (workflow_editors.rs); windows are opened   *)
(* by commands that hold a gate (app_cmd.rs); every window changes the     *)
(* stored workflows by requests that carry the stamp of the version they   *)
(* are based on (storage.rs, stores/workflow.ts and the two editor views); *)
(* the main window shows a copy of the workflows.                          *)
(*                                                                         *)
(* Abstractions.  A workflow is its stamp, updatedAt, and a number that    *)
(* tells versions apart; its contents, the selection, entries of old       *)
(* versions without an id, and the copy of the registry that the main      *)
(* window shows are left out.  A command is split where it releases a      *)
(* lock; the lock of the registry is held over the change of the file,     *)
(* which is replaced as a whole.  The clock stands still, which is the     *)
(* hardest case for stamps, but for the time that a recovery takes.        *)
(***************************************************************************)
EXTENDS Naturals, FiniteSets

CONSTANTS
  Label,      \* labels of editor windows
  Workflow,   \* ids of workflows
  Stored,     \* those stored at first
  Kind,       \* kinds of editors
  Opener,     \* calls of open_workflow_editor_window
  Main,       \* the main window
  NoId,       \* the id of a workflow that is not saved yet
  None,
  MaxWrites   \* bound: changes of stored workflows

ASSUME NameAssumption ==
  /\ Stored \subseteq Workflow /\ NoId \notin Workflow /\ Main \notin Label
  /\ None \notin Label \cup Opener \cup Kind /\ IsFiniteSet(Label)
ASSUME BoundAssumption == MaxWrites \in Nat

VARIABLES
  registry,   \* EditorRegistry.editors: id and kind of each label
  used,       \* EditorRegistry.used_labels
  win,        \* windows Tauri knows
  destroyed,  \* windows whose Destroyed event is not handled yet
  gate,       \* who holds creation_gate
  op,         \* each call of open_workflow_editor_window
  store,      \* workflows.json: the version of each workflow
  taken,      \* ids that createId has given out
  writes,     \* number of the latest version
  clock,      \* Date.now()
  recovered,  \* the file was unreadable once, and has been set aside
  page,       \* the editor in each window
  call,       \* each window's pending mutate_workflow_store, or its reply
  list,       \* the workflows the main window shows
  refresh,    \* its reading of the file after an editor was closed
  closed,     \* its pending editor-closed events
  crossed     \* an overview read has crossed another request, see Crossing (history)

registryVars == <<registry, used>>
windowVars   == <<win, destroyed>>
openVars     == <<gate, op>>
storeVars    == <<store, writes, clock, recovered>>
mainVars     == <<list, refresh, closed>>
vars == <<registryVars, windowVars, openVars, storeVars, taken, page, call, mainVars, crossed>>

Client == Label \cup {Main}
Id == Workflow \cup {NoId}
Stamp == 1 .. 2 * MaxWrites + 2
Version == [at : Stamp, number : 0 .. MaxWrites]
Stock == [Workflow -> Version \cup {None}]
Editors == [Label -> [id : Id, kind : Kind \cup {None}] \cup {None}]
Request == [type : {"save", "delete"}, id : Workflow, base : Version \cup {None},
            force : BOOLEAN, at : Stamp]
Reply == [type : {"done", "conflict"}, id : Workflow, state : Stock]

ASSUME NoneAssumption ==
  None \notin Version \cup Stock \cup Request \cup Reply \cup [id : Id, kind : Kind \cup {None}]

TypeOK ==
  /\ registry \in Editors /\ used \subseteq Label
  /\ win \subseteq Label /\ destroyed \subseteq Label
  /\ gate \in Opener \cup {None}
  /\ op \in [Opener -> [pc : {"idle", "lookup", "reserving", "building", "returning"},
                        id : Id, kind : Kind \cup {None}, label : Label \cup {None}]]
  /\ store \in Stock /\ taken \subseteq Workflow
  /\ writes \in 0 .. MaxWrites /\ clock \in Stamp /\ recovered \in BOOLEAN
  /\ page \in [Label -> [state : {"none", "loading", "ready", "blocked", "conflict"},
                         id : Id, base : Version \cup {None}]]
  /\ call \in [Client -> Request \cup Reply \cup {None}]
  /\ list \in Stock
  /\ refresh \in [step : {"idle", "asked", "read"}, again : BOOLEAN, state : Stock \cup {None}]
  /\ closed \in 0 .. Cardinality(Label)
  /\ crossed \in BOOLEAN

Idle == [pc |-> "idle", id |-> NoId, kind |-> None, label |-> None]
NoPage == [state |-> "none", id |-> NoId, base |-> None]
Rest == [step |-> "idle", again |-> FALSE, state |-> None]

Init ==
  /\ registry = [l \in Label |-> None] /\ used = {}
  /\ win = {} /\ destroyed = {}
  /\ gate = None /\ op = [o \in Opener |-> Idle]
  /\ store = [w \in Workflow |-> IF w \in Stored THEN [at |-> 1, number |-> 0] ELSE None]
  /\ taken = Stored /\ writes = 0 /\ clock = 1 /\ recovered = FALSE
  /\ page = [l \in Label |-> NoPage]
  /\ call = [c \in Client |-> None]
  /\ list = store /\ refresh = Rest /\ closed = 0
  /\ crossed = FALSE

-----------------------------------------------------------------------------
(* The registry.                                                           *)

Registered == {l \in Label : registry[l] # None}

\* editor_for_request: for a new workflow, a window that is still unsaved.
EditorsFor(id, kind) ==
  {l \in Registered : registry[l].id = id /\ (id = NoId => registry[l].kind = kind)}

\* A slip: the owner of the workflow is not asked.
OwnerIgnored(c, id) == TRUE

\* check_write_owner.
OwnerFree(c, id) == \A l \in Registered : registry[l].id = id => l = c

Release(l) == registry' = [registry EXCEPT ![l] = None]

\* A slip: a label is free again when its window is gone.
AvailableAgain == Label \ win

\* Labels of closed windows stay spent (next_available_label).
Available == Label \ (used \cup win)

-----------------------------------------------------------------------------
(* open_workflow_editor_window.                                            *)

Go(o, pc) == op' = [op EXCEPT ![o].pc = pc]
Finish(o) == op' = [op EXCEPT ![o] = Idle] /\ gate' = None

\* The user opens a new workflow, or one the list has shown, and gets the gate.
\* What kind of editor it is matters only for a new one.
Open(o, id, kind) ==
  /\ gate = None /\ op[o] = Idle
  /\ id # NoId => id \in taken /\ kind = None
  /\ id = NoId => kind \in Kind
  /\ gate' = o
  /\ op' = [op EXCEPT ![o] = [Idle EXCEPT !.pc = "lookup", !.id = id, !.kind = kind]]
  /\ UNCHANGED <<registryVars, windowVars, storeVars, taken, page, call, mainVars>>

\* A window that closes while it is being focused looks like one that closes
\* right after.
Reuse(o) ==
  /\ op[o].pc = "lookup" /\ EditorsFor(op[o].id, op[o].kind) \cap win # {}
  /\ Finish(o)
  /\ UNCHANGED <<registryVars, windowVars, storeVars, taken, page, call, mainVars>>

\* The window is gone and its Destroyed event still to come.
ReleaseStale(o) ==
  /\ op[o].pc = "lookup"
  /\ \E l \in EditorsFor(op[o].id, op[o].kind) \ win : Release(l)
  /\ UNCHANGED <<used, windowVars, openVars, storeVars, taken, page, call, mainVars>>

ChooseLabel(o) ==
  /\ op[o].pc = "lookup" /\ EditorsFor(op[o].id, op[o].kind) = {}
  /\ \E l \in Available : op' = [op EXCEPT ![o].pc = "reserving", ![o].label = l]
  /\ UNCHANGED <<registryVars, windowVars, gate, storeVars, taken, page, call, mainVars>>

\* EditorRegistry.reserve, after the id has been looked up again: its own
\* refusals cannot occur behind that test and the gate.
Reserve(o) ==
  /\ op[o].pc = "reserving"
  /\ IF EditorsFor(op[o].id, op[o].kind) # {}
       THEN Go(o, "lookup") /\ UNCHANGED registryVars
       ELSE /\ Go(o, "building") /\ used' = used \cup {op[o].label}
            /\ registry' = [registry EXCEPT ![op[o].label] =
                              [id |-> op[o].id, kind |-> op[o].kind]]
  /\ UNCHANGED <<windowVars, gate, storeVars, taken, page, call, mainVars>>

\* WebviewWindowBuilder: the page runs before build() has returned.
Build(o) ==
  /\ op[o].pc = "building"
  /\ Go(o, "returning") /\ win' = win \cup {op[o].label}
  /\ page' = [page EXCEPT ![op[o].label] = [NoPage EXCEPT !.state = "loading", !.id = op[o].id]]
  /\ UNCHANGED <<registryVars, destroyed, gate, storeVars, taken, call, mainVars>>

BuildFails(o) ==
  /\ op[o].pc = "building"
  /\ Finish(o) /\ Release(op[o].label)
  /\ UNCHANGED <<used, windowVars, storeVars, taken, page, call, mainVars>>

\* The reply carries what the registry holds now, not what was reserved.
Return(o) ==
  /\ op[o].pc = "returning"
  /\ Finish(o)
  /\ UNCHANGED <<registryVars, windowVars, storeVars, taken, page, call, mainVars>>

-----------------------------------------------------------------------------
(* Windows close.                                                          *)

\* The window leaves Tauri's list; what its page has asked for goes on.
Close(l) ==
  /\ l \in win
  /\ win' = win \ {l} /\ destroyed' = destroyed \cup {l}
  /\ page' = [page EXCEPT ![l] = NoPage]
  /\ UNCHANGED <<registryVars, openVars, storeVars, taken, call, mainVars>>

\* The listener of Destroyed in main.rs.
OnDestroyed(l) ==
  /\ l \in destroyed /\ destroyed' = destroyed \ {l}
  /\ Release(l) /\ closed' = closed + 1
  /\ UNCHANGED <<used, win, openVars, storeVars, taken, page, call, list, refresh>>

-----------------------------------------------------------------------------
(* mutate_workflow_store.                                                  *)

Saving(id, base, force) ==
  [type |-> "save", id |-> id, base |-> base, force |-> force, at |-> clock]

\* One request at a time: saveQueue and queueMutation.  Every save finds a stamp.
Ask(c, request) ==
  /\ call[c] = None /\ writes < MaxWrites
  /\ call' = [call EXCEPT ![c] = request]

\* createId, for a workflow without one.
Named(id, new) == IF id = NoId THEN new \notin taken ELSE new = id

At(version) == IF version = None THEN 0 ELSE version.at
Later(a, b) == IF a > b THEN a ELSE b

\* Another editor's workflow is never touched; one's own only if it is still the
\* version the request is based on, unless the user forces it.
Conflicting(q) == ~q.force /\ q.base # None /\ At(q.base) # At(store[q.id])

Put(q, version) ==
  /\ store' = [store EXCEPT ![q.id] = version] /\ writes' = writes + 1

\* A slip: saves in the same millisecond get the same stamp.
ApplyAtClock(q) ==
  CASE q.type = "save" -> Put(q, [at |-> Later(q.at, At(store[q.id])), number |-> writes + 1])
    [] q.type = "delete" -> Put(q, None)

\* The upsert and the delete of apply_workflow_mutation.
Apply(q) ==
  CASE q.type = "save" ->
         Put(q, [at |-> Later(q.at, At(store[q.id]) + 1), number |-> writes + 1])
    [] q.type = "delete" -> Put(q, None)

\* EditorRegistry.mutate: the first save, or that of a copy, names the window's workflow.
Adopt(c, q) ==
  IF c \in Registered
    THEN registry' = [registry EXCEPT ![c].id = q.id]
    ELSE UNCHANGED registry

Answered(c, reply) == call' = [call EXCEPT ![c] = reply]

Accept(c) ==
  /\ call[c] \in Request
  /\ OwnerFree(c, call[c].id) /\ ~Conflicting(call[c]) /\ writes < MaxWrites
  /\ Apply(call[c]) /\ Adopt(c, call[c])
  /\ Answered(c, [type |-> "done", id |-> call[c].id, state |-> store'])
  /\ UNCHANGED <<used, windowVars, openVars, clock, recovered, taken, page, mainVars>>

Refute(c) ==
  /\ call[c] \in Request /\ OwnerFree(c, call[c].id) /\ Conflicting(call[c])
  /\ Answered(c, [type |-> "conflict", id |-> call[c].id, state |-> store])
  /\ UNCHANGED <<registryVars, windowVars, openVars, storeVars, taken, page, mainVars>>

\* WORKFLOW_EDITOR_IN_USE, or the file could not be replaced.  The error only
\* shows a message.
Fail(c) ==
  /\ call[c] \in Request /\ (~OwnerFree(c, call[c].id) \/ ~Conflicting(call[c]))
  /\ Answered(c, None)
  /\ UNCHANGED <<registryVars, windowVars, openVars, storeVars, taken, page, mainVars>>

\* A file that cannot be parsed is set aside and replaced by an empty list.
\* That takes so long that new stamps are later than the old.
Corrupt ==
  /\ ~recovered
  /\ recovered' = TRUE /\ store' = [w \in Workflow |-> None]
  /\ clock' = MaxWrites + 2
  /\ UNCHANGED <<registryVars, windowVars, openVars, writes, taken, page, call, mainVars>>

-----------------------------------------------------------------------------
(* The editor in a window.                                                 *)

Show(l, p) == page' = [page EXCEPT ![l] = p]

\* onMounted, when the window's own store has read the file.
Load(l) ==
  /\ page[l].state = "loading"
  /\ LET id == page[l].id IN
     Show(l, [page[l] EXCEPT
       !.state = IF id # NoId /\ store[id] = None THEN "blocked" ELSE "ready",
       !.base = IF id = NoId THEN None ELSE store[id]])
  /\ UNCHANGED <<registryVars, windowVars, openVars, storeVars, taken, call, mainVars>>

\* persistDefinition and persist: the user saves, or the timer after a change.
Save(l) ==
  /\ page[l].state = "ready"
  /\ \E id \in Workflow :
       /\ Named(page[l].id, id) /\ taken' = taken \cup {id}
       /\ Ask(l, Saving(id, page[l].base, FALSE))
  /\ UNCHANGED <<registryVars, windowVars, openVars, storeVars, page, mainVars>>

\* A window that has been closed (disposed) ignores the answer.
EditorReply(l) ==
  /\ call[l] \in Reply /\ call' = [call EXCEPT ![l] = None]
  /\ LET r == call[l] IN
     IF page[l].state = "none" THEN UNCHANGED page
       ELSE IF r.type = "conflict" THEN Show(l, [page[l] EXCEPT !.state = "conflict"])
       ELSE Show(l, [page[l] EXCEPT !.id = r.id, !.base = r.state[r.id]])
  /\ UNCHANGED <<registryVars, windowVars, openVars, storeVars, taken, mainVars>>

\* The choices of the dialog about a conflict.
Overwrite(l) ==
  /\ page[l].state = "conflict"
  /\ Ask(l, Saving(page[l].id, None, TRUE)) /\ Show(l, [page[l] EXCEPT !.state = "ready"])
  /\ UNCHANGED <<registryVars, windowVars, openVars, storeVars, taken, mainVars>>

SaveCopy(l) ==
  /\ page[l].state = "conflict"
  /\ Show(l, [page[l] EXCEPT !.state = "ready", !.id = NoId, !.base = None])
  /\ \E id \in Workflow \ taken :
       taken' = taken \cup {id} /\ Ask(l, Saving(id, None, FALSE))
  /\ UNCHANGED <<registryVars, windowVars, openVars, storeVars, mainVars>>

\* A workflow that is gone leaves the old version in the editor.
ReloadLatest(l) ==
  /\ page[l].state = "conflict" /\ call[l] = None
  /\ LET latest == store[page[l].id] IN
     Show(l, [page[l] EXCEPT !.state = "ready",
                             !.base = IF latest = None THEN page[l].base ELSE latest])
  /\ UNCHANGED <<registryVars, windowVars, openVars, storeVars, taken, call, mainVars>>

-----------------------------------------------------------------------------
(* The main window.                                                        *)

\* saveMeta, for a window that has not heard of an editor of the workflow.
SaveListed(x) ==
  /\ list[x] # None
  /\ Ask(Main, Saving(x, list[x], FALSE))
  /\ UNCHANGED <<registryVars, windowVars, openVars, storeVars, taken, page, mainVars>>

DeleteListed(x) ==
  /\ list[x] # None
  /\ Ask(Main, [Saving(x, list[x], FALSE) EXCEPT !.type = "delete"])
  /\ UNCHANGED <<registryVars, windowVars, openVars, storeVars, taken, page, mainVars>>

\* duplicateWorkflow.
Duplicate(x) ==
  /\ list[x] # None
  /\ \E id \in Workflow \ taken :
       taken' = taken \cup {id} /\ Ask(Main, Saving(id, None, FALSE))
  /\ UNCHANGED <<registryVars, windowVars, openVars, storeVars, page, mainVars>>

\* applyStoredState takes the list of the answer, also that of a conflict.
MainReply ==
  /\ call[Main] \in Reply /\ call' = [call EXCEPT ![Main] = None]
  /\ list' = call[Main].state
  /\ UNCHANGED <<registryVars, windowVars, openVars, storeVars, taken, page, refresh, closed>>

\* handleEditorClosed.
HandleClosed ==
  /\ closed > 0 /\ closed' = closed - 1
  /\ refresh' = IF refresh.step = "idle" THEN [Rest EXCEPT !.step = "asked"]
                                         ELSE [refresh EXCEPT !.again = TRUE]
  /\ UNCHANGED <<registryVars, windowVars, openVars, storeVars, taken, page, call, list>>

\* refreshAfterEditorClosed.
RefreshRead ==
  /\ refresh.step = "asked"
  /\ refresh' = [refresh EXCEPT !.step = "read", !.state = store]
  /\ UNCHANGED <<registryVars, windowVars, openVars, storeVars, taken, page, call, list, closed>>

\* A slip: what has been read is shown although another editor was closed since.
RefreshOnce ==
  /\ refresh.step = "read"
  /\ refresh' = Rest /\ list' = refresh.state
  /\ UNCHANGED <<registryVars, windowVars, openVars, storeVars, taken, page, call, closed>>

RefreshApply ==
  /\ refresh.step = "read"
  /\ IF refresh.again THEN refresh' = [Rest EXCEPT !.step = "asked"] /\ UNCHANGED list
                      ELSE refresh' = Rest /\ list' = refresh.state
  /\ UNCHANGED <<registryVars, windowVars, openVars, storeVars, taken, page, call, closed>>

-----------------------------------------------------------------------------
Crossing ==
  \/ call[Main] # None /\ refresh.step # "idle"
  \/ \E l \in Label \ win : call[l] # None

Step ==
  \/ \E o \in Opener :
       \/ \E id \in Id, kind \in Kind \cup {None} : Open(o, id, kind)
       \/ Reuse(o) \/ ReleaseStale(o) \/ ChooseLabel(o) \/ Reserve(o)
       \/ Build(o) \/ BuildFails(o) \/ Return(o)
  \/ \E l \in Label :
       \/ Close(l) \/ OnDestroyed(l)
       \/ Load(l) \/ Save(l) \/ EditorReply(l)
       \/ Overwrite(l) \/ SaveCopy(l) \/ ReloadLatest(l)
  \/ \E c \in Client : Accept(c) \/ Refute(c) \/ Fail(c)
  \/ \E x \in Workflow : SaveListed(x) \/ DeleteListed(x) \/ Duplicate(x)
  \/ MainReply \/ HandleClosed \/ RefreshRead \/ RefreshApply
  \/ Corrupt

Next == Step /\ crossed' = (crossed \/ Crossing')

Spec == Init /\ [][Next]_vars

-----------------------------------------------------------------------------
(* Properties.                                                             *)

\* No two open windows edit the same workflow, although a window is opened in
\* several steps, learns the id of a new workflow only after it was saved, and
\* may turn to a copy (open_workflow_editor_window and EditorRegistry.mutate).
OneEditor ==
  \A l, m \in win : (page[l].id = page[m].id /\ page[l].id # NoId) => l = m

\* What an open editor shows is the stored version: no other window, not even
\* the answer to a save of a window closed since, changes it below the editor
\* (check_write_owner).  A recovery from an unreadable file does.
OwnerIsCurrent ==
  \A l \in win :
    (page[l].state = "ready" /\ page[l].id # NoId /\ call[l] = None /\ ~recovered)
      => store[page[l].id] = page[l].base

\* A version of a workflow is replaced or deleted only by a request of someone
\* who has seen it, or who insists (expectedUpdatedAt and force); two saves in
\* the same millisecond included.
UnseenNeverReplaced ==
  [][\A x \in Workflow :
       (store[x] # None /\ store'[x] # store[x] /\ recovered' = recovered) =>
         \E c \in Client : /\ call[c] \in Request /\ call[c].id = x /\ call'[c] \in Reply
                           /\ call[c].force \/ call[c].base = store[x]]_vars

\* When every editor is closed and nothing is pending the main window shows the
\* stored workflows, however the closing of several editors overlaps
\* (refreshAfterEditorClosed), unless a request crossed the last reading.
OverviewCurrent ==
  (/\ \A c \in Client : call[c] = None
   /\ win = {} /\ destroyed = {} /\ closed = 0 /\ refresh = Rest
   /\ ~crossed /\ ~recovered) => list = store
=============================================================================
