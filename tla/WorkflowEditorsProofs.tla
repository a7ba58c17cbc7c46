------------------------- MODULE WorkflowEditorsProofs -------------------------
(***************************************************************************)
(* Proofs about WorkflowEditors: type correctness, that no two windows     *)
(* edit one workflow, that an open editor shows the stored version, that   *)
(* the list of the main window catches up, and that no version is replaced *)
(* unseen.                                                                 *)
(*                                                                         *)
(* The registry, not the pages, decides who owns a workflow.  So the       *)
(* argument ties each page to its entry: what a page has been told is the  *)
(* id its entry has, although the entry is written when a window is        *)
(* reserved, when its save is accepted and when its end is handled, and    *)
(* the page learns of it later or never.                                   *)
(***************************************************************************)
EXTENDS WorkflowEditors, TLAPS, FiniteSetTheorems

-----------------------------------------------------------------------------
(* The inductive invariant.                                                *)

\* A call that holds the gate, and the label it has chosen.
GateInv ==
  \A o \in Opener :
    /\ op[o].pc # "idle" => gate = o
    /\ op[o].pc = "reserving" => op[o].label \in Label \ used
    /\ op[o].pc = "building" =>
         /\ op[o].label \in used \ (win \cup destroyed)
         /\ registry[op[o].label] = [id |-> op[o].id, kind |-> op[o].kind]
         /\ call[op[o].label] = None

\* A label is used once; a window keeps its entry until its end is handled.
LabelInv ==
  /\ \A l \in Label \ used :
       registry[l] = None /\ l \notin win \cup destroyed /\ call[l] = None
  /\ win \cap destroyed = {}
  /\ \A l \in win : registry[l] # None
  /\ \A l \in Label : page[l].state = "none" <=> l \notin win
  /\ \A l \in Label \ win : page[l] = NoPage

UniqueInv ==
  \A l, m \in Registered :
    registry[l].id = registry[m].id /\ registry[l].id # NoId => l = m

\* A page and its entry, and what a page and its request know of each other.
PageInv ==
  \A l \in win :
    /\ page[l].id # NoId => registry[l].id = page[l].id
    /\ page[l].id = NoId => page[l].base = None
    /\ page[l].state \in {"loading", "blocked"} => call[l] = None
    /\ page[l].state = "conflict" => call[l] = None /\ page[l].id # NoId
    /\ call[l] \in Request =>
         /\ call[l].base # None => page[l].id # NoId
         /\ page[l].id # NoId => call[l].id = page[l].id
    /\ call[l] \in Reply =>
         IF call[l].type = "done" THEN registry[l].id = call[l].id ELSE page[l].id # NoId

\* Nothing has changed below an editor.
CurrentInv ==
  ~recovered => \A l \in win :
    /\ page[l].state # "conflict"
    /\ call[l] \in Request => ~call[l].force /\ call[l].base = page[l].base
    /\ call[l] \in Reply =>
         call[l].type = "done" /\ store[call[l].id] = call[l].state[call[l].id]
    /\ page[l].state = "ready" /\ page[l].id # NoId /\ call[l] \notin Reply =>
         store[page[l].id] = page[l].base

\* Stamps grow by one with each save, at most.
StampInv ==
  /\ clock <= MaxWrites + 2
  /\ \A w \in Workflow : store[w] # None => store[w].at <= MaxWrites + 2 + writes
  /\ \A c \in Client : call[c] \in Request => call[c].at <= MaxWrites + 2

\* What the main window reads is complete when it has been read.
ReadInv ==
  /\ refresh.step = "read" => refresh.state \in Stock
  /\ refresh.step = "idle" => refresh = Rest

\* Each label closes once.
Ended ==
  {l \in used \ (win \cup destroyed) : \A o \in Opener : op[o].pc = "building" => op[o].label # l}
ClosedInv == closed <= Cardinality(Ended)

IInv ==
  /\ TypeOK /\ GateInv /\ LabelInv /\ UniqueInv /\ PageInv /\ CurrentInv /\ StampInv
  /\ ReadInv /\ ClosedInv

\* Whatever the main window does not show yet, somebody has still to bring.
Coming == win # {} \/ destroyed # {} \/ closed > 0
OverviewInv ==
  ~crossed /\ ~recovered =>
    /\ \A l \in Label : call[l] # None => l \in win
    /\ call[Main] # None => refresh = Rest
    /\ call[Main] \in Reply => call[Main].state = store \/ Coming
    /\ refresh.step = "read" /\ ~refresh.again => refresh.state = store \/ Coming
    /\ \/ list = store \/ call[Main] \in Reply \/ Coming
       \/ refresh.step # "idle"

-----------------------------------------------------------------------------
(* The type invariant in parts.                                            *)

Entry == [id : Id, kind : Kind \cup {None}]
Pages == [state : {"none", "loading", "ready", "blocked", "conflict"}, id : Id,
          base : Version \cup {None}]
Calls == [pc : {"idle", "lookup", "reserving", "building", "returning"},
          id : Id, kind : Kind \cup {None}, label : Label \cup {None}]

WindowTypes ==
  /\ registry \in [Label -> Entry \cup {None}] /\ used \subseteq Label
  /\ win \subseteq Label /\ destroyed \subseteq Label
  /\ gate \in Opener \cup {None} /\ op \in [Opener -> Calls]
StoreTypes ==
  /\ store \in Stock /\ taken \subseteq Workflow
  /\ writes \in 0 .. MaxWrites /\ clock \in Stamp /\ recovered \in BOOLEAN
RequestTypes ==
  /\ page \in [Label -> Pages]
  /\ call \in [Client -> Request \cup Reply \cup {None}]
MainTypes ==
  /\ list \in Stock
  /\ refresh \in [step : {"idle", "asked", "read"}, again : BOOLEAN, state : Stock \cup {None}]
  /\ closed \in 0 .. Cardinality(Label)
  /\ crossed \in BOOLEAN

LEMMA TypeParts == TypeOK <=> WindowTypes /\ StoreTypes /\ RequestTypes /\ MainTypes
BY DEF TypeOK, WindowTypes, StoreTypes, RequestTypes, MainTypes, Editors, Entry, Pages, Calls

OpenStep(o) ==
  \/ \E id \in Id, kind \in Kind \cup {None} : Open(o, id, kind)
  \/ Reuse(o) \/ ReleaseStale(o) \/ ChooseLabel(o) \/ Reserve(o)
  \/ Build(o) \/ BuildFails(o) \/ Return(o)
EditorStep(l) ==
  Load(l) \/ Save(l) \/ EditorReply(l) \/ Overwrite(l) \/ SaveCopy(l) \/ ReloadLatest(l)
MainStep ==
  \/ \E x \in Workflow : SaveListed(x) \/ DeleteListed(x) \/ Duplicate(x)
  \/ MainReply \/ HandleClosed \/ RefreshRead \/ RefreshApply

LEMMA StepSplit ==
  Step <=> \/ \E o \in Opener : OpenStep(o)
           \/ \E l \in Label : Close(l) \/ OnDestroyed(l) \/ EditorStep(l)
           \/ \E c \in Client : Accept(c) \/ Refute(c) \/ Fail(c)
           \/ MainStep
           \/ Corrupt
BY DEF Step, OpenStep, EditorStep, MainStep

LEMMA RecordTypes ==
  /\ Idle \in Calls /\ NoPage \in Pages
  /\ Request \cap Reply = {} /\ None \notin Entry \cup Request \cup Reply \cup Version
  /\ NoId \in Id /\ Workflow \subseteq Id /\ NoId \notin Workflow /\ None \notin Opener
  /\ Label \subseteq Client /\ Main \in Client /\ Main \notin Label
  /\ \A r \in Entry : r.id \in Id /\ r.kind \in Kind \cup {None}
  /\ \A r \in Version : r.at \in Stamp /\ r.number \in 0 .. MaxWrites
  /\ \A r \in Request : /\ r.type \in {"save", "delete"} /\ r.id \in Workflow
                        /\ r.base \in Version \cup {None} /\ r.force \in BOOLEAN /\ r.at \in Stamp
  /\ \A r \in Reply : r.type \in {"done", "conflict"} /\ r.id \in Workflow /\ r.state \in Stock
BY NameAssumption, NoneAssumption
   DEF Idle, NoPage, Calls, Pages, Request, Reply, Entry, Version, Id, Client

LEMMA CallFields ==
  ASSUME op \in [Opener -> Calls], NEW o \in Opener,
         NEW pc \in {"idle", "lookup", "reserving", "building", "returning"},
         NEW l \in Label
  PROVE  /\ [op EXCEPT ![o].pc = pc] \in [Opener -> Calls]
         /\ [op EXCEPT ![o].pc = pc, ![o].label = l] \in [Opener -> Calls]
         /\ op[o] \in Calls
<1>. op[o] = [pc |-> op[o].pc, id |-> op[o].id, kind |-> op[o].kind, label |-> op[o].label]
  BY DEF Calls
<1>. QED
  BY DEF Calls

LEMMA WindowStep == TypeOK /\ GateInv /\ LabelInv /\ [Next]_vars => WindowTypes'
<1>. SUFFICES ASSUME TypeOK, GateInv, LabelInv, [Next]_vars PROVE WindowTypes'
  OBVIOUS
<1>0. WindowTypes /\ RequestTypes
  BY TypeParts
<1>1. ASSUME NEW o \in Opener, OpenStep(o) PROVE WindowTypes'
  <2>1. ASSUME NEW id \in Id, NEW kind \in Kind \cup {None}, Open(o, id, kind) PROVE WindowTypes'
    BY <1>0, <2>1, RecordTypes DEF WindowTypes, Open, Calls, Idle, registryVars, windowVars
  <2>2. CASE Reuse(o) \/ Return(o)
    BY <1>0, <2>2, RecordTypes DEF WindowTypes, Reuse, Return, Finish, registryVars, windowVars
  <2>3. CASE ReleaseStale(o)
    BY <1>0, <2>3 DEF WindowTypes, ReleaseStale, Release, EditorsFor, Registered, windowVars, openVars
  <2>4. CASE ChooseLabel(o)
    <3>1. PICK l \in Label : op' = [op EXCEPT ![o].pc = "reserving", ![o].label = l]
      BY <2>4 DEF ChooseLabel, Available
    <3>2. op' \in [Opener -> Calls]
      BY <1>0, <3>1, CallFields DEF WindowTypes
    <3>. QED
      BY <1>0, <2>4, <3>2 DEF WindowTypes, ChooseLabel, registryVars, windowVars
  <2>5. CASE Reserve(o)
    <3>1. op[o].label \in Label
      BY <2>5 DEF GateInv, Reserve
    <3>3. /\ [op EXCEPT ![o].pc = "lookup"] \in [Opener -> Calls]
          /\ [op EXCEPT ![o].pc = "building"] \in [Opener -> Calls]
          /\ op[o] \in Calls
      BY <1>0, <3>1, CallFields DEF WindowTypes
    <3>2. op' \in [Opener -> Calls] /\ op[o] \in Calls
      BY <2>5, <3>3 DEF Reserve, Go
    <3>. QED
      BY <1>0, <2>5, <3>1, <3>2 DEF WindowTypes, Reserve, Calls, Entry, registryVars, windowVars
  <2>6. CASE Build(o)
    <3>1. op[o].label \in Label
      BY <1>0, <2>6 DEF WindowTypes, GateInv, Build
    <3>2. op' \in [Opener -> Calls]
      BY <1>0, <2>6, <3>1, CallFields DEF WindowTypes, Build, Go
    <3>. QED
      BY <1>0, <2>6, <3>1, <3>2 DEF WindowTypes, Build, registryVars
  <2>7. CASE BuildFails(o)
    BY <1>0, <2>7, RecordTypes DEF WindowTypes, BuildFails, Finish, Release, Calls, windowVars
  <2>. QED
    BY <1>1, <2>1, <2>2, <2>3, <2>4, <2>5, <2>6, <2>7 DEF OpenStep
<1>2. ASSUME NEW l \in Label, Close(l) \/ OnDestroyed(l) PROVE WindowTypes'
  BY <1>0, <1>2 DEF WindowTypes, Close, OnDestroyed, Release, registryVars, openVars
<1>3. ASSUME NEW l \in Label, EditorStep(l) PROVE WindowTypes'
  BY <1>0, <1>3 DEF WindowTypes, EditorStep, Load, Save, EditorReply, Overwrite, SaveCopy,
     ReloadLatest, registryVars, openVars, windowVars
<1>4. ASSUME NEW c \in Client, Accept(c) \/ Refute(c) \/ Fail(c) PROVE WindowTypes'
  BY <1>0, <1>4, RecordTypes DEF WindowTypes, Accept, Refute, Fail, Adopt, Registered, Entry,
     registryVars, openVars, windowVars
<1>5. CASE MainStep \/ Corrupt
  BY <1>0, <1>5 DEF WindowTypes, MainStep, SaveListed, DeleteListed, Duplicate, MainReply,
     HandleClosed, RefreshRead, RefreshApply, Corrupt, registryVars, openVars, windowVars
<1>6. CASE UNCHANGED vars
  BY <1>0, <1>6 DEF WindowTypes, vars, registryVars, openVars, windowVars
<1>. QED
  BY <1>1, <1>2, <1>3, <1>4, <1>5, <1>6, StepSplit DEF Next

\* What an accepted request writes.
LEMMA Written ==
  ASSUME TypeOK, StampInv, NEW c \in Client, Accept(c)
  PROVE  \E v \in Version \cup {None} :
           /\ store' = [store EXCEPT ![call[c].id] = v] /\ writes' = writes + 1
           /\ v # None => /\ v.at <= MaxWrites + 2 + writes'
                         /\ At(store[call[c].id]) < v.at /\ call[c].at <= v.at
           /\ v # None <=> call[c].type = "save"
<1>. DEFINE q == call[c]  old == store[q.id]
<1>1. /\ q \in Request /\ writes \in 0 .. MaxWrites - 1 /\ old \in Version \cup {None}
      /\ q.at \in Stamp /\ q.at <= MaxWrites + 2
      /\ old # None => old.at <= MaxWrites + 2 + writes
  BY TypeParts, BoundAssumption, RecordTypes DEF Accept, StoreTypes, StampInv, Stock
<1>2. At(old) \in Nat /\ At(old) <= MaxWrites + 2 + writes
  BY <1>1, RecordTypes, BoundAssumption DEF At, Stamp
<1>3. Later(q.at, At(old) + 1) \in Stamp /\ Later(q.at, At(old) + 1) <= MaxWrites + 2 + (writes + 1)
      /\ At(old) < Later(q.at, At(old) + 1) /\ q.at <= Later(q.at, At(old) + 1)
  BY <1>1, <1>2, BoundAssumption DEF Later, Stamp
<1>4. [at |-> Later(q.at, At(old) + 1), number |-> writes + 1] \in Version
  BY <1>1, <1>3, BoundAssumption DEF Version
<1>5. q.type \in {"save", "delete"}
  BY <1>1, RecordTypes
<1>6. Apply(q)
  BY DEF Accept
<1>7. CASE q.type = "save"
  BY <1>3, <1>4, <1>6, <1>7, RecordTypes DEF Apply, Put
<1>8. CASE q.type = "delete"
  BY <1>6, <1>8 DEF Apply, Put
<1>. QED
  BY <1>5, <1>7, <1>8

\* The answer to it.
LEMMA AcceptReply ==
  ASSUME TypeOK, StampInv, NEW c \in Client, Accept(c)
  PROVE  [type |-> "done", id |-> call[c].id, state |-> store'] \in Reply
<1>1. call[c] \in Request /\ store \in Stock
  BY TypeParts DEF Accept, StoreTypes
<1>2. PICK v \in Version \cup {None} : store' = [store EXCEPT ![call[c].id] = v]
  BY Written
<1>3. store' \in Stock
  BY <1>1, <1>2 DEF Stock
<1>. QED
  BY <1>1, <1>3, RecordTypes DEF Reply

LEMMA StoreStep == TypeOK /\ StampInv /\ [Next]_vars => StoreTypes' /\ StampInv'
<1>. SUFFICES ASSUME TypeOK, StampInv, [Next]_vars PROVE StoreTypes' /\ StampInv'
  OBVIOUS
<1>0. RequestTypes /\ StoreTypes /\ StampInv
  BY TypeParts
<1>1. ASSUME NEW o \in Opener, OpenStep(o) PROVE StoreTypes' /\ StampInv'
  BY <1>0, <1>1 DEF StoreTypes, StampInv, OpenStep, Open, Reuse, ReleaseStale, ChooseLabel, Reserve,
     Build, BuildFails, Return, storeVars
<1>2. ASSUME NEW l \in Label, Close(l) \/ OnDestroyed(l) PROVE StoreTypes' /\ StampInv'
  BY <1>0, <1>2 DEF StoreTypes, StampInv, Close, OnDestroyed, storeVars
<1>3. ASSUME NEW l \in Label, EditorStep(l) PROVE StoreTypes' /\ StampInv'
  <2>1. UNCHANGED storeVars /\ taken' \subseteq Workflow
    BY <1>0, <1>3 DEF StoreTypes, EditorStep, Load, Save, EditorReply, Overwrite, SaveCopy, ReloadLatest
  <2>2. \A c \in Client : call'[c] \in Request => call'[c] = call[c] \/ call'[c].at = clock
    BY <1>0, <1>3, RecordTypes
       DEF RequestTypes, EditorStep, Load, Save, EditorReply, Overwrite, SaveCopy, ReloadLatest, Ask, Saving
  <2>. QED
    BY <1>0, <2>1, <2>2 DEF StoreTypes, StampInv, storeVars
<1>4. ASSUME NEW c \in Client, Refute(c) \/ Fail(c) PROVE StoreTypes' /\ StampInv'
  <2>1. UNCHANGED <<storeVars, taken>>
    BY <1>4 DEF Refute, Fail
  <2>2. \A d \in Client : call'[d] \in Request => call'[d] = call[d]
    BY <1>0, <1>4, RecordTypes DEF RequestTypes, Refute, Fail, Answered, Reply, Request
  <2>. QED
    BY <1>0, <2>1, <2>2 DEF StoreTypes, StampInv, storeVars
<1>5. ASSUME NEW c \in Client, Accept(c) PROVE StoreTypes' /\ StampInv'
  <2>1. UNCHANGED <<clock, recovered, taken>>
    BY <1>5 DEF Accept
  <2>2. \A d \in Client : call'[d] \in Request => call'[d] = call[d]
    BY <1>0, <1>5, RecordTypes DEF RequestTypes, Accept, Answered, Reply, Request
  <2>3. PICK v \in Version \cup {None} :
               /\ store' = [store EXCEPT ![call[c].id] = v] /\ writes' = writes + 1
               /\ v # None => v.at <= MaxWrites + 2 + writes'
    BY <1>5, Written
  <2>4. writes' \in 0 .. MaxWrites /\ store' \in Stock
    <3>1. writes < MaxWrites
      BY <1>5 DEF Accept
    <3>2. writes' \in 0 .. MaxWrites
      BY <1>0, <2>3, <3>1, BoundAssumption DEF StoreTypes
    <3>3. store \in Stock
      BY <1>0 DEF StoreTypes
    <3>4. store' \in Stock
      BY <2>3, <3>3 DEF Stock
    <3>. QED
      BY <3>2, <3>4
  <2>5. \A w \in Workflow : store'[w] # None => store'[w].at <= MaxWrites + 2 + writes'
    <3>. SUFFICES ASSUME NEW w \in Workflow, store'[w] # None
                  PROVE  store'[w].at <= MaxWrites + 2 + writes'
      OBVIOUS
    <3>1. CASE store'[w] = store[w]
      <4>. store[w] \in Version /\ store[w].at \in Nat
        BY <1>0, <3>1, RecordTypes DEF StoreTypes, Stock, Stamp
      <4>. QED
        BY <1>0, <2>3, <2>4, <3>1, BoundAssumption DEF StoreTypes, StampInv
    <3>2. CASE store'[w] = v
      BY <2>3, <3>2
    <3>. QED
      BY <1>0, <2>3, <3>1, <3>2 DEF StoreTypes, Stock
  <2>. QED
    BY <1>0, <2>1, <2>2, <2>4, <2>5 DEF StoreTypes, StampInv
<1>6. CASE MainStep
  <2>1. UNCHANGED storeVars /\ taken' \subseteq Workflow
    BY <1>0, <1>6 DEF StoreTypes, MainStep, SaveListed, DeleteListed, Duplicate, MainReply,
       HandleClosed, RefreshRead, RefreshApply
  <2>2. \A c \in Client : call'[c] \in Request => call'[c] = call[c] \/ call'[c].at = clock
    <3>1. ASSUME NEW x \in Workflow, SaveListed(x) \/ DeleteListed(x) \/ Duplicate(x)
          PROVE  \A c \in Client : call'[c] = call[c] \/ call'[c].at = clock
      BY <1>0, <3>1 DEF RequestTypes, SaveListed, DeleteListed, Duplicate, Ask, Saving
    <3>2. CASE MainReply
      BY <1>0, <3>2, RecordTypes DEF RequestTypes, MainReply
    <3>3. CASE HandleClosed \/ RefreshRead \/ RefreshApply
      BY <3>3 DEF HandleClosed, RefreshRead, RefreshApply
    <3>. QED
      BY <1>6, <3>1, <3>2, <3>3 DEF MainStep
  <2>. QED
    BY <1>0, <2>1, <2>2 DEF StoreTypes, StampInv, storeVars
<1>7. CASE Corrupt
  BY <1>0, <1>7, BoundAssumption DEF StoreTypes, StampInv, Corrupt, Stock, Stamp
<1>8. CASE UNCHANGED vars
  BY <1>0, <1>8 DEF StoreTypes, StampInv, vars, storeVars
<1>. QED
  BY <1>1, <1>2, <1>3, <1>4, <1>5, <1>6, <1>7, <1>8, StepSplit DEF Next

PageState == {"none", "loading", "ready", "blocked", "conflict"}

LEMMA PageFields ==
  ASSUME NEW p \in Pages, NEW s \in PageState, NEW i \in Id, NEW b \in Version \cup {None}
  PROVE  /\ [p EXCEPT !.state = s] \in Pages
         /\ [p EXCEPT !.state = s, !.base = b] \in Pages
         /\ [p EXCEPT !.id = i, !.base = b] \in Pages
         /\ [p EXCEPT !.state = s, !.id = i, !.base = b] \in Pages
         /\ p.state \in PageState /\ p.id \in Id /\ p.base \in Version \cup {None}
BY DEF Pages, PageState

\* A request that is asked of the store.
LEMMA Asked ==
  ASSUME RequestTypes, StoreTypes, NEW c \in Client, NEW id \in Workflow,
         NEW base \in Version \cup {None}, NEW force \in BOOLEAN
  PROVE  /\ Saving(id, base, force) \in Request
         /\ [Saving(id, base, force) EXCEPT !.type = "delete"] \in Request
         /\ Ask(c, Saving(id, base, force)) => call' \in [Client -> Request \cup Reply \cup {None}]
         /\ Ask(c, [Saving(id, base, force) EXCEPT !.type = "delete"])
              => call' \in [Client -> Request \cup Reply \cup {None}]
<1>1. /\ Saving(id, base, force) \in Request
      /\ [Saving(id, base, force) EXCEPT !.type = "delete"] \in Request
  BY DEF StoreTypes, Saving, Request
<1>. QED
  BY <1>1 DEF RequestTypes, Ask

LEMMA RequestStep ==
  TypeOK /\ PageInv /\ GateInv /\ LabelInv /\ StoreTypes' /\ [Next]_vars => RequestTypes'
<1>. SUFFICES ASSUME TypeOK, PageInv, GateInv, LabelInv, StoreTypes', [Next]_vars PROVE RequestTypes'
  OBVIOUS
<1>0. RequestTypes /\ StoreTypes /\ WindowTypes /\ MainTypes
  BY TypeParts
<1>1. ASSUME NEW o \in Opener, OpenStep(o) PROVE RequestTypes'
  <2>1. CASE Build(o)
    <3>1. op[o] \in Calls
      BY <1>0 DEF WindowTypes
    <3>2. [NoPage EXCEPT !.state = "loading", !.id = op[o].id] \in Pages
      BY <3>1 DEF Calls, Pages, NoPage
    <3>. QED
      BY <1>0, <2>1, <3>2 DEF RequestTypes, Build
  <2>. QED
    BY <1>0, <1>1, <2>1 DEF RequestTypes, OpenStep, Open, Reuse, ReleaseStale, ChooseLabel, Reserve,
       BuildFails, Return
<1>2. ASSUME NEW l \in Label, Close(l) \/ OnDestroyed(l) PROVE RequestTypes'
  BY <1>0, <1>2, RecordTypes DEF RequestTypes, Close, OnDestroyed
<1>3. ASSUME NEW l \in Label, EditorStep(l) PROVE RequestTypes'
  <2>0. /\ page[l] \in Pages /\ page[l].id \in Id /\ page[l].base \in Version \cup {None}
        /\ \A w \in Workflow : store[w] \in Version \cup {None}
        /\ None \in Version \cup {None} /\ FALSE \in BOOLEAN /\ TRUE \in BOOLEAN
        /\ l \in Client
    BY <1>0, RecordTypes DEF RequestTypes, StoreTypes, Stock, Pages
  <2>1. CASE Load(l)
    <3>1. PICK s \in PageState, b \in Version \cup {None} :
                 page' = [page EXCEPT ![l] = [page[l] EXCEPT !.state = s, !.base = b]]
      BY <2>0, <2>1, RecordTypes DEF Load, Show, PageState, Id
    <3>2. [page[l] EXCEPT !.state = s, !.base = b] \in Pages
      BY <2>0, PageFields
    <3>. QED
      BY <1>0, <2>1, <3>1, <3>2 DEF RequestTypes, Load
  <2>2. CASE Save(l)
    BY <1>0, <2>0, <2>2, Asked DEF RequestTypes, Save
  <2>3. CASE EditorReply(l)
    <3>1. call' \in [Client -> Request \cup Reply \cup {None}]
      BY <1>0, <2>3 DEF RequestTypes, EditorReply
    <3>2. PICK p \in Pages : page' = page \/ page' = [page EXCEPT ![l] = p]
      <4>1. call[l].id \in Id /\ call[l].state[call[l].id] \in Version \cup {None}
        BY <2>3, RecordTypes DEF EditorReply, Stock
      <4>2. /\ [page[l] EXCEPT !.state = "conflict"] \in Pages
            /\ [page[l] EXCEPT !.id = call[l].id, !.base = call[l].state[call[l].id]] \in Pages
        BY <2>0, <4>1, PageFields DEF PageState
      <4>. QED
        BY <2>0, <2>3, <4>2 DEF EditorReply, Show
    <3>. QED
      BY <1>0, <3>1, <3>2 DEF RequestTypes
  <2>4. CASE Overwrite(l)
    <3>1. page[l].id \in Workflow
      BY <1>0, <2>4 DEF RequestTypes, Pages, Id, PageInv, Overwrite, LabelInv, NoPage
    <3>2. [page[l] EXCEPT !.state = "ready"] \in Pages
      BY <2>0, PageFields DEF PageState
    <3>. QED
      BY <1>0, <2>0, <2>4, <3>1, <3>2, Asked DEF RequestTypes, Overwrite, Show
  <2>5. CASE SaveCopy(l)
    <3>1. [page[l] EXCEPT !.state = "ready", !.id = NoId, !.base = None] \in Pages
      BY <2>0, PageFields, RecordTypes DEF PageState
    <3>2. call' \in [Client -> Request \cup Reply \cup {None}]
      BY <1>0, <2>0, <2>5, Asked DEF SaveCopy
    <3>. QED
      BY <1>0, <2>5, <3>1, <3>2 DEF RequestTypes, SaveCopy, Show
  <2>6. CASE ReloadLatest(l)
    <3>1. PICK b \in Version \cup {None} :
                 page' = [page EXCEPT ![l] = [page[l] EXCEPT !.state = "ready", !.base = b]]
      <4>. store[page[l].id] \in Version \cup {None}
        BY <1>0, <2>0, <2>6 DEF RequestTypes, Pages, Id, PageInv, ReloadLatest, LabelInv, NoPage
      <4>. QED
        BY <2>0, <2>6 DEF ReloadLatest, Show
    <3>2. [page[l] EXCEPT !.state = "ready", !.base = b] \in Pages
      BY <2>0, PageFields DEF PageState
    <3>. QED
      BY <1>0, <2>6, <3>1, <3>2 DEF RequestTypes, ReloadLatest
  <2>. QED
    BY <1>3, <2>1, <2>2, <2>3, <2>4, <2>5, <2>6 DEF EditorStep
<1>4. ASSUME NEW c \in Client, Accept(c) \/ Refute(c) \/ Fail(c) PROVE RequestTypes'
  BY <1>0, <1>4, RecordTypes
     DEF RequestTypes, Accept, Refute, Fail, Answered, Reply, StoreTypes
<1>5. CASE MainStep
  <2>1. ASSUME NEW x \in Workflow, SaveListed(x) \/ DeleteListed(x) \/ Duplicate(x)
        PROVE  RequestTypes'
    <3>1. /\ Main \in Client /\ list[x] \in Version \cup {None} /\ None \in Version \cup {None}
          /\ FALSE \in BOOLEAN
      BY <1>0, RecordTypes DEF MainTypes, Stock
    <3>. QED
      BY <1>0, <2>1, <3>1, Asked DEF RequestTypes, SaveListed, DeleteListed, Duplicate
  <2>2. CASE MainReply \/ HandleClosed \/ RefreshRead \/ RefreshApply
    BY <1>0, <2>2 DEF RequestTypes, MainReply, HandleClosed, RefreshRead, RefreshApply
  <2>. QED
    BY <1>5, <2>1, <2>2 DEF MainStep
<1>6. CASE Corrupt \/ UNCHANGED vars
  BY <1>0, <1>6 DEF RequestTypes, Corrupt, vars
<1>. QED
  BY <1>1, <1>2, <1>3, <1>4, <1>5, <1>6, StepSplit DEF Next

-----------------------------------------------------------------------------
(* The gate, the labels, and the owners of workflows.                      *)

\* A call of open_workflow_editor_window, a step further.
LEMMA CallAfter ==
  ASSUME WindowTypes, NEW o \in Opener,
         NEW pc \in {"idle", "lookup", "reserving", "building", "returning"}, Go(o, pc)
  PROVE  /\ op'[o].pc = pc /\ op'[o].label = op[o].label
         /\ op'[o].id = op[o].id /\ op'[o].kind = op[o].kind
         /\ \A p \in Opener \ {o} : op'[p] = op[p]
<1>1. op[o] = [pc |-> op[o].pc, id |-> op[o].id, kind |-> op[o].kind, label |-> op[o].label]
  BY DEF WindowTypes, Calls
<1>2. op'[o] = [op[o] EXCEPT !.pc = pc]
  BY DEF WindowTypes, Go
<1>3. \A p \in Opener \ {o} : op'[p] = op[p]
  BY DEF WindowTypes, Go
<1>. QED
  BY <1>1, <1>2, <1>3

\* A step of an editor concerns its own page and request.
LEMMA EditorFrame ==
  ASSUME TypeOK, LabelInv, NEW l \in Label, EditorStep(l)
  PROVE  /\ UNCHANGED <<registryVars, windowVars, openVars, storeVars, mainVars>>
         /\ \A c \in Client \ {l} : call'[c] = call[c]
         /\ \A m \in Label \ {l} : page'[m] = page[m]
         /\ l \notin win => page' = page /\ call'[l] = None /\ EditorReply(l)
         /\ l \in win => page'[l].state # "none"
<1>0. RequestTypes /\ page[l] \in Pages /\ l \in Client
  BY TypeParts, RecordTypes DEF RequestTypes
<1>1. UNCHANGED <<registryVars, windowVars, openVars, storeVars, mainVars>>
  BY DEF EditorStep, Load, Save, EditorReply, Overwrite, SaveCopy, ReloadLatest
<1>2. \A c \in Client \ {l} : call'[c] = call[c]
  BY <1>0 DEF RequestTypes, EditorStep, Load, Save, EditorReply, Overwrite, SaveCopy, ReloadLatest, Ask
<1>3. \A m \in Label \ {l} : page'[m] = page[m]
  BY <1>0 DEF RequestTypes, EditorStep, Load, Save, EditorReply, Overwrite, SaveCopy, ReloadLatest, Show
<1>4. ASSUME l \notin win PROVE page' = page /\ call'[l] = None /\ EditorReply(l)
  <2>1. page[l].state = "none"
    BY <1>4 DEF LabelInv
  <2>. QED
    BY <1>0, <2>1 DEF RequestTypes, EditorStep, Load, Save, EditorReply, Overwrite, SaveCopy, ReloadLatest
<1>5. ASSUME l \in win PROVE page'[l].state # "none"
  <2>1. page[l].state # "none"
    BY <1>5 DEF LabelInv
  <2>2. CASE Save(l)
    BY <2>1, <2>2 DEF Save
  <2>3. CASE EditorReply(l)
    BY <1>0, <2>1, <2>3 DEF EditorReply, Show, RequestTypes, Pages
  <2>4. CASE Load(l)
    BY <1>0, <2>4 DEF Load, Show, RequestTypes, Pages
  <2>5. CASE Overwrite(l)
    BY <1>0, <2>5 DEF Overwrite, Show, RequestTypes, Pages
  <2>6. CASE SaveCopy(l)
    BY <1>0, <2>6 DEF SaveCopy, Show, RequestTypes, Pages
  <2>7. CASE ReloadLatest(l)
    BY <1>0, <2>7 DEF ReloadLatest, Show, RequestTypes, Pages
  <2>. QED
    BY <2>2, <2>3, <2>4, <2>5, <2>6, <2>7 DEF EditorStep
<1>. QED
  BY <1>1, <1>2, <1>3, <1>4, <1>5

\* An answer concerns the client that has asked, and its entry.
LEMMA AnswerFrame ==
  ASSUME TypeOK, NEW c \in Client, Accept(c) \/ Refute(c) \/ Fail(c)
  PROVE  /\ UNCHANGED <<used, windowVars, openVars, page, taken, mainVars>>
         /\ call[c] \in Request
         /\ \A d \in Client \ {c} : call'[d] = call[d]
         /\ \A l \in Label \ {c} : registry'[l] = registry[l]
         /\ \A l \in Label : registry'[l] = None <=> registry[l] = None
<1>0. RequestTypes /\ WindowTypes
  BY TypeParts
<1>1. UNCHANGED <<used, windowVars, openVars, page, taken, mainVars>> /\ call[c] \in Request
  BY DEF Accept, Refute, Fail, registryVars
<1>2. \A d \in Client \ {c} : call'[d] = call[d]
  BY <1>0 DEF RequestTypes, Accept, Refute, Fail, Answered
<1>3. CASE registry' = registry
  BY <1>1, <1>2, <1>3
<1>4. CASE Accept(c) /\ c \in Registered
  <2>1. registry' = [registry EXCEPT ![c].id = call[c].id] /\ c \in Label /\ registry[c] \in Entry
    BY <1>0, <1>4 DEF Accept, Adopt, Registered, WindowTypes
  <2>2. [registry[c] EXCEPT !.id = call[c].id] \in Entry
    BY <1>1, <2>1, RecordTypes DEF Entry
  <2>3. registry'[c] # None /\ registry[c] # None
    BY <1>0, <2>1, <2>2, RecordTypes DEF WindowTypes
  <2>. QED
    BY <1>0, <1>1, <1>2, <2>1, <2>3 DEF WindowTypes
<1>. QED
  BY <1>3, <1>4 DEF Accept, Refute, Fail, Adopt, registryVars

\* The main window, and the file when it is unreadable, leave the editors alone.
LEMMA MainFrame ==
  ASSUME TypeOK, MainStep \/ Corrupt
  PROVE  /\ UNCHANGED <<registryVars, windowVars, openVars, page>>
         /\ \A l \in Label : call'[l] = call[l]
<1>0. RequestTypes /\ Main \notin Label /\ Label \subseteq Client
  BY TypeParts, RecordTypes
<1>1. UNCHANGED <<registryVars, windowVars, openVars, page>>
  BY DEF MainStep, SaveListed, DeleteListed, Duplicate, MainReply, HandleClosed, RefreshRead, RefreshApply, Corrupt
<1>2. UNCHANGED call \/ \E r : call' = [call EXCEPT ![Main] = r]
  BY DEF MainStep, SaveListed, DeleteListed, Duplicate, MainReply, HandleClosed, RefreshRead, RefreshApply, Corrupt, Ask
<1>. QED
  BY <1>0, <1>1, <1>2 DEF RequestTypes

LEMMA GateStep ==
  TypeOK /\ GateInv /\ LabelInv /\ [Next]_vars => GateInv' /\ LabelInv'
<1>. SUFFICES ASSUME TypeOK, GateInv, LabelInv, [Next]_vars PROVE GateInv' /\ LabelInv'
  OBVIOUS
<1>0. WindowTypes /\ RequestTypes
  BY TypeParts
<1>1. ASSUME NEW o \in Opener, OpenStep(o) PROVE GateInv' /\ LabelInv'
  <2>0. op[o] \in Calls /\ (op[o].pc # "idle" => \A p \in Opener \ {o} : op[p].pc = "idle")
    BY <1>0, RecordTypes DEF WindowTypes, GateInv
  <2>1. ASSUME NEW id \in Id, NEW kind \in Kind \cup {None}, Open(o, id, kind)
        PROVE  GateInv' /\ LabelInv'
    <3>1. \A p \in Opener : op[p].pc = "idle"
      BY <2>1, RecordTypes DEF Open, GateInv
    <3>. QED
      BY <1>0, <2>1, <3>1 DEF WindowTypes, GateInv, LabelInv, Open, Idle, registryVars, windowVars
  <2>2. CASE Reuse(o) \/ Return(o)
    BY <1>0, <2>0, <2>2 DEF WindowTypes, GateInv, LabelInv, Reuse, Return, Finish, Idle, registryVars, windowVars
  <2>3. CASE ReleaseStale(o)
    BY <1>0, <2>0, <2>3 DEF WindowTypes, GateInv, LabelInv, ReleaseStale, Release, EditorsFor, Registered, windowVars, openVars
  <2>4. CASE ChooseLabel(o)
    <3>3. PICK l \in Label \ used : op' = [op EXCEPT ![o].pc = "reserving", ![o].label = l]
      BY <2>4 DEF ChooseLabel, Available
    <3>4. op'[o] = [op[o] EXCEPT !.pc = "reserving", !.label = l]
      BY <1>0, <3>3 DEF WindowTypes
    <3>5. op'[o].pc = "reserving" /\ op'[o].label = l
      BY <2>0, <3>4 DEF Calls
    <3>1. /\ op'[o].pc = "reserving" /\ op'[o].label \in Label \ used
          /\ \A p \in Opener \ {o} : op'[p].pc = "idle"
          /\ gate = o
      BY <1>0, <2>0, <2>4, <3>3, <3>5 DEF WindowTypes, GateInv, ChooseLabel
    <3>2. UNCHANGED <<registry, used, win, destroyed, gate, page, call>>
      BY <2>4 DEF ChooseLabel, registryVars, windowVars
    <3>. QED
      BY <3>1, <3>2 DEF GateInv, LabelInv
  <2>5. CASE Reserve(o)
    <3>1. /\ op'[o].pc \in {"lookup", "building"} /\ op'[o].label = op[o].label
          /\ op'[o].id = op[o].id /\ op'[o].kind = op[o].kind
          /\ \A p \in Opener \ {o} : op'[p].pc = "idle"
          /\ gate = o /\ op[o].label \in Label \ used
      <4>1. Go(o, "lookup") \/ Go(o, "building")
        BY <2>5 DEF Reserve
      <4>2. /\ op'[o].pc \in {"lookup", "building"} /\ op'[o].label = op[o].label
            /\ op'[o].id = op[o].id /\ op'[o].kind = op[o].kind
            /\ \A p \in Opener \ {o} : op'[p] = op[p]
        <5>1. CASE Go(o, "lookup")
          BY <1>0, <5>1, CallAfter
        <5>2. CASE Go(o, "building")
          BY <1>0, <5>2, CallAfter
        <5>. QED
          BY <4>1, <5>1, <5>2
      <4>3. op[o].pc = "reserving"
        BY <2>5 DEF Reserve
      <4>. QED
        BY <2>0, <4>2, <4>3 DEF GateInv
    <3>2. UNCHANGED <<win, destroyed, gate, page, call>>
      BY <2>5 DEF Reserve, windowVars
    <3>3. CASE op'[o].pc = "building"
      <4>1. /\ used' = used \cup {op[o].label}
            /\ registry' = [registry EXCEPT ![op[o].label] = [id |-> op[o].id, kind |-> op[o].kind]]
        BY <1>0, <2>0, <2>5, <3>3 DEF Reserve, Go, WindowTypes, Calls
      <4>2. [id |-> op[o].id, kind |-> op[o].kind] # None
        BY <2>0, RecordTypes DEF Calls, Entry
      <4>. QED
        BY <1>0, <3>1, <3>2, <3>3, <4>1, <4>2 DEF WindowTypes, GateInv, LabelInv
    <3>4. CASE op'[o].pc = "lookup"
      <4>. UNCHANGED registryVars
        BY <1>0, <2>0, <2>5, <3>4 DEF Reserve, Go, WindowTypes, Calls
      <4>. QED
        BY <3>1, <3>2, <3>4 DEF GateInv, LabelInv, registryVars
    <3>. QED
      BY <3>1, <3>3, <3>4
  <2>6. CASE Build(o)
    <3>1. /\ op'[o].pc = "returning" /\ \A p \in Opener \ {o} : op'[p].pc = "idle"
          /\ gate = o /\ op[o].label \in used \ (win \cup destroyed) /\ op[o].label \in Label
          /\ registry[op[o].label] # None
      <4>1. [id |-> op[o].id, kind |-> op[o].kind] # None
        BY <2>0, RecordTypes DEF Calls, Entry
      <4>2. op'[o].pc = "returning" /\ \A p \in Opener \ {o} : op'[p] = op[p]
        BY <1>0, <2>6, CallAfter DEF Build
      <4>. QED
        BY <1>0, <2>0, <2>6, <4>1, <4>2 DEF WindowTypes, GateInv, Build
    <3>2. /\ UNCHANGED <<registry, used, destroyed, gate, call>> /\ win' = win \cup {op[o].label}
          /\ \A l \in Label \ {op[o].label} : page'[l] = page[l]
          /\ page'[op[o].label].state = "loading"
      BY <1>0, <2>6, <3>1 DEF RequestTypes, Build, registryVars, NoPage
    <3>. QED
      BY <1>0, <3>1, <3>2 DEF WindowTypes, GateInv, LabelInv
  <2>7. CASE BuildFails(o)
    BY <1>0, <2>0, <2>7, RecordTypes DEF WindowTypes, GateInv, LabelInv, BuildFails, Finish, Release, Idle, windowVars
  <2>. QED
    BY <1>1, <2>1, <2>2, <2>3, <2>4, <2>5, <2>6, <2>7 DEF OpenStep
<1>2. ASSUME NEW l \in Label, Close(l) \/ OnDestroyed(l) PROVE GateInv' /\ LabelInv'
  BY <1>0, <1>2, RecordTypes DEF WindowTypes, RequestTypes, GateInv, LabelInv, Close, OnDestroyed, Release, NoPage, registryVars, openVars
<1>3. ASSUME NEW l \in Label, EditorStep(l) PROVE GateInv' /\ LabelInv'
  <2>1. UNCHANGED <<registryVars, windowVars, openVars>>
    BY <1>3, EditorFrame
  <2>2. /\ \A m \in Label : call[m] = None /\ m \notin win => call'[m] = None
        /\ \A m \in Label \ win : page'[m] = page[m]
        /\ \A m \in win : page'[m].state # "none"
    BY <1>0, <1>3, EditorFrame, RecordTypes DEF LabelInv, WindowTypes
  <2>. QED
    BY <1>0, <2>1, <2>2 DEF WindowTypes, GateInv, LabelInv, registryVars, openVars, windowVars
<1>4. ASSUME NEW c \in Client, Accept(c) \/ Refute(c) \/ Fail(c) PROVE GateInv' /\ LabelInv'
  <2>1. /\ UNCHANGED <<used, windowVars, openVars, page>> /\ call[c] # None
        /\ \A l \in Label : l # c => registry'[l] = registry[l] /\ call'[l] = call[l]
        /\ \A l \in Label : registry'[l] = None <=> registry[l] = None
    BY <1>4, AnswerFrame, RecordTypes
  <2>2. \A o \in Opener : op[o].pc = "building" => op[o].label # c
    BY <2>1 DEF GateInv
  <2>. QED
    BY <1>0, <2>1, <2>2 DEF WindowTypes, GateInv, LabelInv, openVars, windowVars
<1>5. CASE MainStep \/ Corrupt
  BY <1>0, <1>5, MainFrame DEF WindowTypes, GateInv, LabelInv, registryVars, openVars, windowVars
<1>6. CASE UNCHANGED vars
  BY <1>0, <1>6 DEF GateInv, LabelInv, vars, registryVars, openVars, windowVars
<1>. QED
  BY <1>1, <1>2, <1>3, <1>4, <1>5, <1>6, StepSplit DEF Next
LEMMA UniqueStep == TypeOK /\ GateInv /\ LabelInv /\ UniqueInv /\ [Next]_vars => UniqueInv'
<1>. SUFFICES ASSUME TypeOK, GateInv, LabelInv, UniqueInv, [Next]_vars PROVE UniqueInv'
  OBVIOUS
<1>0. WindowTypes /\ RequestTypes
  BY TypeParts
\* Entries that go, or stay, are no danger.
<1>1. ASSUME \A l \in Label : registry'[l] = registry[l] \/ registry'[l] = None PROVE UniqueInv'
  BY <1>1 DEF UniqueInv, Registered
<1>2. ASSUME NEW o \in Opener, Reserve(o) PROVE UniqueInv'
  <2>1. CASE UNCHANGED registryVars
    BY <1>1, <2>1 DEF registryVars
  <2>2. CASE registry' # registry
    <3>1. /\ EditorsFor(op[o].id, op[o].kind) = {}
          /\ registry' = [registry EXCEPT ![op[o].label] = [id |-> op[o].id, kind |-> op[o].kind]]
      BY <1>2, <2>2 DEF Reserve, registryVars
    <3>2. op[o].label \in Label
      BY <1>2 DEF Reserve, GateInv
    <3>3. op[o].id # NoId => \A l \in Registered : registry[l].id # op[o].id
      BY <3>1 DEF EditorsFor
    <3>4. /\ registry'[op[o].label].id = op[o].id
          /\ \A l \in Label \ {op[o].label} : registry'[l] = registry[l]
      BY <1>0, <3>1, <3>2 DEF WindowTypes
    <3>. QED
      BY <3>2, <3>3, <3>4 DEF UniqueInv, Registered
  <2>. QED
    BY <1>2, <1>1, <2>1, <2>2 DEF UniqueInv, Reserve, registryVars, Registered
<1>3. ASSUME NEW o \in Opener, OpenStep(o), ~Reserve(o) PROVE UniqueInv'
  <2>. \A l \in Label : registry'[l] = registry[l] \/ registry'[l] = None
    BY <1>0, <1>3 DEF OpenStep, Open, Reuse, ReleaseStale, Release, EditorsFor, Registered, ChooseLabel,
       Build, BuildFails, Return, registryVars, WindowTypes
  <2>. QED
    BY <1>1
<1>4. ASSUME NEW l \in Label, Close(l) \/ OnDestroyed(l) \/ EditorStep(l) PROVE UniqueInv'
  <2>. \A m \in Label : registry'[m] = registry[m] \/ registry'[m] = None
    BY <1>0, <1>4, EditorFrame DEF Close, OnDestroyed, Release, registryVars, WindowTypes
  <2>. QED
    BY <1>1
<1>5. ASSUME NEW c \in Client, Accept(c) \/ Refute(c) \/ Fail(c) PROVE UniqueInv'
  <2>1. CASE registry' = registry
    BY <1>1, <2>1
  <2>2. CASE Accept(c) /\ c \in Registered
    <3>1. /\ registry' = [registry EXCEPT ![c].id = call[c].id] /\ c \in Label
          /\ registry[c] \in Entry /\ OwnerFree(c, call[c].id)
      BY <1>0, <2>2 DEF Accept, Adopt, Registered, WindowTypes
    <3>2. registry'[c].id = call[c].id /\ \A l \in Label \ {c} : registry'[l] = registry[l]
      BY <1>0, <3>1 DEF WindowTypes, Entry
    <3>. QED
      BY <2>2, <3>1, <3>2 DEF UniqueInv, Registered, OwnerFree
  <2>. QED
    BY <1>5, <2>1, <2>2 DEF Accept, Refute, Fail, Adopt, registryVars
<1>6. CASE MainStep \/ Corrupt \/ UNCHANGED vars
  BY <1>1, <1>6, MainFrame DEF registryVars, vars
<1>. QED
  BY <1>2, <1>3, <1>4, <1>5, <1>6, StepSplit DEF Next

-----------------------------------------------------------------------------
(* Labels run out.                                                         *)

LEMMA LabelSets ==
  ASSUME NEW S \in SUBSET Label
  PROVE  IsFiniteSet(S) /\ Cardinality(S) \in Nat /\ Cardinality(S) <= Cardinality(Label)
         /\ \A T \in SUBSET S : Cardinality(T) <= Cardinality(S)
BY NameAssumption, FS_Subset, FS_CardinalityType

LEMMA ClosedStep ==
  TypeOK /\ GateInv /\ LabelInv /\ ClosedInv /\ WindowTypes' /\ [Next]_vars
    => ClosedInv' /\ closed' \in 0 .. Cardinality(Label)
<1>. SUFFICES ASSUME TypeOK, GateInv, LabelInv, ClosedInv, WindowTypes', [Next]_vars
              PROVE  ClosedInv' /\ closed' \in 0 .. Cardinality(Label)
  OBVIOUS
<1>0. WindowTypes /\ closed \in Nat
  BY TypeParts DEF MainTypes
<1>1. /\ Ended \in SUBSET Label /\ Cardinality(Ended) \in Nat
      /\ Ended' \in SUBSET Label /\ Cardinality(Ended') \in Nat
      /\ Cardinality(Ended') <= Cardinality(Label) /\ Cardinality(Label) \in Nat
  BY <1>0, LabelSets DEF Ended, WindowTypes
<1>2. ASSUME Ended \subseteq Ended', closed' \in Nat, closed' <= closed
      PROVE  ClosedInv' /\ closed' \in 0 .. Cardinality(Label)
  <2>. Cardinality(Ended) <= Cardinality(Ended')
    BY <1>1, <1>2, LabelSets
  <2>. QED
    BY <1>0, <1>1, <1>2 DEF ClosedInv
\* A label that is being built has not been spent before.
<1>3. ASSUME NEW o \in Opener, OpenStep(o) PROVE ClosedInv' /\ closed' \in 0 .. Cardinality(Label)
  <2>1. closed' = closed /\ destroyed' = destroyed
    BY <1>3 DEF OpenStep, Open, Reuse, ReleaseStale, ChooseLabel, Reserve, Build, BuildFails, Return,
       mainVars, windowVars
  <2>2. used \subseteq used'
    BY <1>3 DEF OpenStep, Open, Reuse, ReleaseStale, ChooseLabel, Reserve, Build, BuildFails, Return,
       registryVars
  <2>3. \A l \in Ended : l \notin win'
    BY <1>0, <1>3 DEF OpenStep, Open, Reuse, ReleaseStale, ChooseLabel, Reserve, Build, BuildFails, Return,
       windowVars, Ended
  <2>4. ASSUME NEW l \in Ended, NEW p \in Opener, op'[p].pc = "building" PROVE op'[p].label # l
    <3>1. CASE op'[p] = op[p]
      BY <2>4, <3>1 DEF Ended
    <3>2. CASE op'[p] # op[p]
      <4>1. p = o
        BY <1>0, <1>3, <3>2 DEF OpenStep, Open, Reuse, ReleaseStale, ChooseLabel, Reserve, Build, BuildFails,
           Return, Finish, Go, openVars, WindowTypes
      <4>2. Reserve(o) /\ op'[o].label = op[o].label
        <5>1. CASE Reserve(o)
          <6>1. Go(o, "lookup") \/ Go(o, "building")
            BY <5>1 DEF Reserve
          <6>2. CASE Go(o, "lookup")
            BY <1>0, <5>1, <6>2, CallAfter
          <6>3. CASE Go(o, "building")
            BY <1>0, <5>1, <6>3, CallAfter
          <6>. QED
            BY <6>1, <6>2, <6>3
        <5>2. CASE ChooseLabel(o)
          <6>1. PICK m \in Label : op' = [op EXCEPT ![o].pc = "reserving", ![o].label = m]
            BY <5>2 DEF ChooseLabel, Available
          <6>2. op'[o] = [op[o] EXCEPT !.pc = "reserving", !.label = m] /\ op[o] \in Calls
            BY <1>0, <6>1 DEF WindowTypes
          <6>3. op'[o].pc = "reserving"
            BY <6>2 DEF Calls
          <6>. QED
            BY <2>4, <4>1, <6>3
        <5>3. CASE \E id \in Id, kind \in Kind \cup {None} : Open(o, id, kind)
          <6>1. op'[o].pc = "lookup"
            BY <1>0, <5>3 DEF Open, Idle, WindowTypes
          <6>. QED
            BY <2>4, <4>1, <6>1
        <5>4. CASE Reuse(o) \/ BuildFails(o) \/ Return(o)
          <6>1. op'[o].pc = "idle"
            BY <1>0, <5>4 DEF Reuse, BuildFails, Return, Finish, Idle, WindowTypes
          <6>. QED
            BY <2>4, <4>1, <6>1
        <5>5. CASE Build(o)
          <6>1. op'[o].pc = "returning"
            BY <1>0, <5>5, CallAfter DEF Build
          <6>. QED
            BY <2>4, <4>1, <6>1
        <5>6. CASE ReleaseStale(o)
          BY <3>2, <5>6 DEF ReleaseStale, openVars
        <5>. QED
          BY <1>3, <5>1, <5>2, <5>3, <5>4, <5>5, <5>6 DEF OpenStep
      <4>. QED
        BY <4>1, <4>2 DEF GateInv, Reserve, Ended
    <3>. QED
      BY <3>1, <3>2
  <2>5. Ended \subseteq Ended'
    BY <2>1, <2>2, <2>3, <2>4 DEF Ended
  <2>. QED
    BY <1>0, <1>2, <2>1, <2>5
<1>4. ASSUME NEW l \in Label, Close(l) PROVE ClosedInv' /\ closed' \in 0 .. Cardinality(Label)
  <2>. Ended \subseteq Ended' /\ closed' = closed
    BY <1>0, <1>4 DEF Close, Ended, registryVars, openVars, mainVars, WindowTypes
  <2>. QED
    BY <1>0, <1>2
<1>5. ASSUME NEW l \in Label, OnDestroyed(l) PROVE ClosedInv' /\ closed' \in 0 .. Cardinality(Label)
  <2>1. l \in Ended' /\ l \notin Ended /\ Ended \subseteq Ended'
    BY <1>0, <1>5 DEF OnDestroyed, GateInv, LabelInv, Ended, openVars
  <2>2. Cardinality(Ended \cup {l}) = Cardinality(Ended) + 1
    BY <1>1, <2>1, LabelSets, FS_AddElement
  <2>3. Cardinality(Ended \cup {l}) <= Cardinality(Ended')
    BY <1>1, <2>1, LabelSets
  <2>. QED
    BY <1>0, <1>1, <1>5, <2>2, <2>3 DEF ClosedInv, OnDestroyed
<1>6. ASSUME \/ \E l \in Label : EditorStep(l)
             \/ \E c \in Client : Accept(c) \/ Refute(c) \/ Fail(c)
             \/ MainStep \/ Corrupt \/ UNCHANGED vars
      PROVE  ClosedInv' /\ closed' \in 0 .. Cardinality(Label)
  <2>1. UNCHANGED <<used, windowVars, openVars>>
    BY <1>6, EditorFrame, AnswerFrame, MainFrame DEF vars, registryVars
  <2>2. closed' \in Nat /\ closed' <= closed
    <3>1. CASE UNCHANGED mainVars \/ UNCHANGED vars
      BY <1>0, <3>1 DEF mainVars, vars
    <3>2. CASE MainStep
      <4>1. closed' = closed \/ HandleClosed
        BY <3>2 DEF MainStep, SaveListed, DeleteListed, Duplicate, MainReply, RefreshRead, RefreshApply, mainVars
      <4>. QED
        BY <1>0, <4>1 DEF HandleClosed
    <3>3. CASE Corrupt
      BY <1>0, <3>3 DEF Corrupt, mainVars
    <3>. QED
      BY <1>6, <3>1, <3>2, <3>3, EditorFrame, AnswerFrame
  <2>3. Ended = Ended'
    BY <2>1 DEF Ended, windowVars, openVars
  <2>. QED
    BY <1>2, <2>2, <2>3
<1>. QED
  BY <1>3, <1>4, <1>5, <1>6, StepSplit DEF Next

LEMMA MainTypesStep ==
  TypeOK /\ LabelInv /\ ReadInv /\ closed' \in 0 .. Cardinality(Label) /\ [Next]_vars => MainTypes' /\ ReadInv'
<1>. SUFFICES ASSUME TypeOK, LabelInv, ReadInv, closed' \in 0 .. Cardinality(Label), [Next]_vars
              PROVE  MainTypes' /\ ReadInv'
  OBVIOUS
<1>. DEFINE Refreshes == [step : {"idle", "asked", "read"}, again : BOOLEAN, state : Stock \cup {None}]
<1>0. /\ list \in Stock /\ refresh \in Refreshes /\ crossed \in BOOLEAN /\ store \in Stock
      /\ call \in [Client -> Request \cup Reply \cup {None}]
  BY TypeParts DEF MainTypes, StoreTypes, RequestTypes
<1>1. crossed' \in BOOLEAN
  BY <1>0 DEF Next, vars
<1>2. ASSUME list' \in Stock, refresh' = refresh PROVE MainTypes' /\ ReadInv'
  BY <1>0, <1>1, <1>2 DEF MainTypes, ReadInv, Rest
<1>3. CASE MainReply
  BY <1>0, <1>2, <1>3, RecordTypes DEF MainReply
<1>4. CASE HandleClosed
  <2>1. [refresh EXCEPT !.again = TRUE] \in Refreshes /\ [Rest EXCEPT !.step = "asked"] \in Refreshes
    BY <1>0 DEF Rest
  <2>2. /\ [refresh EXCEPT !.again = TRUE].step = refresh.step
        /\ [refresh EXCEPT !.again = TRUE].state = refresh.state
        /\ [Rest EXCEPT !.step = "asked"].step = "asked"
    BY <1>0 DEF Rest
  <2>3. list' = list /\ refresh' \in Refreshes /\ ReadInv'
    BY <1>4, <2>1, <2>2 DEF HandleClosed, ReadInv
  <2>. QED
    BY <1>0, <1>1, <2>3 DEF MainTypes
<1>5. CASE RefreshRead
  <2>1. [refresh EXCEPT !.step = "read", !.state = store] \in Refreshes
    BY <1>0
  <2>2. [refresh EXCEPT !.step = "read", !.state = store].step = "read"
        /\ [refresh EXCEPT !.step = "read", !.state = store].state = store
    BY <1>0
  <2>. QED
    BY <1>0, <1>1, <1>5, <2>1, <2>2 DEF RefreshRead, MainTypes, ReadInv
<1>6. CASE RefreshApply
  <2>1. Rest \in Refreshes /\ [Rest EXCEPT !.step = "asked"] \in Refreshes
        /\ [Rest EXCEPT !.step = "asked"].step = "asked" /\ Rest.step = "idle"
    BY DEF Rest
  <2>2. refresh.state \in Stock
    BY <1>6 DEF RefreshApply, ReadInv
  <2>3. list' \in Stock /\ refresh' \in Refreshes
    BY <1>0, <1>6, <2>1, <2>2 DEF RefreshApply
  <2>4. ReadInv'
    BY <1>6, <2>1 DEF RefreshApply, ReadInv
  <2>. QED
    BY <1>0, <1>1, <2>3, <2>4 DEF MainTypes
<1>7. ASSUME NEW o \in Opener, OpenStep(o) PROVE UNCHANGED <<list, refresh>>
  BY <1>7 DEF OpenStep, Open, Reuse, ReleaseStale, ChooseLabel, Reserve, Build, BuildFails, Return, mainVars
<1>8. ASSUME NEW l \in Label, Close(l) \/ OnDestroyed(l) \/ EditorStep(l) PROVE UNCHANGED <<list, refresh>>
  BY <1>8, EditorFrame DEF Close, OnDestroyed, mainVars
<1>9. ASSUME NEW c \in Client, Accept(c) \/ Refute(c) \/ Fail(c) PROVE UNCHANGED <<list, refresh>>
  BY <1>9, AnswerFrame DEF mainVars
<1>10. ASSUME NEW x \in Workflow, SaveListed(x) \/ DeleteListed(x) \/ Duplicate(x)
       PROVE  UNCHANGED <<list, refresh>>
  BY <1>10 DEF SaveListed, DeleteListed, Duplicate, mainVars
<1>11. CASE Corrupt \/ UNCHANGED vars
  <2>. UNCHANGED <<list, refresh>>
    BY <1>11 DEF Corrupt, vars, mainVars
  <2>. QED
    BY <1>0, <1>2
<1>. QED
  BY <1>0, <1>2, <1>3, <1>4, <1>5, <1>6, <1>7, <1>8, <1>9, <1>10, <1>11, StepSplit DEF Next, MainStep

-----------------------------------------------------------------------------
(* A page, its entry and its request.                                      *)

\* What PageInv and CurrentInv say of one window.
PageOk(l) ==
  /\ page[l].id # NoId => registry[l].id = page[l].id
  /\ page[l].id = NoId => page[l].base = None
  /\ page[l].state \in {"loading", "blocked"} => call[l] = None
  /\ page[l].state = "conflict" => call[l] = None /\ page[l].id # NoId
  /\ call[l] \in Request =>
       /\ call[l].base # None => page[l].id # NoId
       /\ page[l].id # NoId => call[l].id = page[l].id
  /\ call[l] \in Reply =>
       IF call[l].type = "done" THEN registry[l].id = call[l].id ELSE page[l].id # NoId
CurrentOk(l) ==
  /\ page[l].state # "conflict"
  /\ call[l] \in Request => ~call[l].force /\ call[l].base = page[l].base
  /\ call[l] \in Reply =>
       call[l].type = "done" /\ store[call[l].id] = call[l].state[call[l].id]
  /\ page[l].state = "ready" /\ page[l].id # NoId /\ call[l] \notin Reply =>
       store[page[l].id] = page[l].base

LEMMA EachPage ==
  /\ PageInv <=> \A l \in win : PageOk(l)
  /\ CurrentInv <=> (~recovered => \A l \in win : CurrentOk(l))
BY DEF PageInv, PageOk, CurrentInv, CurrentOk

\* An entry whose window is open stays as it is while other windows are opened,
\* closed and handled.
LEMMA OpenFrame ==
  ASSUME TypeOK, GateInv, LabelInv, NEW o \in Opener, OpenStep(o)
  PROVE  /\ UNCHANGED <<destroyed, storeVars, taken, call, mainVars>>
         /\ win \subseteq win'
         /\ \A l \in win : registry'[l] = registry[l] /\ page'[l] = page[l]
         /\ \A l \in win' \ win :
              /\ l \in Label /\ page'[l].state = "loading" /\ page'[l].base = None
              /\ page'[l].id = registry'[l].id /\ call[l] = None
<1>0. WindowTypes /\ RequestTypes
  BY TypeParts
<1>1. UNCHANGED <<destroyed, storeVars, taken, call, mainVars>>
  BY DEF OpenStep, Open, Reuse, ReleaseStale, ChooseLabel, Reserve, Build, BuildFails, Return, windowVars
<1>2. CASE Build(o)
  <2>1. /\ op[o].label \in used \ (win \cup destroyed) /\ op[o].label \in Label /\ op[o] \in Calls
        /\ registry[op[o].label] = [id |-> op[o].id, kind |-> op[o].kind]
        /\ call[op[o].label] = None
    BY <1>0, <1>2 DEF Build, GateInv, WindowTypes
  <2>2. /\ win' = win \cup {op[o].label} /\ registry' = registry
        /\ page' = [page EXCEPT ![op[o].label] = [NoPage EXCEPT !.state = "loading", !.id = op[o].id]]
    BY <1>2 DEF Build, registryVars
  <2>3. /\ page'[op[o].label] = [NoPage EXCEPT !.state = "loading", !.id = op[o].id]
        /\ \A l \in win : page'[l] = page[l]
    BY <1>0, <2>1, <2>2 DEF RequestTypes, WindowTypes
  <2>4. /\ [NoPage EXCEPT !.state = "loading", !.id = op[o].id].state = "loading"
        /\ [NoPage EXCEPT !.state = "loading", !.id = op[o].id].base = None
        /\ [NoPage EXCEPT !.state = "loading", !.id = op[o].id].id = op[o].id
    BY DEF NoPage
  <2>5. registry[op[o].label].id = op[o].id
    BY <2>1
  <2>. QED
    BY <1>1, <2>1, <2>2, <2>3, <2>4, <2>5
<1>3. CASE Reserve(o)
  <2>1. op[o].label \in Label \ used
    BY <1>3 DEF Reserve, GateInv
  <2>2. win' = win /\ page' = page
    BY <1>3 DEF Reserve, windowVars
  <2>3. \A l \in win : registry'[l] = registry[l]
    BY <1>0, <1>3, <2>1 DEF Reserve, LabelInv, WindowTypes, registryVars
  <2>. QED
    BY <1>1, <2>2, <2>3
<1>4. CASE BuildFails(o)
  <2>1. op[o].label \in used \ (win \cup destroyed)
    BY <1>4 DEF BuildFails, GateInv
  <2>. QED
    BY <1>0, <1>1, <1>4, <2>1 DEF BuildFails, Release, WindowTypes, windowVars
<1>5. CASE ReleaseStale(o)
  BY <1>0, <1>1, <1>5 DEF ReleaseStale, Release, WindowTypes, windowVars
<1>6. CASE Reuse(o) \/ ChooseLabel(o) \/ Return(o) \/ \E id \in Id, kind \in Kind \cup {None} : Open(o, id, kind)
  BY <1>1, <1>6 DEF Reuse, ChooseLabel, Return, Open, registryVars, windowVars
<1>. QED
  BY <1>2, <1>3, <1>4, <1>5, <1>6 DEF OpenStep

\* The same for a window that closes, or whose end is handled.
LEMMA CloseFrame ==
  ASSUME TypeOK, LabelInv, NEW m \in Label, Close(m) \/ OnDestroyed(m)
  PROVE  /\ UNCHANGED <<openVars, storeVars, taken, call, list, refresh>>
         /\ win' \subseteq win
         /\ \A l \in win' : registry'[l] = registry[l] /\ page'[l] = page[l]
<1>0. WindowTypes /\ RequestTypes
  BY TypeParts
<1>. QED
  BY <1>0 DEF Close, OnDestroyed, Release, LabelInv, WindowTypes, RequestTypes, registryVars, mainVars

LEMMA EditorPage ==
  ASSUME TypeOK, GateInv, LabelInv, PageInv, NEW l \in win, EditorStep(l)
  PROVE  PageOk(l)' /\ (~recovered /\ CurrentOk(l) => CurrentOk(l)')
<1>0. /\ WindowTypes /\ RequestTypes /\ StoreTypes /\ l \in Label /\ l \in Client
      /\ page[l] \in Pages /\ page[l].state # "none"
  BY TypeParts, RecordTypes DEF WindowTypes, RequestTypes, LabelInv
<1>1. PageOk(l) /\ UNCHANGED <<registry, store, recovered>>
  BY EachPage, EditorFrame, <1>0 DEF registryVars, storeVars
<1>2. CASE Load(l)
  <2>1. PICK s \in {"blocked", "ready"} :
              page'[l] = [page[l] EXCEPT !.state = s,
                                         !.base = IF page[l].id = NoId THEN None ELSE store[page[l].id]]
    BY <1>0, <1>2 DEF Load, Show, RequestTypes
  <2>2. /\ page'[l].state = s /\ page'[l].id = page[l].id
        /\ page'[l].base = IF page[l].id = NoId THEN None ELSE store[page[l].id]
    BY <1>0, <2>1 DEF Pages
  <2>3. call'[l] = None /\ call[l] = None /\ None \notin Request \cup Reply
    BY <1>1, <1>2, RecordTypes DEF Load, PageOk
  <2>. QED
    BY <1>1, <2>2, <2>3 DEF PageOk, CurrentOk
<1>3. CASE Save(l)
  <2>1. PICK id \in Workflow : Named(page[l].id, id) /\ Ask(l, Saving(id, page[l].base, FALSE))
    BY <1>3 DEF Save
  <2>2. call'[l] = Saving(id, page[l].base, FALSE) /\ page' = page /\ call[l] = None
    BY <1>0, <1>3, <2>1 DEF RequestTypes, Ask, Save
  <2>3. page[l].state = "ready" /\ (page[l].id # NoId => page[l].id = id)
    BY <1>3, <2>1 DEF Save, Named
  <2>4. call'[l] \notin Reply
    <3>. call'[l] \in Request
      BY <1>0, <2>2, Asked DEF Pages
    <3>. QED
      BY RecordTypes
  <2>5. call'[l].id = id /\ call'[l].base = page[l].base /\ call'[l].force = FALSE
    BY <2>2 DEF Saving
  <2>. QED
    BY <1>1, <2>2, <2>3, <2>4, <2>5, RecordTypes DEF PageOk, CurrentOk
<1>4. CASE EditorReply(l)
  <2>1. /\ call[l] \in Reply /\ call'[l] = None /\ None \notin Request \cup Reply
        /\ call[l].type \in {"done", "conflict"} /\ call[l].id \in Workflow
        /\ call[l].id # NoId /\ page[l].state \notin {"loading", "blocked", "conflict"}
    BY <1>0, <1>1, <1>4, RecordTypes DEF EditorReply, RequestTypes, PageOk
  <2>2. CASE call[l].type = "conflict"
    <3>1. page'[l] = [page[l] EXCEPT !.state = "conflict"]
      BY <1>0, <1>4, <2>2 DEF EditorReply, Show, RequestTypes
    <3>2. page'[l].state = "conflict" /\ page'[l].id = page[l].id /\ page'[l].base = page[l].base
      BY <1>0, <3>1 DEF Pages
    <3>. QED
      BY <1>1, <2>1, <2>2, <3>2 DEF PageOk, CurrentOk
  <2>3. CASE call[l].type = "done"
    <3>1. page'[l] = [page[l] EXCEPT !.id = call[l].id, !.base = call[l].state[call[l].id]]
      BY <1>0, <1>4, <2>3 DEF EditorReply, Show, RequestTypes
    <3>2. /\ page'[l].state = page[l].state /\ page'[l].id = call[l].id
          /\ page'[l].base = call[l].state[call[l].id]
      BY <1>0, <3>1 DEF Pages
    <3>. QED
      BY <1>1, <2>1, <2>3, <3>2 DEF PageOk, CurrentOk
  <2>. QED
    BY <2>1, <2>2, <2>3
<1>5. CASE Overwrite(l)
  <2>1. /\ call'[l] = Saving(page[l].id, None, TRUE) /\ page'[l] = [page[l] EXCEPT !.state = "ready"]
        /\ page[l].state = "conflict"
    BY <1>0, <1>5 DEF Overwrite, Ask, Show, RequestTypes
  <2>2. page'[l].state = "ready" /\ page'[l].id = page[l].id /\ page'[l].base = page[l].base
    BY <1>0, <2>1 DEF Pages
  <2>3. page[l].id \in Workflow
    BY <1>0, <1>1, <2>1 DEF PageOk, Pages, Id
  <2>4. call'[l] \notin Reply
    <3>1. Saving(page[l].id, None, TRUE) \in Request
      BY <1>0, <2>3, Asked
    <3>. QED
      BY <2>1, <3>1, RecordTypes
  <2>5. call'[l].id = page[l].id /\ call'[l].base = None
    BY <2>1 DEF Saving
  <2>. QED
    BY <1>1, <2>1, <2>2, <2>4, <2>5 DEF PageOk, CurrentOk
<1>6. CASE SaveCopy(l)
  <2>1. PICK id \in Workflow : call'[l] = Saving(id, None, FALSE)
    BY <1>0, <1>6 DEF SaveCopy, Ask, RequestTypes
  <2>2. /\ page'[l] = [page[l] EXCEPT !.state = "ready", !.id = NoId, !.base = None]
        /\ page[l].state = "conflict"
    BY <1>0, <1>6 DEF SaveCopy, Show, RequestTypes
  <2>3. page'[l].state = "ready" /\ page'[l].id = NoId /\ page'[l].base = None
    BY <1>0, <2>2 DEF Pages
  <2>4. call'[l] \notin Reply
    <3>1. Saving(id, None, FALSE) \in Request
      BY <1>0, Asked
    <3>. QED
      BY <2>1, <3>1, RecordTypes
  <2>5. call'[l].base = None
    BY <2>1 DEF Saving
  <2>. QED
    BY <2>2, <2>3, <2>4, <2>5 DEF PageOk, CurrentOk
<1>7. CASE ReloadLatest(l)
  <2>1. PICK b : page'[l] = [page[l] EXCEPT !.state = "ready", !.base = b]
    BY <1>0, <1>7 DEF ReloadLatest, Show, RequestTypes
  <2>2. page'[l].state = "ready" /\ page'[l].id = page[l].id
    BY <1>0, <2>1 DEF Pages
  <2>3. page[l].state = "conflict" /\ call'[l] = None /\ None \notin Request \cup Reply
    BY <1>7, RecordTypes DEF ReloadLatest
  <2>. QED
    BY <1>1, <2>2, <2>3 DEF PageOk, CurrentOk
<1>. QED
  BY <1>2, <1>3, <1>4, <1>5, <1>6, <1>7 DEF EditorStep

LEMMA PageStep ==
  ASSUME TypeOK, StoreTypes', GateInv, LabelInv, PageInv, CurrentInv, [Next]_vars
  PROVE  PageInv' /\ CurrentInv'
<1>0. /\ WindowTypes /\ RequestTypes /\ StoreTypes /\ \A l \in win : l \in Label /\ l \in Client
      /\ \A l \in win : PageOk(l) /\ (~recovered => CurrentOk(l))
  BY TypeParts, RecordTypes, EachPage DEF WindowTypes
<1>. SUFFICES (\A l \in win' : PageOk(l)') /\ (~recovered' => \A l \in win' : CurrentOk(l)')
  BY DEF PageInv, PageOk, CurrentInv, CurrentOk
\* A window that nothing touches.
<1>1. ASSUME NEW l \in win, page'[l] = page[l], registry'[l] = registry[l], call'[l] = call[l]
      PROVE  PageOk(l)' /\ (UNCHANGED <<store, recovered>> => (~recovered' => CurrentOk(l)'))
  BY <1>0, <1>1 DEF PageOk, CurrentOk
<1>2. ASSUME NEW o \in Opener, OpenStep(o)
      PROVE  (\A l \in win' : PageOk(l)') /\ (~recovered' => \A l \in win' : CurrentOk(l)')
  <2>1. ASSUME NEW l \in win' \ win PROVE PageOk(l)' /\ CurrentOk(l)'
    <3>. /\ page'[l].state = "loading" /\ page'[l].base = None
         /\ page'[l].id = registry'[l].id /\ call'[l] = None
      BY <1>2, <2>1, OpenFrame
    <3>. QED
      BY RecordTypes DEF PageOk, CurrentOk
  <2>2. UNCHANGED <<store, recovered, call>> /\ \A l \in win : registry'[l] = registry[l] /\ page'[l] = page[l]
    BY <1>2, OpenFrame DEF storeVars
  <2>. QED
    BY <1>1, <2>1, <2>2
<1>3. ASSUME NEW m \in Label, Close(m) \/ OnDestroyed(m)
      PROVE  (\A l \in win' : PageOk(l)') /\ (~recovered' => \A l \in win' : CurrentOk(l)')
  <2>1. /\ UNCHANGED <<store, recovered, call>> /\ win' \subseteq win
        /\ \A l \in win' : registry'[l] = registry[l] /\ page'[l] = page[l]
    BY <1>3, CloseFrame DEF storeVars
  <2>. QED
    BY <1>1, <2>1
<1>4. ASSUME NEW m \in Label, EditorStep(m)
      PROVE  (\A l \in win' : PageOk(l)') /\ (~recovered' => \A l \in win' : CurrentOk(l)')
  <2>1. /\ UNCHANGED <<registry, win, store, recovered>>
        /\ \A l \in win \ {m} : page'[l] = page[l] /\ call'[l] = call[l]
    BY <1>0, <1>4, EditorFrame DEF registryVars, windowVars, storeVars
  <2>2. m \in win => PageOk(m)' /\ (~recovered => CurrentOk(m)')
    BY <1>0, <1>4, EditorPage
  <2>. QED
    BY <1>1, <2>1, <2>2
<1>5. ASSUME NEW c \in Client, Accept(c)
      PROVE  (\A l \in win' : PageOk(l)') /\ (~recovered' => \A l \in win' : CurrentOk(l)')
  <2>0. /\ win' = win /\ page' = page /\ recovered' = recovered /\ call[c] \in Request
        /\ \A l \in win \ {c} : registry'[l] = registry[l] /\ call'[l] = call[l]
    BY <1>0, <1>5, AnswerFrame DEF windowVars, Accept
  \* No other window has the workflow.
  <2>1. \A l \in win \ {c} : registry[l].id # call[c].id
    BY <1>0, <1>5 DEF Accept, OwnerFree, Registered, LabelInv
  <2>2. \A x \in Workflow \ {call[c].id} : store'[x] = store[x]
    <3>1. PICK v : store' = [store EXCEPT ![call[c].id] = v]
      BY <1>5, <2>0, RecordTypes DEF Accept, Apply, Put
    <3>. QED
      BY <1>0, <3>1 DEF StoreTypes, Stock
  <2>3. ASSUME NEW l \in win \ {c} PROVE PageOk(l)' /\ (~recovered' => CurrentOk(l)')
    <3>1. PageOk(l)' /\ PageOk(l)
      BY <1>0, <1>1, <2>0
    <3>2. page[l].id # call[c].id
      BY <2>0, <2>1, <3>1, RecordTypes DEF PageOk
    <3>3. page[l].id # NoId => page[l].id \in Workflow
      BY <1>0 DEF RequestTypes, Pages, Id
    <3>4. call[l] \in Reply /\ call[l].type = "done" => call[l].id \in Workflow \ {call[c].id}
      BY <2>1, <3>1, RecordTypes DEF PageOk
    <3>5. ~recovered => CurrentOk(l)'
      BY <1>0, <2>0, <2>2, <3>2, <3>3, <3>4 DEF CurrentOk
    <3>. QED
      BY <2>0, <3>1, <3>5
  <2>4. ASSUME c \in win PROVE PageOk(c)' /\ (~recovered' => CurrentOk(c)')
    <3>1. registry'[c].id = call[c].id
      <4>1. c \in Registered /\ c \in Label /\ registry[c] \in Entry
        BY <1>0, <2>4 DEF LabelInv, Registered, WindowTypes
      <4>2. registry' = [registry EXCEPT ![c].id = call[c].id]
        BY <1>5, <4>1 DEF Accept, Adopt
      <4>. QED
        BY <1>0, <4>1, <4>2 DEF WindowTypes, Entry
    <3>2. call'[c] = [type |-> "done", id |-> call[c].id, state |-> store']
      BY <1>0, <1>5 DEF Accept, Answered, RequestTypes
    <3>7. call'[c] \in Reply
      BY <2>0, <3>2, RecordTypes DEF Reply, StoreTypes
    <3>3. /\ call'[c].type = "done" /\ call'[c].id = call[c].id /\ call'[c].state = store'
          /\ call'[c] \notin Request /\ call'[c] # None
      BY <3>2, <3>7, RecordTypes
    <3>4. call[c] # None /\ PageOk(c)
      BY <1>0, <2>0, <2>4, RecordTypes
    <3>5. page[c].id # NoId => call[c].id = page[c].id
      BY <2>0, <3>4 DEF PageOk
    <3>6. PageOk(c)'
      BY <2>0, <3>1, <3>3, <3>4, <3>5 DEF PageOk
    <3>. QED
      BY <1>0, <2>0, <2>4, <3>3, <3>6, <3>7 DEF CurrentOk
  <2>. QED
    BY <2>0, <2>3, <2>4
<1>6. ASSUME NEW c \in Client, Refute(c) \/ Fail(c)
      PROVE  (\A l \in win' : PageOk(l)') /\ (~recovered' => \A l \in win' : CurrentOk(l)')
  <2>0. /\ win' = win /\ page' = page /\ registry' = registry /\ store' = store /\ recovered' = recovered
        /\ call[c] \in Request /\ \A l \in win \ {c} : call'[l] = call[l]
    BY <1>0, <1>6, AnswerFrame DEF windowVars, registryVars, storeVars, Refute, Fail
  <2>1. ASSUME c \in win PROVE PageOk(c)' /\ (~recovered' => CurrentOk(c)')
    <3>1. PageOk(c) /\ call[c] # None /\ c \in Label /\ page[c].state = "ready"
      <4>1. PageOk(c) /\ call[c] # None /\ c \in Label /\ page[c].state # "none"
        BY <1>0, <2>0, <2>1, RecordTypes DEF LabelInv
      <4>2. page[c].state \in {"none", "loading", "ready", "blocked", "conflict"}
        BY <1>0, <4>1 DEF RequestTypes, Pages
      <4>. QED
        BY <4>1, <4>2 DEF PageOk
    <3>2. CASE Fail(c)
      <4>. call'[c] = None
        BY <1>0, <2>1, <3>2 DEF Fail, Answered, RequestTypes
      <4>1. PageOk(c)'
        BY <2>0, <3>1, RecordTypes DEF PageOk
      <4>2. ~recovered => CurrentOk(c)'
        BY <1>0, <2>0, <2>1, RecordTypes DEF CurrentOk
      <4>. QED
        BY <2>0, <4>1, <4>2
    <3>3. CASE Refute(c)
      <4>1. /\ call'[c] = [type |-> "conflict", id |-> call[c].id, state |-> store]
            /\ ~call[c].force /\ call[c].base # None /\ At(call[c].base) # At(store[call[c].id])
        BY <1>0, <2>1, <3>3 DEF Refute, Answered, RequestTypes, Conflicting
      <4>2. page[c].id # NoId /\ call[c].id = page[c].id
        BY <2>0, <3>1, <4>1 DEF PageOk
      <4>3. call'[c] \notin Request /\ call'[c].type = "conflict"
        BY <4>1 DEF Request
      <4>4. PageOk(c)'
        BY <2>0, <3>1, <4>2, <4>3 DEF PageOk
      <4>5. CASE ~recovered
        <5>1. CurrentOk(c) /\ call[c] \notin Reply
          BY <1>0, <2>0, <2>1, <4>5, RecordTypes
        <5>2. store[page[c].id] = page[c].base /\ call[c].base = page[c].base
          BY <2>0, <3>1, <4>2, <5>1 DEF CurrentOk
        <5>. QED
          BY <4>1, <4>2, <5>2
      <4>. QED
        BY <2>0, <4>4, <4>5
    <3>. QED
      BY <1>6, <3>2, <3>3
  <2>. QED
    BY <1>1, <2>0, <2>1
<1>7. CASE MainStep
  <2>. /\ UNCHANGED <<registry, win, page, store, recovered>> /\ \A l \in win : call'[l] = call[l]
    BY <1>0, <1>7, MainFrame DEF registryVars, windowVars, storeVars, MainStep, SaveListed, DeleteListed,
       Duplicate, MainReply, HandleClosed, RefreshRead, RefreshApply
  <2>. QED
    BY <1>1
<1>8. CASE Corrupt
  <2>. /\ UNCHANGED <<registry, win, page>> /\ \A l \in win : call'[l] = call[l] /\ recovered'
    BY <1>0, <1>8, MainFrame DEF registryVars, windowVars, Corrupt
  <2>. QED
    BY <1>1, <1>8 DEF Corrupt
<1>9. CASE UNCHANGED vars
  <2>. UNCHANGED <<registry, win, page, store, recovered, call>>
    BY <1>9 DEF vars, registryVars, windowVars, storeVars
  <2>. QED
    BY <1>1
<1>. QED
  BY <1>2, <1>3, <1>4, <1>5, <1>6, <1>7, <1>8, <1>9, StepSplit DEF Next

-----------------------------------------------------------------------------
(* The invariant holds.                                                    *)

LEMMA Start == Init => IInv /\ OverviewInv
<1>. SUFFICES ASSUME Init PROVE IInv /\ OverviewInv
  OBVIOUS
<1>1. /\ registry = [l \in Label |-> None] /\ used = {} /\ win = {} /\ destroyed = {} /\ gate = None
      /\ op = [o \in Opener |-> Idle] /\ page = [l \in Label |-> NoPage]
      /\ call = [c \in Client |-> None] /\ refresh = Rest /\ closed = 0 /\ crossed = FALSE
  BY DEF Init
<1>2. /\ store = [w \in Workflow |-> IF w \in Stored THEN [at |-> 1, number |-> 0] ELSE None]
      /\ taken = Stored /\ writes = 0 /\ clock = 1 /\ recovered = FALSE /\ list = store
  BY DEF Init
<1>3. WindowTypes /\ RequestTypes
  BY <1>1, RecordTypes DEF WindowTypes, RequestTypes
<1>4. 1 \in Stamp /\ MaxWrites \in Nat
  BY BoundAssumption DEF Stamp
<1>5. [at |-> 1, number |-> 0] \in Version /\ [at |-> 1, number |-> 0].at = 1
  BY <1>4 DEF Version
<1>6. store \in Stock
  BY <1>2, <1>5 DEF Stock
<1>7. StoreTypes
  <2>1. taken \subseteq Workflow /\ writes \in 0 .. MaxWrites /\ clock \in Stamp
    BY <1>2, <1>4, NameAssumption
  <2>2. recovered \in BOOLEAN
    BY <1>2
  <2>. QED
    BY <1>6, <2>1, <2>2 DEF StoreTypes
<1>8. Rest \in [step : {"idle", "asked", "read"}, again : BOOLEAN, state : Stock \cup {None}] /\ Rest.step = "idle"
  BY DEF Rest
<1>9. /\ Ended = {} /\ Cardinality({}) = 0 /\ IsFiniteSet({})
      /\ Cardinality(Label) \in Nat /\ 0 \in 0 .. Cardinality(Label)
  BY <1>1, NameAssumption, FS_EmptySet, FS_CardinalityType DEF Ended
<1>10. MainTypes /\ ReadInv /\ ClosedInv
  <2>1. list \in Stock
    BY <1>2, <1>6
  <2>2. closed \in 0 .. Cardinality(Label) /\ closed <= Cardinality(Ended)
    BY <1>1, <1>9
  <2>3. crossed \in BOOLEAN
    BY <1>1
  <2>. QED
    BY <1>1, <1>8, <2>1, <2>2, <2>3 DEF MainTypes, ReadInv, ClosedInv
<1>11. GateInv
  BY <1>1 DEF GateInv, Idle
<1>12. LabelInv
  BY <1>1, RecordTypes DEF LabelInv, NoPage
<1>13. UniqueInv /\ PageInv /\ CurrentInv
  BY <1>1 DEF UniqueInv, Registered, PageInv, CurrentInv
<1>14. StampInv
  BY <1>1, <1>2, <1>4, <1>5, RecordTypes DEF StampInv
<1>15. OverviewInv
  BY <1>1, <1>2, <1>8, RecordTypes DEF OverviewInv
<1>. QED
  BY <1>3, <1>7, <1>10, <1>11, <1>12, <1>13, <1>14, <1>15, TypeParts DEF IInv

LEMMA InvariantStep == IInv /\ [Next]_vars => IInv'
<1>. SUFFICES ASSUME IInv, [Next]_vars PROVE IInv'
  OBVIOUS
<1>1. StoreTypes' /\ StampInv'
  BY StoreStep DEF IInv
<1>2. WindowTypes' /\ RequestTypes'
  BY <1>1, WindowStep, RequestStep DEF IInv
<1>3. ClosedInv' /\ MainTypes' /\ ReadInv'
  BY <1>2, ClosedStep, MainTypesStep DEF IInv
<1>4. GateInv' /\ LabelInv' /\ UniqueInv'
  BY GateStep, UniqueStep DEF IInv
<1>5. PageInv' /\ CurrentInv'
  BY <1>1, PageStep DEF IInv
<1>6. TypeOK'
  BY <1>1, <1>2, <1>3
     DEF TypeOK, WindowTypes, StoreTypes, RequestTypes, MainTypes, Editors, Entry, Pages, Calls
<1>. QED
  BY <1>1, <1>3, <1>4, <1>5, <1>6 DEF IInv

\* Who may still bring the main window up to date.
LEMMA ComingStep ==
  ASSUME IInv, [Next]_vars, Coming, ~Coming'
  PROVE  refresh'.step # "idle" /\ (refresh'.step = "read" => refresh'.again) /\ HandleClosed
<1>0. WindowTypes /\ MainTypes
  BY TypeParts DEF IInv
<1>1. ASSUME NEW o \in Opener, OpenStep(o) PROVE Coming'
  BY <1>1, OpenFrame DEF IInv, Coming, mainVars
<1>2. ASSUME NEW l \in Label, Close(l) \/ OnDestroyed(l) PROVE Coming'
  BY <1>0, <1>2 DEF Close, OnDestroyed, Coming, MainTypes
<1>3. ASSUME \/ \E l \in Label : EditorStep(l)
             \/ \E c \in Client : Accept(c) \/ Refute(c) \/ Fail(c)
             \/ UNCHANGED vars
      PROVE  Coming'
  <2>. UNCHANGED <<win, destroyed, closed>>
    BY <1>3, EditorFrame, AnswerFrame DEF IInv, vars, windowVars, mainVars
  <2>. QED
    BY DEF Coming
<1>4. ASSUME MainStep \/ Corrupt, ~HandleClosed PROVE Coming'
  <2>. UNCHANGED <<win, destroyed, closed>>
    BY <1>4 DEF MainStep, SaveListed, DeleteListed, Duplicate, MainReply, RefreshRead, RefreshApply, Corrupt,
       windowVars, mainVars
  <2>. QED
    BY DEF Coming
<1>5. HandleClosed
  BY <1>1, <1>2, <1>3, <1>4, StepSplit DEF Next
<1>6. CASE refresh.step = "idle"
  <2>. refresh'.step = "asked"
    BY <1>5, <1>6 DEF HandleClosed, Rest
  <2>. QED
    BY <1>5
<1>7. CASE refresh.step # "idle"
  <2>. refresh'.step = refresh.step /\ refresh'.again
    BY <1>0, <1>5, <1>7 DEF HandleClosed, MainTypes
  <2>. QED
    BY <1>5, <1>7
<1>. QED
  BY <1>6, <1>7

LEMMA OverviewStep == IInv /\ OverviewInv /\ ReadInv' /\ [Next]_vars => OverviewInv'
<1>. SUFFICES ASSUME IInv, OverviewInv, ReadInv', [Next]_vars, ~crossed', ~recovered' PROVE OverviewInv'
  BY DEF OverviewInv
<1>0. WindowTypes /\ RequestTypes /\ MainTypes /\ StoreTypes /\ None \notin Request \cup Reply
      /\ Main \in Client /\ Main \notin Label /\ Label \subseteq Client
  BY TypeParts, RecordTypes DEF IInv
<1>1. CASE UNCHANGED vars
  BY <1>1 DEF OverviewInv, Coming, vars, windowVars, mainVars, storeVars
<1>2. CASE Next
  <2>1. ~crossed /\ ~Crossing' /\ Step
    BY <1>2 DEF Next
  <2>2. ~recovered
    <3>. ~Corrupt
      BY DEF Corrupt
    <3>1. recovered' = recovered
      BY <2>1, StepSplit, EditorFrame, OpenFrame DEF IInv, Close, OnDestroyed, Accept, Refute, Fail, MainStep,
         SaveListed, DeleteListed, Duplicate, MainReply, HandleClosed, RefreshRead, RefreshApply, storeVars
    <3>. QED
      BY <3>1
  <2>3. /\ \A l \in Label : call[l] # None => l \in win
        /\ call[Main] # None => refresh = Rest
        /\ call[Main] \in Reply => call[Main].state = store \/ Coming
        /\ refresh.step = "read" /\ ~refresh.again => refresh.state = store \/ Coming
        /\ list = store \/ call[Main] \in Reply \/ Coming \/ refresh.step # "idle"
    BY <2>1, <2>2 DEF OverviewInv
  <2>4. /\ \A l \in Label : call'[l] # None => l \in win'
        /\ call'[Main] # None => refresh' = Rest
    BY <2>1 DEF Crossing, ReadInv
  <2>. SUFFICES /\ call'[Main] \in Reply => call'[Main].state = store' \/ Coming'
                /\ refresh'.step = "read" /\ ~refresh'.again => refresh'.state = store' \/ Coming'
                /\ list' = store' \/ call'[Main] \in Reply \/ Coming' \/ refresh'.step # "idle"
    BY <2>4 DEF OverviewInv
  <2>5. CASE Coming'
    BY <2>5
  <2>6. CASE ~Coming' /\ Coming
    <3>1. refresh'.step # "idle" /\ (refresh'.step = "read" => refresh'.again)
      BY <2>6, ComingStep
    <3>2. call'[Main] = None
      BY <2>4, <3>1 DEF Rest
    <3>. QED
      BY <1>0, <3>1, <3>2
  <2>7. CASE ~Coming' /\ ~Coming
    <3>0. win = {} /\ closed = 0 /\ Rest.step = "idle"
      BY <1>0, <2>7 DEF Coming, MainTypes, Rest
    <3>1. ASSUME UNCHANGED <<list, refresh, store>>, call'[Main] = call[Main] PROVE OverviewInv'
      BY <2>3, <2>4, <2>7, <3>1 DEF OverviewInv
    <3>2. ASSUME NEW o \in Opener, OpenStep(o) PROVE OverviewInv'
      BY <3>1, <3>2, OpenFrame DEF IInv, mainVars, storeVars
    <3>3. ASSUME NEW l \in Label, Close(l) \/ OnDestroyed(l) PROVE OverviewInv'
      BY <1>0, <3>1, <3>3 DEF Close, OnDestroyed, mainVars, storeVars
    <3>4. ASSUME NEW l \in Label, EditorStep(l) PROVE OverviewInv'
      BY <1>0, <3>1, <3>4, EditorFrame DEF IInv, mainVars, storeVars
    <3>5. ASSUME NEW c \in Client, Accept(c) \/ Refute(c) \/ Fail(c) PROVE OverviewInv'
      <4>1. c = Main
        BY <1>0, <2>3, <3>0, <3>5, AnswerFrame DEF IInv, Client
      <4>2. call[Main] # None /\ call[Main] \notin Reply /\ UNCHANGED <<list, refresh>> /\ refresh = Rest
        BY <1>0, <2>3, <3>5, <4>1, AnswerFrame, RecordTypes DEF IInv, mainVars
      <4>3. CASE Accept(Main)
        <5>. call'[Main] = [type |-> "done", id |-> call[Main].id, state |-> store']
          BY <1>0, <4>3 DEF Accept, Answered, RequestTypes
        <5>1. call'[Main].state = store' /\ call'[Main] \in Reply
          BY <1>0, <4>3, AcceptReply DEF IInv
        <5>. QED
          BY <2>4, <3>0, <4>2, <5>1 DEF OverviewInv
      <4>4. CASE Refute(Main)
        <5>. call'[Main] = [type |-> "conflict", id |-> call[Main].id, state |-> store] /\ store' = store
          BY <1>0, <4>4 DEF Refute, Answered, RequestTypes, storeVars
        <5>1. call'[Main].state = store'
          OBVIOUS
        <5>. QED
          BY <2>3, <2>4, <2>7, <3>0, <4>2, <5>1 DEF OverviewInv
      <4>5. CASE Fail(Main)
        <5>. call'[Main] = None /\ store' = store
          BY <1>0, <4>5 DEF Fail, Answered, RequestTypes, storeVars
        <5>. QED
          BY <1>0, <2>3, <2>4, <2>7, <3>0, <4>2 DEF OverviewInv
      <4>. QED
        BY <3>5, <4>1, <4>3, <4>4, <4>5
    <3>6. ASSUME NEW x \in Workflow, SaveListed(x) \/ DeleteListed(x) \/ Duplicate(x) PROVE OverviewInv'
      <4>0. list[x] \in Version \cup {None}
        BY <1>0 DEF MainTypes, Stock
      <4>1. call[Main] = None /\ UNCHANGED <<list, refresh, store>>
        BY <3>6 DEF SaveListed, DeleteListed, Duplicate, Ask, mainVars, storeVars
      <4>2. /\ \A base \in Version \cup {None}, id \in Workflow :
                Saving(id, base, FALSE) \in Request
                  /\ [Saving(id, base, FALSE) EXCEPT !.type = "delete"] \in Request
            /\ None \in Version \cup {None}
        BY <1>0, Asked
      <4>3. call'[Main] \in Request
        <5>1. CASE SaveListed(x)
          BY <1>0, <4>0, <4>2, <5>1 DEF SaveListed, Ask, RequestTypes
        <5>2. CASE DeleteListed(x)
          BY <1>0, <4>0, <4>2, <5>2 DEF DeleteListed, Ask, RequestTypes
        <5>3. CASE Duplicate(x)
          <6>. PICK id \in Workflow : Ask(Main, Saving(id, None, FALSE))
            BY <5>3 DEF Duplicate
          <6>. QED
            BY <1>0, <4>2 DEF Ask, RequestTypes
        <5>. QED
          BY <3>6, <5>1, <5>2, <5>3
      <4>. QED
        BY <1>0, <2>3, <2>4, <2>7, <3>0, <4>1, <4>3, RecordTypes DEF OverviewInv
    <3>7. ASSUME MainReply PROVE OverviewInv'
      <4>1. call'[Main] = None /\ list' = call[Main].state /\ call[Main] \in Reply /\ UNCHANGED <<refresh, store>>
        BY <1>0, <3>7 DEF MainReply, RequestTypes, storeVars
      <4>. QED
        BY <1>0, <2>3, <2>4, <2>7, <3>0, <4>1 DEF OverviewInv
    <3>8. ASSUME RefreshRead PROVE OverviewInv'
      <4>1. UNCHANGED <<list, call, store>> /\ refresh'.step = "read" /\ refresh'.state = store'
        BY <1>0, <3>8 DEF RefreshRead, MainTypes, storeVars
      <4>2. call'[Main] = None
        BY <2>4, <4>1 DEF Rest
      <4>. QED
        BY <1>0, <2>4, <4>1, <4>2 DEF OverviewInv
    <3>9. ASSUME RefreshApply PROVE OverviewInv'
      <4>1. UNCHANGED <<call, store>> /\ call[Main] = None
        BY <2>3, <3>0, <3>9 DEF RefreshApply, storeVars
      <4>2. CASE refresh.again
        <5>. refresh'.step = "asked" /\ list' = list
          BY <3>9, <4>2 DEF RefreshApply, Rest
        <5>. QED
          BY <1>0, <2>4, <4>1 DEF OverviewInv
      <4>3. CASE ~refresh.again
        <5>. refresh' = Rest /\ list' = refresh.state /\ refresh.step = "read"
          BY <3>9, <4>3 DEF RefreshApply
        <5>. QED
          BY <1>0, <2>3, <2>4, <2>7, <3>0, <4>1, <4>3 DEF OverviewInv
      <4>. QED
        BY <4>2, <4>3
    <3>10. ~HandleClosed /\ ~Corrupt
      BY <3>0 DEF HandleClosed, Corrupt
    <3>11. ASSUME MainStep PROVE OverviewInv'
      BY <3>6, <3>7, <3>8, <3>9, <3>10, <3>11 DEF MainStep
    <3>12. OverviewInv'
      BY <2>1, <3>2, <3>3, <3>4, <3>5, <3>10, <3>11, StepSplit
    <3>. QED
      BY <3>12 DEF OverviewInv
  <2>. QED
    BY <2>5, <2>6, <2>7
<1>. QED
  BY <1>1, <1>2

LEMMA Invariant == Spec => [](IInv /\ OverviewInv)
<1>1. IInv /\ OverviewInv /\ [Next]_vars => (IInv /\ OverviewInv)'
  BY InvariantStep, OverviewStep DEF IInv
<1>. QED
  BY Start, <1>1, PTL DEF Spec

\* Registry, windows, requests and the file have their types, in particular: an
\* editor is closed at most once for each label, and a stamp is never later than
\* the clock and the number of saves allow.
THEOREM TypeCorrect == Spec => []TypeOK
BY Invariant, PTL DEF IInv

\* No two open windows edit the same workflow, however many windows, openings,
\* saves under new ids and copies there are (EditorRegistry.mutate and
\* open_workflow_editor_window).
THEOREM OneEditorEach == Spec => []OneEditor
<1>1. IInv => OneEditor
  BY TypeParts DEF IInv, OneEditor, PageInv, UniqueInv, LabelInv, Registered, WindowTypes
<1>. QED
  BY Invariant, <1>1, PTL

\* What an open editor shows is the stored version while nothing of its own is
\* pending (check_write_owner), until a recovery from an unreadable file.
THEOREM OwnerAlwaysCurrent == Spec => []OwnerIsCurrent
<1>1. IInv => OwnerIsCurrent
  BY RecordTypes DEF IInv, OwnerIsCurrent, CurrentInv
<1>. QED
  BY Invariant, <1>1, PTL

\* When every editor is closed and nothing is pending the main window shows the
\* stored workflows, however many editors close and in whatever order
\* (refreshAfterEditorClosed).
THEOREM OverviewCatchesUp == Spec => []OverviewCurrent
<1>1. IInv /\ OverviewInv => OverviewCurrent
  BY RecordTypes DEF OverviewInv, OverviewCurrent, Coming, Rest, Client
<1>. QED
  BY Invariant, <1>1, PTL

-----------------------------------------------------------------------------
(* What is replaced has been seen.                                         *)
(*                                                                         *)
(* A request carries only the stamp of the version it is based on, so the  *)
(* versions of a workflow that anybody may still refer to must differ in   *)
(* their stamps.  Saves over a stored version move on from its stamp.      *)
(* What is stored when nothing is, is a first save, under an id that only  *)
(* its window knows, or one that is forced, on a workflow that went with   *)
(* the unreadable file: then its stamp is later than all before, and its   *)
(* window must be the only one that has the workflow at all.               *)

\* Somebody has read version v of workflow x, or is about to show it.
Held(x, v) ==
  \/ list[x] = v
  \/ refresh.step = "read" /\ refresh.state[x] = v
  \/ \E c \in Client :
       \/ call[c] \in Reply /\ call[c].state[x] = v
       \/ call[c] \in Request /\ call[c].id = x /\ call[c].base = v
  \/ \E l \in Label : page[l].id = x /\ page[l].base = v

Editing(l) == page[l].state \in {"ready", "conflict"}
Saved(c)   == call[c] \in Reply /\ call[c].type = "done"
First(c)   == call[c] \in Request /\ ~call[c].force /\ call[c].base = None
Forced(c)  == call[c] \in Request /\ call[c].force

\* A workflow nobody has seen yet, and one that went with the unreadable file.
Unheard(x) == store[x] = None /\ \A v \in Version : ~Held(x, v)
Lost(x) ==
  recovered /\ store[x] = None /\ \A v \in Version : Held(x, v) => v.at < MaxWrites + 2

\* What is read afterwards can be told from what was read before.
VersionInv ==
  \A x \in Workflow, v \in Version : Held(x, v) /\ store[x] # None =>
    v.at <= store[x].at /\ (v.at = store[x].at => v = store[x])
ClockInv ==
  /\ clock = IF recovered THEN MaxWrites + 2 ELSE 1
  /\ \A c \in Client : call[c] \in Request => call[c].at \in {1, clock}
OldInv ==
  ~recovered => \A x \in Workflow :
    /\ \A v \in Version : Held(x, v) => v.at <= writes + 1
    /\ store[x] # None => store[x].at <= writes + 1

\* An editor of a stored workflow saves it over the version it has.
EditorInv ==
  /\ \A l \in Label :
       /\ call[l] \in Request => call[l].type = "save"
       /\ Saved(l) => call[l].state[call[l].id] # None
       /\ Editing(l) /\ page[l].id # NoId => page[l].base # None
  /\ \A l \in win : call[l] \in Request /\ ~call[l].force => call[l].base = page[l].base

\* Nobody else knows of a workflow before its first save is accepted.
TakenInv ==
  /\ \A o \in Opener : op[o].id # NoId => op[o].id \in taken
  /\ \A x \in Workflow \ taken :
       /\ Unheard(x)
       /\ \A c \in Client : call[c] # None => call[c].id # x
       /\ \A l \in Label : page[l].id # x
FirstInv ==
  \A c \in Client : First(c) =>
    /\ Unheard(call[c].id)
    /\ \A d \in Client \ {c} : call[d] # None => call[d].id # call[c].id
    /\ \A l \in Label : Editing(l) => page[l].id # call[c].id

\* Who insists does so alone, on a workflow that is lost.
Interested(c, x) ==
  \/ Forced(c) /\ call[c].id = x
  \/ /\ c \in Label
     /\ \/ Editing(c) /\ page[c].id = x
        \/ Saved(c) /\ call[c].id = x /\ page[c].state # "none"
ForceInv ==
  \A c \in Client : Forced(c) =>
    /\ Lost(call[c].id) /\ call[c].at = MaxWrites + 2
    /\ \A d \in Client \ {c} : ~Interested(d, call[c].id)
OwnOk(l, x) ==
  /\ Saved(l) /\ call[l].id = x => store[x] = call[l].state[x] \/ Lost(x)
  /\ Editing(l) /\ page[l].id = x /\ ~Saved(l) => store[x] = page[l].base \/ Lost(x)
  /\ (page[l].state = "conflict" \/ (call[l] \in Reply /\ ~Saved(l))) /\ page[l].id = x => Lost(x)
OwnInv == recovered => \A l \in win, x \in Workflow : OwnOk(l, x)

SeenInv ==
  VersionInv /\ ClockInv /\ OldInv /\ EditorInv /\ TakenInv /\ FirstInv /\ ForceInv /\ OwnInv

LEMMA SeenTypes ==
  ASSUME IInv
  PROVE  /\ WindowTypes /\ StoreTypes /\ RequestTypes /\ MainTypes
         /\ \A x \in Workflow : store[x] \in Version \cup {None} /\ list[x] \in Version \cup {None}
         /\ \A l \in Label : /\ page[l] \in Pages /\ page[l].id \in Workflow \cup {NoId}
                             /\ page[l].base \in Version \cup {None} /\ page[l].state \in PageState
                             /\ l \in Client
         /\ \A c \in Client : call[c] \in Request \cup Reply \cup {None}
         /\ None \notin Version /\ None \notin Request \cup Reply /\ Request \cap Reply = {}
BY TypeParts, RecordTypes
   DEF IInv, StoreTypes, MainTypes, RequestTypes, Stock, Pages, PageState, Id

\* A window asks for a workflow that is not known yet, over the version it has,
\* or insisting.
LEMMA EditorAsks ==
  ASSUME IInv, EditorInv, NEW l \in Label, EditorStep(l), call'[l] \in Request, call'[l] # call[l]
  PROVE  LET q == call'[l] IN
         /\ call[l] = None /\ q.at = clock /\ l \in win
         /\ q.type = "save" /\ (~q.force => q.base = page'[l].base)
         /\ page'[l].id \in {page[l].id, NoId} /\ Editing(l) /\ page'[l].state = "ready"
         /\ \/ ~q.force /\ q.base = None /\ q.id \in Workflow \ taken /\ q.id \in taken'
            \/ ~q.force /\ q.base # None /\ q.id \in Workflow /\ q.id = page[l].id /\ q.base = page[l].base
            \/ /\ q.force /\ q.base = None /\ q.id \in Workflow /\ q.id = page[l].id
               /\ page[l].state = "conflict"
<1>0. /\ WindowTypes /\ RequestTypes /\ StoreTypes /\ page[l] \in Pages /\ l \in Client
      /\ page[l].base \in Version \cup {None} /\ page[l].id \in Workflow \cup {NoId}
      /\ None \notin Request \cup Reply /\ NoId \notin Workflow
  BY SeenTypes, RecordTypes
<1>1. page[l].state # "none" => l \in win /\ PageOk(l)
  BY EachPage DEF IInv, LabelInv
<1>2. CASE Save(l)
  <2>1. PICK id \in Workflow : /\ Named(page[l].id, id) /\ taken' = taken \cup {id}
                               /\ Ask(l, Saving(id, page[l].base, FALSE))
    BY <1>2 DEF Save
  <2>2. /\ call'[l] = Saving(id, page[l].base, FALSE) /\ page' = page /\ call[l] = None
        /\ page[l].state = "ready"
    BY <1>0, <1>2, <2>1 DEF Save, Ask, RequestTypes
  <2>3. /\ call'[l].id = id /\ call'[l].base = page[l].base /\ call'[l].force = FALSE
        /\ call'[l].at = clock /\ call'[l].type = "save"
    BY <2>2 DEF Saving
  <2>4. CASE page[l].id = NoId
    <3>. page[l].base = None /\ id \notin taken
      BY <1>1, <2>1, <2>2, <2>4 DEF PageOk, Named
    <3>. QED
      BY <1>1, <2>1, <2>2, <2>3 DEF Editing
  <2>5. CASE page[l].id # NoId
    <3>. page[l].base # None /\ id = page[l].id
      BY <1>0, <2>1, <2>2, <2>5 DEF EditorInv, Editing, Named
    <3>. QED
      BY <1>1, <2>1, <2>2, <2>3 DEF Editing
  <2>. QED
    BY <2>4, <2>5
<1>3. CASE SaveCopy(l)
  <2>1. PICK id \in Workflow \ taken : taken' = taken \cup {id} /\ Ask(l, Saving(id, None, FALSE))
    BY <1>3 DEF SaveCopy
  <2>2. /\ call'[l] = Saving(id, None, FALSE) /\ call[l] = None /\ page[l].state = "conflict"
        /\ page'[l] = [page[l] EXCEPT !.state = "ready", !.id = NoId, !.base = None]
    BY <1>0, <1>3, <2>1 DEF SaveCopy, Ask, Show, RequestTypes
  <2>3. /\ call'[l].id = id /\ call'[l].base = None /\ call'[l].force = FALSE
        /\ call'[l].at = clock /\ call'[l].type = "save"
        /\ page'[l].state = "ready" /\ page'[l].id = NoId /\ page'[l].base = None
    BY <1>0, <2>2 DEF Saving, Pages
  <2>. QED
    BY <1>1, <2>1, <2>2, <2>3 DEF Editing
<1>4. CASE Overwrite(l)
  <2>1. /\ call'[l] = Saving(page[l].id, None, TRUE) /\ call[l] = None /\ page[l].state = "conflict"
        /\ page'[l] = [page[l] EXCEPT !.state = "ready"]
    BY <1>0, <1>4 DEF Overwrite, Ask, Show, RequestTypes
  <2>2. /\ call'[l].id = page[l].id /\ call'[l].base = None /\ call'[l].force = TRUE
        /\ call'[l].at = clock /\ call'[l].type = "save"
        /\ page'[l].state = "ready" /\ page'[l].id = page[l].id
    BY <1>0, <2>1 DEF Saving, Pages
  <2>3. page[l].id \in Workflow
    BY <1>0, <1>1, <2>1 DEF PageOk
  <2>. QED
    BY <1>1, <2>1, <2>2, <2>3 DEF Editing
<1>5. CASE Load(l) \/ ReloadLatest(l)
  BY <1>5 DEF Load, ReloadLatest
<1>6. CASE EditorReply(l)
  BY <1>0, <1>6 DEF EditorReply, RequestTypes
<1>. QED
  BY <1>2, <1>3, <1>4, <1>5, <1>6 DEF EditorStep

\* So does the main window, but for insisting.
LEMMA MainAsks ==
  ASSUME IInv, MainStep, call'[Main] \in Request, call'[Main] # call[Main]
  PROVE  LET q == call'[Main] IN
         /\ call[Main] = None /\ q.at = clock /\ UNCHANGED <<list, refresh>> /\ ~q.force
         /\ \/ q.base = None /\ q.id \in Workflow \ taken /\ q.id \in taken'
            \/ q.base # None /\ q.id \in Workflow /\ list[q.id] = q.base
<1>0. RequestTypes /\ Main \in Client /\ None \notin Request \cup Reply
  BY SeenTypes, RecordTypes
<1>1. ASSUME NEW x \in Workflow, SaveListed(x) \/ DeleteListed(x)
      PROVE  LET q == call'[Main] IN
             /\ call[Main] = None /\ q.at = clock /\ UNCHANGED <<list, refresh>> /\ ~q.force
             /\ q.base # None /\ q.id \in Workflow /\ list[q.id] = q.base
  BY <1>0, <1>1 DEF SaveListed, DeleteListed, Ask, Saving, RequestTypes, mainVars
<1>2. ASSUME NEW x \in Workflow, Duplicate(x)
      PROVE  LET q == call'[Main] IN
             /\ call[Main] = None /\ q.at = clock /\ UNCHANGED <<list, refresh>> /\ ~q.force
             /\ q.base = None /\ q.id \in Workflow \ taken /\ q.id \in taken'
  BY <1>0, <1>2 DEF Duplicate, Ask, Saving, RequestTypes, mainVars
<1>3. CASE MainReply
  BY <1>0, <1>3 DEF MainReply, RequestTypes
<1>4. CASE HandleClosed \/ RefreshRead \/ RefreshApply
  BY <1>4 DEF HandleClosed, RefreshRead, RefreshApply
<1>. QED
  BY <1>1, <1>2, <1>3, <1>4 DEF MainStep

\* What the answer to a request is.
LEMMA Replies ==
  ASSUME IInv, NEW c \in Client, Accept(c) \/ Refute(c) \/ Fail(c)
  PROVE  /\ call[c] \in Request
         /\ Accept(c) => /\ call'[c] \in Reply /\ call'[c].type = "done"
                         /\ call'[c].id = call[c].id /\ call'[c].state = store'
         /\ Refute(c) => /\ call'[c] \in Reply /\ call'[c].type = "conflict"
                         /\ call'[c].id = call[c].id /\ call'[c].state = store /\ UNCHANGED storeVars
         /\ Fail(c) => call'[c] = None /\ UNCHANGED storeVars
<1>0. RequestTypes /\ StoreTypes /\ TypeOK /\ StampInv
  BY SeenTypes DEF IInv
<1>1. ASSUME Accept(c)
      PROVE  /\ call'[c] \in Reply /\ call'[c].type = "done"
             /\ call'[c].id = call[c].id /\ call'[c].state = store'
  <2>1. call'[c] = [type |-> "done", id |-> call[c].id, state |-> store']
    BY <1>0, <1>1 DEF Accept, Answered, RequestTypes
  <2>2. call'[c] \in Reply
    BY <1>0, <1>1, <2>1, AcceptReply
  <2>. QED
    BY <2>1, <2>2
<1>2. ASSUME Refute(c)
      PROVE  /\ call'[c] \in Reply /\ call'[c].type = "conflict"
             /\ call'[c].id = call[c].id /\ call'[c].state = store /\ UNCHANGED storeVars
  <2>1. /\ call'[c] = [type |-> "conflict", id |-> call[c].id, state |-> store] /\ call[c] \in Request
        /\ UNCHANGED storeVars
    BY <1>0, <1>2 DEF Refute, Answered, RequestTypes
  <2>2. call'[c] \in Reply
    BY <1>0, <2>1, RecordTypes DEF StoreTypes, Reply
  <2>. QED
    BY <2>1, <2>2
<1>3. ASSUME Fail(c) PROVE call'[c] = None /\ UNCHANGED storeVars
  BY <1>0, <1>3 DEF Fail, Answered, RequestTypes
<1>. QED
  BY <1>1, <1>2, <1>3 DEF Accept, Refute, Fail

\* A request appears because its client asks.
LEMMA Asking ==
  ASSUME IInv, EditorInv, [Next]_vars, NEW c \in Client, call'[c] \in Request, call'[c] # call[c]
  PROVE  LET q == call'[c] IN
         /\ call[c] = None /\ q.at = clock /\ UNCHANGED <<list, refresh, storeVars>>
         /\ \A d \in Client \ {c} : call'[d] = call[d]
         /\ \A l \in Label \ {c} : page'[l] = page[l]
         /\ c \in Label =>
              /\ c \in win /\ Editing(c) /\ q.type = "save" /\ (~q.force => q.base = page'[c].base)
              /\ page'[c].id \in {page[c].id, NoId}
         /\ q.id \in Workflow
         /\ \/ ~q.force /\ q.base = None /\ q.id \notin taken /\ q.id \in taken'
            \/ ~q.force /\ q.base \in Version /\ Held(q.id, q.base)
            \/ q.force /\ q.base = None /\ c \in Label /\ page[c].state = "conflict" /\ q.id = page[c].id
<1>0. /\ TypeOK /\ GateInv /\ LabelInv /\ RequestTypes /\ None \notin Request \cup Reply
      /\ Request \cap Reply = {} /\ Main \notin Label /\ Client = Label \cup {Main}
  BY SeenTypes, RecordTypes DEF IInv, Client
<1>1. ASSUME NEW o \in Opener, OpenStep(o) PROVE FALSE
  BY <1>0, <1>1, OpenFrame
<1>2. ASSUME NEW l \in Label, Close(l) \/ OnDestroyed(l) PROVE FALSE
  BY <1>0, <1>2, CloseFrame
<1>3. ASSUME NEW d \in Client, Accept(d) \/ Refute(d) \/ Fail(d) PROVE FALSE
  BY <1>0, <1>3, AnswerFrame, Replies
<1>4. CASE Corrupt \/ UNCHANGED vars
  BY <1>4 DEF Corrupt, vars
<1>5. ASSUME NEW l \in Label, EditorStep(l)
      PROVE  c = l /\ UNCHANGED <<list, refresh, storeVars>>
             /\ (\A d \in Client \ {c} : call'[d] = call[d]) /\ (\A m \in Label \ {c} : page'[m] = page[m])
  BY <1>0, <1>5, EditorFrame DEF mainVars
<1>6. CASE \E l \in Label : EditorStep(l)
  <2>. EditorStep(c) /\ c \in Label
    BY <1>5, <1>6
  <2>1. \A x, v : (page[c].id = x /\ page[c].base = v) => Held(x, v)
    BY DEF Held
  <2>2. page[c].base \in Version \cup {None}
    BY SeenTypes
  <2>. QED
    BY <1>5, <1>6, <2>1, <2>2, EditorAsks
<1>7. CASE MainStep
  <2>1. c = Main /\ page' = page
    BY <1>0, <1>7, MainFrame
  <2>2. \A l \in Label : call'[l] = call[l]
    BY <1>0, <1>7, MainFrame
  <2>3. UNCHANGED storeVars
    BY <1>7 DEF MainStep, SaveListed, DeleteListed, Duplicate, MainReply, HandleClosed, RefreshRead, RefreshApply
  <2>4. \A x, v : list[x] = v => Held(x, v)
    BY DEF Held
  <2>5. \A x \in Workflow : list[x] \in Version \cup {None}
    BY SeenTypes
  <2>. QED
    BY <1>0, <1>7, <2>1, <2>2, <2>3, <2>4, <2>5, MainAsks
<1>. QED
  BY <1>1, <1>2, <1>3, <1>4, <1>6, <1>7, StepSplit DEF Next

\* A reply appears because a request is answered.
LEMMA Answering ==
  ASSUME IInv, [Next]_vars, NEW c \in Client, call'[c] \in Reply, call'[c] # call[c]
  PROVE  /\ call[c] \in Request /\ call'[c].id = call[c].id /\ call'[c].state = store'
         /\ page' = page /\ (IF call'[c].type = "done" THEN Accept(c) ELSE Refute(c))
<1>0. /\ TypeOK /\ GateInv /\ LabelInv /\ RequestTypes /\ None \notin Request \cup Reply
      /\ Request \cap Reply = {} /\ Main \notin Label /\ Client = Label \cup {Main}
  BY SeenTypes, RecordTypes DEF IInv, Client
<1>1. ASSUME NEW d \in Client, Accept(d) \/ Refute(d) \/ Fail(d)
      PROVE  /\ call[c] \in Request /\ call'[c].id = call[c].id /\ call'[c].state = store'
             /\ page' = page /\ (IF call'[c].type = "done" THEN Accept(c) ELSE Refute(c))
  <2>1. d = c /\ page' = page
    BY <1>0, <1>1, AnswerFrame
  <2>. QED
    BY <1>0, <1>1, <2>1, Replies DEF storeVars
<1>2. ASSUME NEW o \in Opener, OpenStep(o) PROVE FALSE
  BY <1>0, <1>2, OpenFrame
<1>3. ASSUME NEW l \in Label, Close(l) \/ OnDestroyed(l) PROVE FALSE
  BY <1>0, <1>3, CloseFrame
<1>4. CASE Corrupt \/ UNCHANGED vars
  BY <1>4 DEF Corrupt, vars
<1>5. ASSUME NEW l \in Label, EditorStep(l) PROVE FALSE
  <2>1. c = l
    BY <1>0, <1>5, EditorFrame
  <2>2. page[l].id \in Workflow \cup {NoId} /\ page[l].base \in Version \cup {None} /\ StoreTypes
    BY SeenTypes
  <2>3. CASE Save(l)
    <3>. call'[l] \in Request
      BY <1>0, <2>2, <2>3, Asked DEF Save, Ask, RequestTypes
    <3>. QED
      BY <1>0, <2>1
  <2>4. CASE SaveCopy(l)
    <3>. call'[l] \in Request
      BY <1>0, <2>2, <2>4, Asked DEF SaveCopy, Ask, RequestTypes
    <3>. QED
      BY <1>0, <2>1
  <2>5. CASE Overwrite(l)
    <3>1. page[l].id # NoId
      BY <1>0, <2>5, EachPage DEF Overwrite, IInv, LabelInv, PageOk
    <3>. call'[l] \in Request
      BY <1>0, <2>2, <2>5, <3>1, Asked DEF Overwrite, Ask, RequestTypes
    <3>. QED
      BY <1>0, <2>1
  <2>6. CASE Load(l) \/ ReloadLatest(l)
    BY <2>6 DEF Load, ReloadLatest
  <2>7. CASE EditorReply(l)
    BY <1>0, <2>1, <2>7 DEF EditorReply, RequestTypes
  <2>. QED
    BY <1>5, <2>3, <2>4, <2>5, <2>6, <2>7 DEF EditorStep
<1>6. CASE MainStep
  <2>1. c = Main
    BY <1>0, <1>6, MainFrame
  <2>2. ASSUME NEW x \in Workflow, SaveListed(x) \/ DeleteListed(x) \/ Duplicate(x) PROVE FALSE
    <3>1. call'[Main] \in Request
      <4>1. list[x] \in Version \cup {None} /\ StoreTypes /\ Main \in Client
        BY SeenTypes, RecordTypes
      <4>2. /\ \A base \in Version \cup {None}, id \in Workflow :
                 Saving(id, base, FALSE) \in Request
                   /\ [Saving(id, base, FALSE) EXCEPT !.type = "delete"] \in Request
            /\ None \in Version \cup {None}
        BY <1>0, <4>1, Asked
      <4>3. CASE SaveListed(x)
        BY <1>0, <4>1, <4>2, <4>3 DEF SaveListed, Ask, RequestTypes
      <4>4. CASE DeleteListed(x)
        BY <1>0, <4>1, <4>2, <4>4 DEF DeleteListed, Ask, RequestTypes
      <4>5. CASE Duplicate(x)
        <5>. PICK id \in Workflow : Ask(Main, Saving(id, None, FALSE))
          BY <4>5 DEF Duplicate
        <5>. QED
          BY <1>0, <4>1, <4>2 DEF Ask, RequestTypes
      <4>. QED
        BY <2>2, <4>3, <4>4, <4>5
    <3>. QED
      BY <1>0, <2>1, <3>1
  <2>3. CASE MainReply
    BY <1>0, <2>1, <2>3 DEF MainReply, RequestTypes
  <2>4. CASE HandleClosed \/ RefreshRead \/ RefreshApply
    BY <2>4 DEF HandleClosed, RefreshRead, RefreshApply
  <2>. QED
    BY <1>6, <2>2, <2>3, <2>4 DEF MainStep
<1>. QED
  BY <1>1, <1>2, <1>3, <1>4, <1>5, <1>6, StepSplit DEF Next

\* What an editor does to its page.
Loads(l) ==
  /\ page[l].state = "loading" /\ call[l] = None /\ call'[l] = None
  /\ page'[l].state \in {"ready", "blocked"} /\ page'[l].id = page[l].id
  /\ page'[l].base = IF page[l].id = NoId THEN None ELSE store[page[l].id]
  /\ page'[l].state = "ready" /\ page[l].id # NoId => store[page[l].id] # None
Saves(l) ==
  /\ page[l].state = "ready" /\ call[l] = None /\ call'[l] \in Request /\ page'[l] = page[l]
Hears(l) ==
  /\ call[l] \in Reply /\ call'[l] = None /\ page[l].state = "ready"
  /\ IF Saved(l)
       THEN /\ page'[l].state = "ready" /\ page'[l].id = call[l].id
            /\ page'[l].base = call[l].state[call[l].id]
       ELSE page'[l].state = "conflict" /\ page'[l].id = page[l].id /\ page'[l].base = page[l].base
Chooses(l) ==
  /\ page[l].state = "conflict" /\ page'[l].state = "ready" /\ call[l] = None /\ call'[l] \notin Reply
  /\ \/ page'[l].id = NoId /\ page'[l].base = None
     \/ /\ page'[l].id = page[l].id
        /\ page'[l].base = page[l].base \/ (page'[l].base = store[page[l].id] /\ page'[l].base # None)

LEMMA EditorShows ==
  ASSUME IInv, NEW l \in win, EditorStep(l)
  PROVE  Loads(l) \/ Saves(l) \/ Hears(l) \/ Chooses(l)
<1>0. /\ WindowTypes /\ RequestTypes /\ StoreTypes /\ l \in Label /\ l \in Client /\ page[l] \in Pages
      /\ page[l].base \in Version \cup {None} /\ page[l].id \in Workflow \cup {NoId}
      /\ page[l].state \in PageState /\ page[l].state # "none" /\ PageOk(l)
      /\ None \notin Request \cup Reply /\ Request \cap Reply = {}
  BY SeenTypes, EachPage DEF IInv, LabelInv, WindowTypes
<1>1. CASE Load(l)
  <2>1. page'[l] = [page[l] EXCEPT
             !.state = IF page[l].id # NoId /\ store[page[l].id] = None THEN "blocked" ELSE "ready",
             !.base = IF page[l].id = NoId THEN None ELSE store[page[l].id]]
    BY <1>0, <1>1 DEF Load, Show, RequestTypes
  <2>2. /\ page'[l].state = IF page[l].id # NoId /\ store[page[l].id] = None THEN "blocked" ELSE "ready"
        /\ page'[l].id = page[l].id
        /\ page'[l].base = IF page[l].id = NoId THEN None ELSE store[page[l].id]
    BY <1>0, <2>1 DEF Pages
  <2>. QED
    BY <1>0, <1>1, <2>2 DEF Load, Loads, PageOk
<1>2. CASE Save(l)
  <2>1. PICK id \in Workflow : Ask(l, Saving(id, page[l].base, FALSE))
    BY <1>2 DEF Save
  <2>. call[l] = None /\ call'[l] \in Request
    BY <1>0, <2>1, Asked DEF Ask, RequestTypes
  <2>. QED
    BY <1>2 DEF Save, Saves
<1>3. CASE EditorReply(l)
  <2>1. call[l] \in Reply /\ call'[l] = None /\ page[l].state = "ready"
    BY <1>0, <1>3 DEF EditorReply, RequestTypes, PageOk, PageState
  <2>2. CASE Saved(l)
    <3>1. page'[l] = [page[l] EXCEPT !.id = call[l].id, !.base = call[l].state[call[l].id]]
      BY <1>0, <1>3, <2>2 DEF EditorReply, Show, RequestTypes, Saved
    <3>2. /\ page'[l].state = page[l].state /\ page'[l].id = call[l].id
          /\ page'[l].base = call[l].state[call[l].id]
      BY <1>0, <3>1 DEF Pages
    <3>. QED
      BY <2>1, <2>2, <3>2 DEF Hears
  <2>3. CASE ~Saved(l)
    <3>0. call[l].type = "conflict"
      BY <2>1, <2>3, RecordTypes DEF Saved
    <3>1. page'[l] = [page[l] EXCEPT !.state = "conflict"]
      BY <1>0, <1>3, <3>0 DEF EditorReply, Show, RequestTypes
    <3>2. page'[l].state = "conflict" /\ page'[l].id = page[l].id /\ page'[l].base = page[l].base
      BY <1>0, <3>1 DEF Pages
    <3>. QED
      BY <2>1, <2>3, <3>2 DEF Hears
  <2>. QED
    BY <2>2, <2>3
<1>4. CASE Overwrite(l)
  <2>1. /\ call'[l] = Saving(page[l].id, None, TRUE) /\ call[l] = None /\ page[l].state = "conflict"
        /\ page'[l] = [page[l] EXCEPT !.state = "ready"]
    BY <1>0, <1>4 DEF Overwrite, Ask, Show, RequestTypes
  <2>2. /\ page'[l].state = "ready" /\ page'[l].id = page[l].id /\ page'[l].base = page[l].base
        /\ page[l].id \in Workflow
    BY <1>0, <2>1 DEF Pages, PageOk
  <2>3. call'[l] \in Request
    <3>1. None \in Version \cup {None} /\ TRUE \in BOOLEAN
      OBVIOUS
    <3>2. Saving(page[l].id, None, TRUE) \in Request
      BY <1>0, <2>2, <3>1, Asked
    <3>. QED
      BY <2>1, <3>2
  <2>. QED
    BY <1>0, <2>1, <2>2, <2>3 DEF Chooses
<1>5. CASE SaveCopy(l)
  <2>1. PICK id \in Workflow \ taken : Ask(l, Saving(id, None, FALSE))
    BY <1>5 DEF SaveCopy
  <2>2. /\ call'[l] \in Request /\ call[l] = None /\ page[l].state = "conflict"
        /\ page'[l] = [page[l] EXCEPT !.state = "ready", !.id = NoId, !.base = None]
    BY <1>0, <1>5, <2>1, Asked DEF SaveCopy, Ask, Show, RequestTypes
  <2>3. page'[l].state = "ready" /\ page'[l].id = NoId /\ page'[l].base = None
    BY <1>0, <2>2 DEF Pages
  <2>. QED
    BY <1>0, <2>2, <2>3 DEF Chooses
<1>6. CASE ReloadLatest(l)
  <2>1. /\ page[l].state = "conflict" /\ call[l] = None /\ call' = call
        /\ page'[l] = [page[l] EXCEPT !.state = "ready",
             !.base = IF store[page[l].id] = None THEN page[l].base ELSE store[page[l].id]]
    BY <1>0, <1>6 DEF ReloadLatest, Show, RequestTypes
  <2>2. /\ page'[l].state = "ready" /\ page'[l].id = page[l].id
        /\ page'[l].base = IF store[page[l].id] = None THEN page[l].base ELSE store[page[l].id]
    BY <1>0, <2>1 DEF Pages
  <2>. QED
    BY <1>0, <2>1, <2>2 DEF Chooses
<1>. QED
  BY <1>1, <1>2, <1>3, <1>4, <1>5, <1>6 DEF EditorStep

\* A page changes because its window opens or closes, or its editor acts.
LEMMA Showing ==
  ASSUME IInv, [Next]_vars, NEW l \in Label, page'[l] # page[l]
  PROVE  \/ /\ page'[l].state \in {"none", "loading"} /\ page'[l].base = None
            /\ page'[l].id = NoId \/ \E o \in Opener : page'[l].id = op[o].id
         \/ /\ UNCHANGED store /\ l \in win /\ EditorStep(l)
            /\ \A d \in Client \ {l} : call'[d] = call[d]
            /\ Loads(l) \/ Hears(l) \/ Chooses(l)
<1>0. /\ TypeOK /\ GateInv /\ LabelInv /\ RequestTypes /\ WindowTypes /\ None \notin Request \cup Reply
  BY SeenTypes DEF IInv
<1>1. ASSUME NEW o \in Opener, OpenStep(o)
      PROVE  /\ page'[l].state \in {"none", "loading"} /\ page'[l].base = None
             /\ page'[l].id = NoId \/ \E p \in Opener : page'[l].id = op[p].id
  <2>1. CASE Build(o)
    <3>1. page' = [page EXCEPT ![op[o].label] = [NoPage EXCEPT !.state = "loading", !.id = op[o].id]]
      BY <2>1 DEF Build
    <3>2. page'[l] = [NoPage EXCEPT !.state = "loading", !.id = op[o].id]
      BY <1>0, <3>1 DEF RequestTypes
    <3>3. page'[l].state = "loading" /\ page'[l].base = None /\ page'[l].id = op[o].id
      BY <3>2 DEF NoPage
    <3>. QED
      BY <3>3
  <2>. QED
    BY <1>1, <2>1 DEF OpenStep, Open, Reuse, ReleaseStale, ChooseLabel, Reserve, BuildFails, Return
<1>2. ASSUME NEW m \in Label, Close(m) \/ OnDestroyed(m) PROVE page'[l] = NoPage
  BY <1>0, <1>2 DEF Close, OnDestroyed, RequestTypes
<1>3. ASSUME NEW m \in Label, EditorStep(m)
      PROVE  /\ UNCHANGED store /\ l \in win /\ EditorStep(l)
             /\ \A d \in Client \ {l} : call'[d] = call[d]
             /\ Loads(l) \/ Hears(l) \/ Chooses(l)
  <2>1. m = l /\ l \in win /\ UNCHANGED store /\ \A d \in Client \ {l} : call'[d] = call[d]
    BY <1>0, <1>3, EditorFrame DEF storeVars
  <2>. QED
    BY <1>3, <2>1, EditorShows DEF Saves
<1>4. ASSUME NEW c \in Client, Accept(c) \/ Refute(c) \/ Fail(c) PROVE FALSE
  BY <1>0, <1>4, AnswerFrame
<1>5. CASE MainStep \/ Corrupt \/ UNCHANGED vars
  BY <1>0, <1>5, MainFrame DEF vars
<1>6. NoPage.state = "none" /\ NoPage.base = None /\ NoPage.id = NoId
  BY DEF NoPage
<1>. QED
  BY <1>1, <1>2, <1>3, <1>4, <1>5, <1>6, StepSplit DEF Next

LEMMA TakenGrows == [Next]_vars => taken \subseteq taken'
<1>1. ASSUME NEW o \in Opener, OpenStep(o) PROVE taken' = taken
  BY <1>1 DEF OpenStep, Open, Reuse, ReleaseStale, ChooseLabel, Reserve, Build, BuildFails, Return
<1>2. ASSUME NEW l \in Label, Close(l) \/ OnDestroyed(l) PROVE taken' = taken
  BY <1>2 DEF Close, OnDestroyed
<1>3. ASSUME NEW l \in Label, EditorStep(l) PROVE taken \subseteq taken'
  BY <1>3 DEF EditorStep, Load, Save, EditorReply, Overwrite, SaveCopy, ReloadLatest
<1>4. ASSUME NEW c \in Client, Accept(c) \/ Refute(c) \/ Fail(c) PROVE taken' = taken
  BY <1>4 DEF Accept, Refute, Fail
<1>5. CASE MainStep \/ Corrupt \/ UNCHANGED vars
  BY <1>5 DEF MainStep, SaveListed, DeleteListed, Duplicate, MainReply, HandleClosed, RefreshRead,
     RefreshApply, Corrupt, vars
<1>. QED
  BY <1>1, <1>2, <1>3, <1>4, <1>5, StepSplit DEF Next

\* The file changes by a request that is accepted, or by a recovery.  Nobody
\* saves over a workflow that is not stored but who created it or insists.
LEMMA Storing ==
  ASSUME IInv, [Next]_vars
  PROVE  \/ UNCHANGED storeVars
         \/ Corrupt
         \/ \E c \in Client : Accept(c)
<1>1. ASSUME NEW o \in Opener, OpenStep(o) PROVE UNCHANGED storeVars
  BY <1>1, OpenFrame DEF IInv
<1>2. ASSUME NEW l \in Label, Close(l) \/ OnDestroyed(l) PROVE UNCHANGED storeVars
  BY <1>2 DEF Close, OnDestroyed
<1>3. ASSUME NEW l \in Label, EditorStep(l) PROVE UNCHANGED storeVars
  BY <1>3, EditorFrame DEF IInv
<1>4. ASSUME NEW c \in Client, Refute(c) \/ Fail(c) PROVE UNCHANGED storeVars
  BY <1>4 DEF Refute, Fail
<1>5. CASE MainStep \/ UNCHANGED vars
  BY <1>5 DEF MainStep, SaveListed, DeleteListed, Duplicate, MainReply, HandleClosed, RefreshRead,
     RefreshApply, vars
<1>. QED
  BY <1>1, <1>2, <1>3, <1>4, <1>5, StepSplit DEF Next

LEMMA Accepting ==
  ASSUME IInv, NEW c \in Client, Accept(c)
  PROVE  LET x == call[c].id IN
         /\ call[c] \in Request /\ x \in Workflow /\ UNCHANGED <<clock, recovered, page, taken>>
         /\ \A y \in Workflow \ {x} : store'[y] = store[y]
         /\ writes' = writes + 1 /\ writes < MaxWrites /\ store'[x] \in Version \cup {None}
         /\ call[c].type = "save" <=> store'[x] # None
         /\ store'[x] # None =>
              /\ At(store[x]) < store'[x].at /\ call[c].at <= store'[x].at
              /\ store'[x].at \in {call[c].at, At(store[x]) + 1}
         /\ First(c) \/ Forced(c)
              \/ (call[c].base \in Version /\ store[x] # None /\ call[c].base.at = store[x].at)
<1>. DEFINE q == call[c]  x == q.id
<1>0. /\ StoreTypes /\ TypeOK /\ StampInv /\ q \in Request /\ x \in Workflow
      /\ store[x] \in Version \cup {None} /\ None \notin Version
      /\ q.base \in Version \cup {None} /\ q.force \in BOOLEAN
      /\ q.at \in Stamp /\ q.type \in {"save", "delete"}
      /\ \A v \in Version : v.at \in Stamp
  BY SeenTypes, RecordTypes DEF IInv, Accept
<1>1. PICK v \in Version \cup {None} :
             /\ store' = [store EXCEPT ![x] = v] /\ writes' = writes + 1
             /\ v # None => At(store[x]) < v.at /\ q.at <= v.at
             /\ v # None <=> q.type = "save"
  BY <1>0, Written
<1>2. store'[x] = v /\ \A y \in Workflow \ {x} : store'[y] = store[y]
  BY <1>0, <1>1 DEF StoreTypes, Stock
<1>3. UNCHANGED <<clock, recovered, page, taken>> /\ writes < MaxWrites /\ ~Conflicting(q) /\ Apply(q)
  BY DEF Accept
<1>4. q.type = "save" => store'[x].at \in {q.at, At(store[x]) + 1}
  <2>. SUFFICES ASSUME q.type = "save" PROVE store'[x].at \in {q.at, At(store[x]) + 1}
    OBVIOUS
  <2>1. store' = [store EXCEPT ![x] = [at |-> Later(q.at, At(store[x]) + 1), number |-> writes + 1]]
    BY <1>3 DEF Apply, Put
  <2>2. store'[x].at = Later(q.at, At(store[x]) + 1)
    BY <1>0, <2>1 DEF StoreTypes, Stock
  <2>. QED
    BY <2>2 DEF Later
<1>5. First(c) \/ Forced(c) \/ (q.base \in Version /\ store[x] # None /\ q.base.at = store[x].at)
  <2>. SUFFICES ASSUME ~q.force, q.base # None
                PROVE  q.base \in Version /\ store[x] # None /\ q.base.at = store[x].at
    BY <1>0 DEF First, Forced
  <2>1. At(q.base) = At(store[x]) /\ q.base \in Version /\ q.base.at \in Stamp
    BY <1>0, <1>3 DEF Conflicting
  <2>. QED
    BY <2>1, BoundAssumption DEF At, Stamp
<1>. QED
  BY <1>0, <1>1, <1>2, <1>3, <1>4, <1>5

\* What is held has been held before, or is or was stored.
LEMMA HeldStep ==
  ASSUME IInv, EditorInv, [Next]_vars, NEW x \in Workflow, NEW v \in Version, Held(x, v)'
  PROVE  Held(x, v) \/ v = store[x] \/ v = store'[x]
<1>0. /\ MainTypes /\ RequestTypes /\ None \notin Version /\ PageInv /\ LabelInv
      /\ Request \cap Reply = {}
  BY SeenTypes DEF IInv
<1>1. CASE list'[x] = v
  <2>1. list' = list \/ MainReply \/ RefreshApply
    <3>1. ASSUME NEW o \in Opener, OpenStep(o) PROVE list' = list
      BY <3>1, OpenFrame DEF IInv, mainVars
    <3>2. ASSUME NEW l \in Label, Close(l) \/ OnDestroyed(l) PROVE list' = list
      BY <3>2 DEF Close, OnDestroyed, mainVars
    <3>3. ASSUME NEW l \in Label, EditorStep(l) PROVE list' = list
      BY <3>3, EditorFrame DEF IInv, mainVars
    <3>4. ASSUME NEW c \in Client, Accept(c) \/ Refute(c) \/ Fail(c) PROVE list' = list
      BY <3>4 DEF Accept, Refute, Fail, mainVars
    <3>5. CASE MainStep \/ Corrupt \/ UNCHANGED vars
      BY <3>5 DEF MainStep, SaveListed, DeleteListed, Duplicate, HandleClosed, RefreshRead, Corrupt,
         vars, mainVars
    <3>. QED
      BY <3>1, <3>2, <3>3, <3>4, <3>5, StepSplit DEF Next
  <2>2. CASE MainReply
    BY <1>1, <2>2, RecordTypes DEF MainReply, Held
  <2>3. CASE RefreshApply
    BY <1>1, <2>3 DEF RefreshApply, Held
  <2>. QED
    BY <1>1, <2>1, <2>2, <2>3 DEF Held
<1>2. CASE refresh'.step = "read" /\ refresh'.state[x] = v
  <2>1. refresh' = refresh \/ HandleClosed \/ RefreshRead \/ RefreshApply
    <3>1. ASSUME NEW o \in Opener, OpenStep(o) PROVE refresh' = refresh
      BY <3>1, OpenFrame DEF IInv, mainVars
    <3>2. ASSUME NEW l \in Label, Close(l) \/ OnDestroyed(l) PROVE refresh' = refresh
      BY <3>2 DEF Close, OnDestroyed, mainVars
    <3>3. ASSUME NEW l \in Label, EditorStep(l) PROVE refresh' = refresh
      BY <3>3, EditorFrame DEF IInv, mainVars
    <3>4. ASSUME NEW c \in Client, Accept(c) \/ Refute(c) \/ Fail(c) PROVE refresh' = refresh
      BY <3>4 DEF Accept, Refute, Fail, mainVars
    <3>5. CASE MainStep \/ Corrupt \/ UNCHANGED vars
      BY <3>5 DEF MainStep, SaveListed, DeleteListed, Duplicate, MainReply, Corrupt, vars, mainVars
    <3>. QED
      BY <3>1, <3>2, <3>3, <3>4, <3>5, StepSplit DEF Next
  <2>2. CASE HandleClosed
    <3>. refresh.step = "read" /\ refresh'.state = refresh.state
      BY <1>0, <1>2, <2>2 DEF HandleClosed, Rest, MainTypes
    <3>. QED
      BY <1>2 DEF Held
  <2>3. CASE RefreshRead
    <3>. refresh'.state = store
      BY <1>0, <2>3 DEF RefreshRead, MainTypes
    <3>. QED
      BY <1>2
  <2>4. CASE RefreshApply
    BY <1>2, <2>4 DEF RefreshApply, Rest
  <2>. QED
    BY <1>2, <2>1, <2>2, <2>3, <2>4 DEF Held
<1>3. ASSUME NEW c \in Client, call'[c] \in Reply, call'[c].state[x] = v PROVE Held(x, v) \/ v = store'[x]
  <2>1. CASE call'[c] = call[c]
    BY <1>3, <2>1 DEF Held
  <2>2. CASE call'[c] # call[c]
    BY <1>3, <2>2, Answering
  <2>. QED
    BY <2>1, <2>2
<1>4. ASSUME NEW c \in Client, call'[c] \in Request, call'[c].id = x, call'[c].base = v PROVE Held(x, v)
  <2>1. CASE call'[c] = call[c]
    BY <1>4, <2>1 DEF Held
  <2>2. CASE call'[c] # call[c]
    <3>. call'[c].base # None
      BY <1>0, <1>4
    <3>. QED
      BY <1>4, <2>2, Asking
  <2>. QED
    BY <2>1, <2>2
<1>5. ASSUME NEW l \in Label, page'[l].id = x, page'[l].base = v PROVE Held(x, v) \/ v = store[x]
  <2>1. CASE page'[l] = page[l]
    BY <1>5, <2>1 DEF Held
  <2>2. CASE page'[l] # page[l]
    <3>0. v # None /\ x # NoId
      BY <1>0, RecordTypes
    <3>1. Loads(l) \/ Hears(l) \/ Chooses(l)
      BY <1>5, <2>2, <3>0, Showing
    <3>2. CASE Loads(l)
      BY <1>5, <3>0, <3>2 DEF Loads
    <3>3. CASE Hears(l)
      <4>. l \in Client
        BY SeenTypes
      <4>. QED
        BY <1>5, <3>3 DEF Hears, Held, Saved
    <3>4. CASE Chooses(l)
      BY <1>5, <3>0, <3>4 DEF Chooses, Held
    <3>. QED
      BY <3>1, <3>2, <3>3, <3>4
  <2>. QED
    BY <2>1, <2>2
<1>. QED
  BY <1>1, <1>2, <1>3, <1>4, <1>5 DEF Held

\* A workflow that is not stored stays so, and what is held of it is not renewed.
LEMMA StaysAway ==
  ASSUME IInv, EditorInv, [Next]_vars, NEW x \in Workflow, store[x] = None,
         \A c \in Client : call[c] \in Request /\ call[c].id = x => ~Accept(c)
  PROVE  store'[x] = None /\ \A v \in Version : Held(x, v)' => Held(x, v)
<1>1. store'[x] = None
  <2>1. CASE UNCHANGED storeVars
    BY <2>1 DEF storeVars
  <2>2. CASE Corrupt
    BY <2>2 DEF Corrupt
  <2>3. ASSUME NEW c \in Client, Accept(c) PROVE store'[x] = None
    BY <2>3, Accepting
  <2>. QED
    BY <2>1, <2>2, <2>3, Storing
<1>2. None \notin Version
  BY SeenTypes
<1>. QED
  BY <1>1, <1>2, HeldStep

LEMMA VersionStep == IInv /\ SeenInv /\ [Next]_vars => VersionInv'
<1>. SUFFICES ASSUME IInv, SeenInv, [Next]_vars, NEW x \in Workflow, NEW v \in Version,
                     Held(x, v)', store'[x] # None
              PROVE  v.at <= store'[x].at /\ (v.at = store'[x].at => v = store'[x])
  BY DEF VersionInv
<1>0. /\ None \notin Version /\ EditorInv /\ MaxWrites \in Nat
      /\ \A w \in Version : w.at \in Nat /\ w.at > 0
      /\ store[x] \in Version \cup {None}
  BY SeenTypes, RecordTypes, BoundAssumption DEF SeenInv, Stamp
<1>1. Held(x, v) \/ v = store[x] \/ v = store'[x]
  BY <1>0, HeldStep
<1>2. CASE store'[x] = store[x]
  BY <1>0, <1>1, <1>2 DEF SeenInv, VersionInv
<1>3. CASE store'[x] # store[x]
  <2>1. PICK c \in Client : Accept(c)
    BY <1>3, Storing DEF storeVars, Corrupt
  <2>2. /\ x = call[c].id /\ At(store[x]) < store'[x].at /\ call[c].at <= store'[x].at
        /\ store'[x] \in Version
        /\ First(c) \/ Forced(c) \/ store[x] # None
    BY <1>3, <2>1, Accepting
  <2>3. call[c].at \in Nat
    BY <2>1, Accepting, RecordTypes DEF Stamp
  <2>4. CASE v = store'[x]
    BY <1>0, <2>4
  <2>5. CASE v = store[x]
    BY <1>0, <2>2, <2>5 DEF At
  <2>6. CASE Held(x, v) /\ store[x] # None
    BY <1>0, <2>2, <2>6 DEF SeenInv, VersionInv, At
  <2>7. CASE Held(x, v) /\ store[x] = None
    <3>1. ~First(c)
      BY <2>2, <2>7 DEF SeenInv, FirstInv, Unheard
    <3>2. v.at < MaxWrites + 2 /\ call[c].at = MaxWrites + 2
      BY <2>2, <2>7, <3>1 DEF SeenInv, ForceInv, Lost
    <3>. QED
      BY <1>0, <2>2, <2>3, <3>2
  <2>. QED
    BY <1>1, <2>4, <2>5, <2>6, <2>7
<1>. QED
  BY <1>2, <1>3

LEMMA ClockStep == IInv /\ SeenInv /\ [Next]_vars => ClockInv' /\ OldInv'
<1>. SUFFICES ASSUME IInv, SeenInv, [Next]_vars PROVE ClockInv' /\ OldInv'
  OBVIOUS
<1>0. /\ None \notin Version /\ EditorInv /\ ClockInv /\ OldInv /\ MaxWrites \in Nat
      /\ StoreTypes /\ RequestTypes
      /\ \A w \in Version : w.at \in Nat
      /\ \A x \in Workflow : store[x] \in Version \cup {None}
  BY SeenTypes, RecordTypes, BoundAssumption DEF SeenInv, Stamp
<1>1. writes \in Nat /\ clock \in Nat /\ recovered \in BOOLEAN
  BY <1>0 DEF StoreTypes, Stamp
<1>2. CASE Corrupt
  <2>. call' = call /\ clock = 1 /\ recovered' = TRUE /\ clock' = MaxWrites + 2
    BY <1>0, <1>2 DEF Corrupt, ClockInv
  <2>. QED
    BY <1>0 DEF ClockInv, OldInv
<1>3. ASSUME UNCHANGED <<clock, recovered>> PROVE ClockInv'
  <2>1. \A c \in Client : call'[c] \in Request => call'[c] = call[c] \/ call'[c].at = clock
    BY <1>0, Asking
  <2>2. \A c \in Client : call'[c] \in Request => call'[c].at \in {1, clock'}
    BY <1>0, <1>3, <2>1 DEF ClockInv
  <2>3. clock' = IF recovered' THEN MaxWrites + 2 ELSE 1
    BY <1>0, <1>3 DEF ClockInv
  <2>. QED
    BY <2>2, <2>3 DEF ClockInv
<1>4. ASSUME UNCHANGED storeVars PROVE OldInv'
  <2>1. UNCHANGED <<store, writes, recovered>>
    BY <1>4 DEF storeVars
  <2>2. \A x \in Workflow, v \in Version : Held(x, v)' => Held(x, v) \/ v = store[x]
    BY <1>0, <2>1, HeldStep
  <2>3. ASSUME ~recovered', NEW x \in Workflow
        PROVE  /\ \A v \in Version : Held(x, v)' => v.at <= writes' + 1
               /\ store'[x] # None => store'[x].at <= writes' + 1
    BY <1>0, <2>1, <2>2, <2>3 DEF OldInv
  <2>. QED
    BY <2>3 DEF OldInv
<1>5. ASSUME NEW c \in Client, Accept(c) PROVE OldInv'
  <2>. SUFFICES ASSUME ~recovered', NEW x \in Workflow
                PROVE  /\ \A v \in Version : Held(x, v)' => v.at <= writes' + 1
                       /\ store'[x] # None => store'[x].at <= writes' + 1
    BY DEF OldInv
  <2>1. /\ ~recovered /\ writes' = writes + 1 /\ call[c] \in Request
        /\ store'[x] = store[x] \/ store'[x] = None \/ store'[x].at \in {call[c].at, At(store[x]) + 1}
    BY <1>5, Accepting
  <2>2. call[c].at = 1
    BY <1>0, <2>1 DEF ClockInv
  <2>3. store[x] # None => store[x].at \in Nat /\ store[x].at <= writes + 1
    BY <1>0, <2>1 DEF OldInv
  <2>4. store'[x] # None => store'[x].at <= writes' + 1
    BY <1>0, <1>1, <2>1, <2>2, <2>3 DEF At
  <2>5. ASSUME NEW v \in Version, Held(x, v)' PROVE v.at <= writes' + 1
    <3>1. Held(x, v) \/ v = store[x] \/ v = store'[x]
      BY <1>0, <2>5, HeldStep
    <3>. QED
      BY <1>0, <1>1, <2>1, <2>3, <2>4, <3>1 DEF OldInv
  <2>. QED
    BY <2>4, <2>5
<1>. QED
  BY <1>2, <1>3, <1>4, <1>5, Storing, Accepting DEF storeVars

LEMMA EditorInvStep == IInv /\ EditorInv /\ [Next]_vars => EditorInv'
<1>. SUFFICES ASSUME IInv, EditorInv, [Next]_vars PROVE EditorInv'
  OBVIOUS
<1>. SUFFICES ASSUME NEW l \in Label
              PROVE  /\ call'[l] \in Request => call'[l].type = "save"
                     /\ Saved(l)' => call'[l].state[call'[l].id] # None
                     /\ Editing(l)' /\ page'[l].id # NoId => page'[l].base # None
                     /\ l \in win' /\ call'[l] \in Request /\ ~call'[l].force
                          => call'[l].base = page'[l].base
  <2>. win' \subseteq Label
    BY InvariantStep DEF IInv, TypeOK
  <2>. QED
    BY DEF EditorInv
<1>0. l \in Client /\ None \notin Request \cup Reply /\ Request \cap Reply = {} /\ RequestTypes /\ IInv'
  BY SeenTypes, InvariantStep
<1>1. call'[l] \in Request => call'[l].type = "save"
  BY <1>0, Asking DEF EditorInv
<1>2. Saved(l)' => call'[l].state[call'[l].id] # None
  <2>. SUFFICES ASSUME call'[l] \in Reply, call'[l].type = "done", call'[l] # call[l]
                PROVE  call'[l].state[call'[l].id] # None
    BY DEF Saved, EditorInv
  <2>1. Accept(l) /\ call'[l].id = call[l].id /\ call'[l].state = store'
    BY <1>0, Answering
  <2>2. call[l] \in Request /\ call[l].type = "save"
    BY <1>0, <2>1, Accepting DEF EditorInv
  <2>. QED
    BY <1>0, <2>1, <2>2, Accepting
<1>3. Editing(l)' /\ page'[l].id # NoId => page'[l].base # None
  <2>1. CASE page'[l] = page[l]
    BY <2>1 DEF EditorInv, Editing
  <2>2. CASE page'[l] # page[l]
    <3>. SUFFICES ASSUME Editing(l)', page'[l].id # NoId PROVE page'[l].base # None
      OBVIOUS
    <3>1. Loads(l) \/ Hears(l) \/ Chooses(l)
      BY <2>2, Showing DEF Editing
    <3>2. CASE Loads(l)
      BY <3>2 DEF Loads, Editing
    <3>3. CASE Hears(l)
      BY <3>3 DEF Hears, Editing, EditorInv
    <3>4. CASE Chooses(l)
      BY <3>4 DEF Chooses, Editing, EditorInv
    <3>. QED
      BY <3>1, <3>2, <3>3, <3>4
  <2>. QED
    BY <2>1, <2>2
<1>4. ASSUME l \in win', call'[l] \in Request, ~call'[l].force PROVE call'[l].base = page'[l].base
  <2>1. CASE call'[l] # call[l]
    BY <1>0, <1>4, <2>1, Asking
  <2>2. CASE call'[l] = call[l]
    <3>1. page'[l].state \notin {"none", "loading"}
      BY <1>0, <1>4 DEF IInv, LabelInv, PageInv
    <3>2. page'[l] = page[l]
      BY <1>0, <1>4, <2>2, <3>1, Showing DEF Loads, Hears, Chooses
    <3>3. l \in win
      BY <3>1, <3>2 DEF IInv, LabelInv
    <3>. QED
      BY <1>4, <2>2, <3>2, <3>3 DEF EditorInv
  <2>. QED
    BY <2>1, <2>2
<1>. QED
  BY <1>1, <1>2, <1>3, <1>4

LEMMA TakenStep == IInv /\ SeenInv /\ [Next]_vars => TakenInv'
<1>. SUFFICES ASSUME IInv, SeenInv, [Next]_vars PROVE TakenInv'
  OBVIOUS
<1>0. /\ EditorInv /\ TakenInv /\ taken \subseteq taken' /\ None \notin Version /\ NoId \notin Workflow
      /\ WindowTypes /\ None \notin Request \cup Reply
      /\ \A c \in Client : call'[c] # None => call'[c] \in Request \cup Reply
  <2>. IInv'
    BY InvariantStep
  <2>. call' \in [Client -> Request \cup Reply \cup {None}]
    BY DEF IInv, TypeOK
  <2>. QED
    BY TakenGrows, SeenTypes, RecordTypes DEF SeenInv
<1>1. \A o \in Opener : op'[o].id # NoId => op'[o].id \in taken'
  <2>1. ASSUME NEW o \in Opener, OpenStep(o) PROVE \A p \in Opener : op'[p].id # NoId => op'[p].id \in taken
    <3>0. /\ \A p \in Opener : op[p].id # NoId => op[p].id \in taken
          /\ op \in [Opener -> Calls] /\ Idle.id = NoId
      BY <1>0 DEF TakenInv, WindowTypes, Idle
    <3>1. ASSUME NEW id \in Id, NEW kind \in Kind \cup {None}, Open(o, id, kind)
          PROVE  \A p \in Opener : op'[p].id # NoId => op'[p].id \in taken
      BY <3>0, <3>1 DEF Open, Idle
    <3>2. CASE Reuse(o) \/ Return(o) \/ BuildFails(o)
      BY <3>0, <3>2 DEF Reuse, Return, BuildFails, Finish
    <3>3. CASE ReleaseStale(o)
      BY <3>0, <3>3 DEF ReleaseStale, openVars
    <3>4. CASE ChooseLabel(o)
      <4>1. PICK l \in Label : op' = [op EXCEPT ![o].pc = "reserving", ![o].label = l]
        BY <3>4 DEF ChooseLabel, Available
      <4>2. op'[o] = [op[o] EXCEPT !.pc = "reserving", !.label = l] /\ op[o] \in Calls
            /\ \A p \in Opener \ {o} : op'[p] = op[p]
        BY <3>0, <4>1
      <4>3. op'[o].id = op[o].id
        BY <4>2 DEF Calls
      <4>. QED
        BY <3>0, <4>2, <4>3
    <3>5. CASE Reserve(o) \/ Build(o)
      <4>. Go(o, "lookup") \/ Go(o, "building") \/ Go(o, "returning")
        BY <3>5 DEF Reserve, Build
      <4>1. op'[o].id = op[o].id /\ \A p \in Opener \ {o} : op'[p] = op[p]
        <5>1. CASE Go(o, "lookup")
          BY <1>0, <5>1, CallAfter
        <5>2. CASE Go(o, "building")
          BY <1>0, <5>2, CallAfter
        <5>3. CASE Go(o, "returning")
          BY <1>0, <5>3, CallAfter
        <5>. QED
          BY <5>1, <5>2, <5>3
      <4>. QED
        BY <3>0, <4>1
    <3>. QED
      BY <2>1, <3>1, <3>2, <3>3, <3>4, <3>5 DEF OpenStep
  <2>2. ASSUME NEW l \in Label, Close(l) \/ OnDestroyed(l) PROVE op' = op
    BY <2>2 DEF Close, OnDestroyed, openVars
  <2>3. ASSUME NEW l \in Label, EditorStep(l) PROVE op' = op
    BY <2>3, EditorFrame DEF IInv, openVars
  <2>4. ASSUME NEW c \in Client, Accept(c) \/ Refute(c) \/ Fail(c) PROVE op' = op
    BY <2>4 DEF Accept, Refute, Fail, openVars
  <2>5. CASE MainStep \/ Corrupt \/ UNCHANGED vars
    <3>. op' = op
      BY <2>5, MainFrame DEF IInv, openVars, vars
    <3>. QED
      BY <1>0 DEF TakenInv
  <2>. QED
    BY <1>0, <2>1, <2>2, <2>3, <2>4, <2>5, StepSplit DEF Next, TakenInv
<1>2. ASSUME NEW x \in Workflow \ taken'
      PROVE  /\ Unheard(x)' /\ \A c \in Client : call'[c] # None => call'[c].id # x
             /\ \A l \in Label : page'[l].id # x
  <2>1. /\ Unheard(x) /\ x \in Workflow /\ x \notin taken
        /\ \A c \in Client : call[c] # None => call[c].id # x
        /\ \A l \in Label : page[l].id # x /\ l \in Client
        /\ \A o \in Opener : op[o].id # x
    BY <1>0, <1>2, SeenTypes DEF TakenInv
  <2>2. Unheard(x)'
    <3>. \A c \in Client : ~(call[c] \in Request /\ call[c].id = x)
      BY <1>0, <2>1
    <3>. QED
      BY <1>0, <2>1, StaysAway DEF Unheard
  <2>3. ASSUME NEW c \in Client, call'[c] # None PROVE call'[c].id # x
    <3>1. CASE call'[c] = call[c]
      BY <2>1, <2>3, <3>1
    <3>2. CASE call'[c] # call[c] /\ call'[c] \in Reply
      BY <1>0, <2>1, <3>2, Answering
    <3>3. CASE call'[c] # call[c] /\ call'[c] \in Request
      BY <1>0, <1>2, <2>1, <3>3, Asking DEF Unheard
    <3>. QED
      BY <1>0, <2>3, <3>1, <3>2, <3>3
  <2>4. ASSUME NEW l \in Label PROVE page'[l].id # x
    <3>1. CASE page'[l] = page[l]
      BY <2>1, <3>1
    <3>2. CASE page'[l] # page[l]
      <4>1. page'[l].id = NoId \/ (\E o \in Opener : page'[l].id = op[o].id)
              \/ Loads(l) \/ Hears(l) \/ Chooses(l)
        BY <3>2, Showing
      <4>2. CASE Hears(l)
        BY <1>0, <2>1, <4>2 DEF Hears
      <4>. QED
        BY <1>0, <2>1, <4>1, <4>2 DEF Loads, Chooses
    <3>. QED
      BY <3>1, <3>2
  <2>. QED
    BY <2>2, <2>3, <2>4
<1>. QED
  BY <1>1, <1>2 DEF TakenInv

LEMMA FirstStep == IInv /\ SeenInv /\ [Next]_vars => FirstInv'
<1>. SUFFICES ASSUME IInv, SeenInv, [Next]_vars PROVE FirstInv'
  OBVIOUS
<1>0. /\ EditorInv /\ TakenInv /\ FirstInv /\ None \notin Version /\ NoId \notin Workflow
      /\ None \notin Request \cup Reply /\ Request \cap Reply = {}
      /\ \A d \in Client : call'[d] # None => call'[d] \in Request \cup Reply
      /\ \A l \in Label : l \in Client
  <2>. IInv'
    BY InvariantStep
  <2>. call' \in [Client -> Request \cup Reply \cup {None}]
    BY DEF IInv, TypeOK
  <2>. QED
    BY SeenTypes, RecordTypes DEF SeenInv
<1>1. ASSUME NEW c \in Client, First(c)', NEW x \in Workflow, call'[c].id = x
      PROVE  /\ Unheard(x)'
             /\ \A d \in Client \ {c} : call'[d] # None => call'[d].id # x
             /\ \A l \in Label : Editing(l)' => page'[l].id # x
  <2>1. CASE call'[c] = call[c]
    <3>1. /\ First(c) /\ x \in Workflow /\ x = call[c].id /\ Unheard(x) /\ x \in taken
          /\ \A d \in Client \ {c} : call[d] # None => call[d].id # x
          /\ \A l \in Label : Editing(l) => page[l].id # x
      BY <1>0, <1>1, <2>1, RecordTypes DEF First, FirstInv, TakenInv
    <3>2. ~Accept(c) /\ ~Refute(c) /\ ~Fail(c)
      BY <1>0, <2>1, Replies
    <3>3. Unheard(x)'
      <4>1. \A d \in Client : call[d] \in Request /\ call[d].id = x => ~Accept(d)
        BY <1>0, <3>1, <3>2
      <4>2. store'[x] = None /\ \A v \in Version : Held(x, v)' => Held(x, v)
        BY <1>0, <3>1, <4>1, StaysAway DEF Unheard
      <4>3. \A v \in Version : ~Held(x, v)'
        BY <3>1, <4>2 DEF Unheard
      <4>. QED
        BY <4>2, <4>3 DEF Unheard, Held
    <3>4. ASSUME NEW d \in Client \ {c}, call'[d] # None PROVE call'[d].id # x
      <4>1. CASE call'[d] = call[d]
        BY <3>1, <3>4, <4>1
      <4>2. CASE call'[d] # call[d] /\ call'[d] \in Reply
        BY <1>0, <3>1, <4>2, Answering
      <4>3. CASE call'[d] # call[d] /\ call'[d] \in Request
        BY <1>0, <3>1, <4>3, Asking DEF Unheard
      <4>. QED
        BY <1>0, <3>4, <4>1, <4>2, <4>3
    <3>5. ASSUME NEW l \in Label, Editing(l)' PROVE page'[l].id # x
      <4>1. CASE page'[l] = page[l]
        BY <3>1, <3>5, <4>1 DEF Editing
      <4>2. CASE page'[l] # page[l]
        <5>1. Loads(l) \/ Hears(l) \/ Chooses(l)
          BY <3>5, <4>2, Showing DEF Editing
        <5>2. CASE Loads(l)
          BY <1>0, <3>1, <3>5, <5>2 DEF Loads, Editing, Unheard
        <5>3. CASE Hears(l)
          BY <1>0, <3>1, <5>3 DEF Hears, Editing, First
        <5>4. CASE Chooses(l)
          BY <1>0, <3>1, <5>4 DEF Chooses, Editing
        <5>. QED
          BY <5>1, <5>2, <5>3, <5>4
      <4>. QED
        BY <4>1, <4>2
    <3>. QED
      BY <3>3, <3>4, <3>5
  <2>2. CASE call'[c] # call[c]
    <3>1. /\ x \in Workflow /\ x \notin taken
          /\ \A d \in Client \ {c} : call'[d] = call[d]
          /\ \A l \in Label \ {c} : page'[l] = page[l]
          /\ c \in Label => page'[c].id \in {page[c].id, NoId}
      BY <1>0, <1>1, <2>2, Asking DEF First
    <3>2. /\ Unheard(x)
          /\ \A d \in Client : call[d] # None => call[d].id # x
          /\ \A l \in Label : page[l].id # x
      BY <1>0, <3>1 DEF TakenInv
    <3>3. Unheard(x)'
      <4>1. \A d \in Client : ~(call[d] \in Request /\ call[d].id = x)
        BY <1>0, <3>2
      <4>2. store'[x] = None /\ \A v \in Version : Held(x, v)' => Held(x, v)
        BY <1>0, <3>1, <3>2, <4>1, StaysAway DEF Unheard
      <4>3. \A v \in Version : ~Held(x, v)'
        BY <3>2, <4>2 DEF Unheard
      <4>. QED
        BY <4>2, <4>3 DEF Unheard, Held
    <3>. QED
      BY <1>0, <3>1, <3>2, <3>3
  <2>. QED
    BY <2>1, <2>2
<1>2. \A c \in Client : First(c)' => call'[c].id \in Workflow
  BY RecordTypes DEF First
<1>. QED
  BY <1>1, <1>2 DEF FirstInv, Unheard, Held

\* A workflow that is lost comes back only by a request of someone who insists.
LEMMA LostStep ==
  ASSUME IInv, SeenInv, [Next]_vars, NEW x \in Workflow, Lost(x),
         \A c \in Client : Accept(c) /\ call[c].id = x => ~First(c) /\ ~Forced(c)
  PROVE  Lost(x)'
<1>1. \A c \in Client : call[c] \in Request /\ call[c].id = x => ~Accept(c)
  BY Accepting DEF Lost
<1>2. store'[x] = None /\ \A v \in Version : Held(x, v)' => Held(x, v)
  BY <1>1, StaysAway DEF Lost, SeenInv
<1>3. recovered'
  BY Storing, Accepting DEF Lost, storeVars, Corrupt
<1>. QED
  BY <1>2, <1>3 DEF Lost, Held

LEMMA AllLost == IInv /\ SeenInv /\ Corrupt => \A x \in Workflow : Lost(x)'
<1>. SUFFICES ASSUME IInv, SeenInv, Corrupt, NEW x \in Workflow PROVE Lost(x)'
  OBVIOUS
<1>0. writes \in 0 .. MaxWrites /\ MaxWrites \in Nat /\ \A w \in Version : w.at \in Nat
  BY SeenTypes, RecordTypes, BoundAssumption DEF StoreTypes, Stamp
<1>1. recovered' /\ store'[x] = None /\ UNCHANGED <<page, call, list, refresh>>
  BY DEF Corrupt, mainVars
<1>2. \A v \in Version : Held(x, v)' <=> Held(x, v)
  BY <1>1 DEF Held
<1>3. \A v \in Version : Held(x, v) => v.at < MaxWrites + 2
  BY <1>0 DEF SeenInv, OldInv, Corrupt
<1>. QED
  BY <1>1, <1>2, <1>3 DEF Lost, Held

\* Nobody becomes interested in a lost workflow but by insisting on one's own.
LEMMA InterestStep ==
  ASSUME IInv, SeenInv, [Next]_vars, NEW x \in Workflow, store[x] = None, NEW d \in Client,
         ~(Accept(d) /\ call[d].id = x), Interested(d, x)'
  PROVE  Interested(d, x)
<1>0. /\ EditorInv /\ TakenInv /\ NoId \notin Workflow /\ None \notin Request \cup Reply
      /\ Request \cap Reply = {} /\ PageInv /\ LabelInv
      /\ \A l \in Label : page[l].state \in PageState
  BY SeenTypes, RecordTypes DEF SeenInv, IInv
<1>1. ASSUME call'[d] \in Request, call'[d].force, call'[d].id = x PROVE Interested(d, x)
  <2>1. CASE call'[d] = call[d]
    BY <1>1, <2>1 DEF Interested, Forced
  <2>2. CASE call'[d] # call[d]
    BY <1>0, <1>1, <2>2, Asking DEF Interested, Editing
  <2>. QED
    BY <2>1, <2>2
<1>2. ASSUME d \in Label, Editing(d)', page'[d].id = x PROVE Interested(d, x)
  <2>1. CASE page'[d] = page[d]
    BY <1>2, <2>1 DEF Interested, Editing
  <2>2. CASE page'[d] # page[d]
    <3>1. Loads(d) \/ Hears(d) \/ Chooses(d)
      BY <1>2, <2>2, Showing DEF Editing
    <3>2. CASE Loads(d)
      BY <1>0, <1>2, <3>2 DEF Loads, Editing
    <3>3. CASE Hears(d)
      BY <1>2, <3>3 DEF Hears, Interested, Editing
    <3>4. CASE Chooses(d)
      BY <1>0, <1>2, <3>4 DEF Chooses, Interested, Editing
    <3>. QED
      BY <3>1, <3>2, <3>3, <3>4
  <2>. QED
    BY <2>1, <2>2
<1>3. ASSUME d \in Label, Saved(d)', call'[d].id = x, page'[d].state # "none" PROVE Interested(d, x)
  <2>1. call'[d] = call[d]
    BY <1>3, Answering DEF Saved
  <2>2. Saved(d)
    BY <1>3, <2>1 DEF Saved
  <2>3. CASE page[d].state # "none"
    BY <1>3, <2>1, <2>2, <2>3 DEF Interested
  <2>4. CASE page[d].state = "none"
    <3>1. page'[d].state = "loading"
      BY <1>0, <1>3, <2>4, Showing DEF Loads, Hears, Chooses, LabelInv
    <3>2. PageInv' /\ LabelInv'
      BY InvariantStep DEF IInv
    <3>3. call'[d] = None
      BY <1>3, <3>1, <3>2 DEF PageInv, LabelInv
    <3>. QED
      BY <1>0, <2>1, <2>2, <3>3 DEF Saved
  <2>. QED
    BY <2>3, <2>4
<1>. QED
  BY <1>1, <1>2, <1>3 DEF Interested, Forced, Editing, Saved

\* No window but one's own is concerned with the workflow one edits.
LEMMA Alone ==
  ASSUME IInv, SeenInv, NEW l \in win, NEW x \in Workflow, page[l].id = x, Editing(l),
         NEW d \in Client \ {l}
  PROVE  ~Interested(d, x)
<1>0. /\ NoId \notin Workflow /\ l \in Label /\ l \in Client /\ registry[l].id = x /\ registry[l] # None
      /\ win \subseteq Label
  BY SeenTypes, RecordTypes DEF IInv, PageInv, LabelInv, WindowTypes
<1>1. ~Forced(d) \/ call[d].id # x
  BY <1>0 DEF SeenInv, ForceInv, Interested
<1>2. ASSUME d \in win PROVE page[d].id # x /\ (Saved(d) => call[d].id # x)
  <2>. registry[d].id # x
    BY <1>0, <1>2 DEF IInv, UniqueInv, Registered, LabelInv
  <2>. QED
    BY <1>0, <1>2 DEF IInv, PageInv, Saved
<1>3. d \in Label \ win => page[d].state = "none"
  BY DEF IInv, LabelInv
<1>. QED
  BY <1>1, <1>2, <1>3 DEF Interested, Editing

LEMMA ForceStep == IInv /\ SeenInv /\ [Next]_vars => ForceInv'
<1>. SUFFICES ASSUME IInv, SeenInv, [Next]_vars PROVE ForceInv'
  OBVIOUS
<1>0. None \notin Request \cup Reply /\ Request \cap Reply = {} /\ EditorInv /\ FirstInv /\ ForceInv /\ ClockInv
  BY SeenTypes DEF SeenInv
<1>1. ASSUME NEW c \in Client, Forced(c)', NEW x \in Workflow, call'[c].id = x
      PROVE  /\ Lost(x)' /\ call'[c].at = MaxWrites + 2
             /\ \A d \in Client \ {c} : ~Interested(d, x)'
  <2>1. CASE call'[c] = call[c]
    <3>1. /\ Forced(c) /\ Lost(x) /\ call'[c].at = MaxWrites + 2
          /\ \A d \in Client \ {c} : ~Interested(d, x)
      BY <1>0, <1>1, <2>1 DEF Forced, ForceInv
    <3>2. ASSUME NEW d \in Client, Accept(d), call[d].id = x PROVE ~First(d) /\ ~Forced(d)
      <4>1. d # c
        BY <1>0, <2>1, <3>1, <3>2, Replies DEF Forced
      <4>2. ~Forced(d)
        BY <3>1, <3>2, <4>1 DEF Interested
      <4>3. ~First(d)
        BY <1>0, <1>1, <2>1, <3>1, <3>2, <4>1 DEF FirstInv, Forced
      <4>. QED
        BY <4>2, <4>3
    <3>3. Lost(x)'
      BY <3>1, <3>2, LostStep
    <3>4. \A d \in Client : ~(Accept(d) /\ call[d].id = x)
      BY <3>1, <3>2, Accepting DEF Lost
    <3>5. \A d \in Client \ {c} : ~Interested(d, x)'
      BY <3>1, <3>4, InterestStep DEF Lost
    <3>. QED
      BY <3>1, <3>3, <3>5
  <2>2. CASE call'[c] # call[c]
    <3>1. /\ call[c] = None /\ call'[c].at = clock /\ UNCHANGED storeVars
          /\ \A d \in Client \ {c} : call'[d] = call[d]
          /\ c \in win /\ Editing(c) /\ page[c].state = "conflict" /\ page[c].id = x
      BY <1>0, <1>1, <2>2, Asking DEF Forced
    <3>2. Lost(x) /\ call'[c].at = MaxWrites + 2
      <4>1. recovered
        BY <3>1 DEF IInv, CurrentInv
      <4>. QED
        BY <1>0, <3>1, <4>1 DEF SeenInv, OwnInv, OwnOk, ClockInv
    <3>3. \A d \in Client : ~Accept(d)
      BY <3>1, Accepting, SeenTypes DEF storeVars, StoreTypes
    <3>4. Lost(x)'
      BY <3>2, <3>3, LostStep
    <3>5. \A d \in Client \ {c} : ~Interested(d, x)
      BY <3>1, Alone
    <3>6. \A d \in Client \ {c} : ~Interested(d, x)'
      BY <3>2, <3>3, <3>5, InterestStep DEF Lost
    <3>. QED
      BY <3>2, <3>4, <3>6
  <2>. QED
    BY <2>1, <2>2
<1>2. \A c \in Client : Forced(c)' => call'[c].id \in Workflow
  BY RecordTypes DEF Forced
<1>. QED
  BY <1>1, <1>2 DEF ForceInv, Lost, Held, Interested, Forced, Editing, Saved

\* A window is left alone but by its editor and the answers to it.
LEMMA LeftAlone ==
  ASSUME IInv, [Next]_vars, NEW l \in win', ~(Accept(l) \/ Refute(l) \/ Fail(l)), ~(l \in win /\ EditorStep(l))
  PROVE  call'[l] = call[l] /\ (IF l \in win THEN page'[l] = page[l]
                                             ELSE page'[l].state = "loading" /\ call[l] = None)
<1>0. /\ TypeOK /\ GateInv /\ LabelInv /\ win' \subseteq Label /\ Label \subseteq Client
  <2>. IInv'
    BY InvariantStep
  <2>. QED
    BY RecordTypes DEF IInv, TypeOK
<1>1. ASSUME NEW o \in Opener, OpenStep(o)
      PROVE  call'[l] = call[l] /\ (IF l \in win THEN page'[l] = page[l]
                                                 ELSE page'[l].state = "loading" /\ call[l] = None)
  BY <1>0, <1>1, OpenFrame
<1>2. ASSUME \/ \E m \in Label : Close(m) \/ OnDestroyed(m) \/ EditorStep(m)
             \/ \E c \in Client : Accept(c) \/ Refute(c) \/ Fail(c)
             \/ MainStep \/ Corrupt \/ UNCHANGED vars
      PROVE  l \in win /\ call'[l] = call[l] /\ page'[l] = page[l]
  <2>1. ASSUME NEW m \in Label, Close(m) \/ OnDestroyed(m)
        PROVE  l \in win /\ call'[l] = call[l] /\ page'[l] = page[l]
    BY <1>0, <2>1, CloseFrame
  <2>2. ASSUME NEW m \in Label, EditorStep(m)
        PROVE  l \in win /\ call'[l] = call[l] /\ page'[l] = page[l]
    BY <1>0, <2>2, EditorFrame DEF windowVars
  <2>3. ASSUME NEW c \in Client, Accept(c) \/ Refute(c) \/ Fail(c)
        PROVE  l \in win /\ call'[l] = call[l] /\ page'[l] = page[l]
    BY <1>0, <2>3, AnswerFrame DEF windowVars
  <2>4. CASE MainStep \/ Corrupt
    BY <1>0, <2>4, MainFrame DEF windowVars
  <2>5. CASE UNCHANGED vars
    BY <2>5 DEF vars, windowVars
  <2>. QED
    BY <1>2, <2>1, <2>2, <2>3, <2>4, <2>5
<1>. QED
  BY <1>1, <1>2, StepSplit DEF Next

LEMMA OwnStep == IInv /\ SeenInv /\ [Next]_vars => OwnInv'
<1>. SUFFICES ASSUME IInv, SeenInv, [Next]_vars PROVE OwnInv'
  OBVIOUS
<1>. SUFFICES ASSUME recovered', NEW l \in win', NEW x \in Workflow PROVE OwnOk(l, x)'
  BY DEF OwnInv
<1>0. /\ l \in Label /\ l \in Client /\ None \notin Request \cup Reply /\ Request \cap Reply = {}
      /\ NoId \notin Workflow /\ page[l].state \in PageState
      /\ LabelInv /\ EditorInv /\ (l \in win => PageOk(l))
  <2>. IInv'
    BY InvariantStep
  <2>. win' \subseteq Label
    BY DEF IInv, TypeOK
  <2>. QED
    BY SeenTypes, RecordTypes, EachPage DEF IInv, SeenInv
<1>1. CASE l \notin win
  <2>1. ~(Accept(l) \/ Refute(l) \/ Fail(l))
    <3>. ASSUME Accept(l) \/ Refute(l) \/ Fail(l) PROVE FALSE
      BY <1>0, <1>1, AnswerFrame DEF IInv, windowVars
    <3>. QED
      OBVIOUS
  <2>2. call'[l] = None /\ page'[l].state = "loading"
    BY <1>1, <2>1, LeftAlone
  <2>. QED
    BY <1>0, <2>2 DEF OwnOk, Saved, Editing
<1>2. CASE Corrupt
  <2>. Lost(x)'
    BY <1>2, AllLost
  <2>. QED
    BY DEF OwnOk
<1>3. CASE l \in win /\ ~Corrupt
  <2>0. OwnOk(l, x) /\ PageOk(l) /\ page[l].state # "none"
    <3>. recovered
      BY <1>3, Storing, Accepting DEF storeVars
    <3>. QED
      BY <1>0, <1>3 DEF SeenInv, OwnInv, LabelInv
  \* Nobody else stores the workflow of the window.
  <2>1. ASSUME ~Accept(l), registry[l].id = x PROVE store'[x] = store[x] /\ (Lost(x) => Lost(x)')
    <3>1. \A c \in Client : Accept(c) => call[c].id # x
      BY <1>0, <1>3, <2>1 DEF Accept, OwnerFree, Registered, LabelInv
    <3>2. Lost(x) => Lost(x)'
      BY <3>1, LostStep
    <3>3. store'[x] = store[x]
      <4>1. CASE UNCHANGED storeVars
        BY <4>1 DEF storeVars
      <4>2. ASSUME NEW c \in Client, Accept(c) PROVE store'[x] = store[x]
        BY <3>1, <4>2, Accepting
      <4>. QED
        BY <1>3, <4>1, <4>2, Storing
    <3>. QED
      BY <3>2, <3>3
  <2>2. ~Accept(l) /\ (page[l].id = x \/ (Saved(l) /\ call[l].id = x)) =>
          store'[x] = store[x] /\ (Lost(x) => Lost(x)')
    BY <1>0, <2>0, <2>1 DEF PageOk, Saved
  <2>3. CASE Accept(l)
    <3>1. /\ call[l] \in Request /\ call'[l] \in Reply /\ call'[l].type = "done" /\ call'[l].state = store'
          /\ page' = page
      BY <1>0, <2>3, Replies, Accepting
    <3>2. page[l].state # "conflict"
      BY <1>0, <2>0, <3>1 DEF PageOk
    <3>. QED
      BY <3>1, <3>2 DEF OwnOk, Saved, Editing
  <2>4. CASE Refute(l) \/ Fail(l)
    <3>1. /\ call[l] \in Request /\ ~Saved(l) /\ page' = page /\ page[l].state = "ready"
          /\ call'[l] = None \/ (call'[l] \in Reply /\ call'[l].type = "conflict" /\ Refute(l))
      <4>1. call[l] \in Request /\ page' = page
        BY <1>0, <2>4, AnswerFrame DEF IInv
      <4>2. call'[l] = None \/ (call'[l] \in Reply /\ call'[l].type = "conflict" /\ Refute(l))
        BY <1>0, <2>4, Replies
      <4>. QED
        BY <1>0, <2>0, <4>1, <4>2 DEF PageOk, PageState, Saved
    <3>2. ~Accept(l)
      BY <1>0, <3>1, Replies
    <3>3. CASE call'[l] = None
      BY <1>0, <2>0, <2>2, <3>1, <3>2, <3>3 DEF OwnOk, Saved, Editing
    \* The version it has is not the stored one, so the workflow is lost.
    <3>4. CASE call'[l] \in Reply /\ call'[l].type = "conflict" /\ Refute(l)
      <4>. SUFFICES page[l].id = x => Lost(x)'
        BY <3>1, <3>4 DEF OwnOk, Saved
      <4>1. ~call[l].force /\ call[l].base # None /\ At(call[l].base) # At(store[call[l].id])
        BY <3>4 DEF Refute, Conflicting
      <4>2. call[l].base = page[l].base /\ (page[l].id = x => call[l].id = x)
        BY <1>0, <1>3, <2>0, <3>1, <4>1 DEF EditorInv, PageOk
      <4>. QED
        BY <2>0, <2>2, <3>1, <3>2, <4>1, <4>2 DEF OwnOk, Editing
    <3>. QED
      BY <3>1, <3>3, <3>4
  <2>5. CASE EditorStep(l)
    <3>0. ~Accept(l) /\ UNCHANGED store
      <4>1. UNCHANGED storeVars
        BY <1>0, <2>5, EditorFrame DEF IInv
      <4>2. UNCHANGED <<store, writes>> /\ writes \in Nat
        BY <4>1, SeenTypes, BoundAssumption DEF StoreTypes, storeVars
      <4>3. Accept(l) => writes' = writes + 1
        BY <1>0, Accepting
      <4>. QED
        BY <4>2, <4>3
    <3>1. CASE Loads(l)
      BY <1>0, <2>0, <2>2, <3>0, <3>1 DEF Loads, OwnOk, Saved, Editing
    <3>2. CASE Saves(l)
      BY <1>0, <2>0, <2>2, <3>0, <3>2 DEF Saves, OwnOk, Saved, Editing
    <3>3. CASE Hears(l)
      BY <1>0, <2>0, <2>2, <3>0, <3>3 DEF Hears, OwnOk, Saved, Editing
    <3>4. CASE Chooses(l)
      BY <1>0, <2>0, <2>2, <3>0, <3>4 DEF Chooses, OwnOk, Saved, Editing
    <3>. QED
      BY <1>3, <2>5, <3>1, <3>2, <3>3, <3>4, EditorShows
  <2>6. CASE ~(Accept(l) \/ Refute(l) \/ Fail(l)) /\ ~EditorStep(l)
    <3>. call'[l] = call[l] /\ page'[l] = page[l]
      BY <1>3, <2>6, LeftAlone
    <3>. QED
      BY <2>0, <2>2, <2>6 DEF OwnOk, Saved, Editing
  <2>. QED
    BY <2>3, <2>4, <2>5, <2>6
<1>. QED
  BY <1>1, <1>2, <1>3

LEMMA SeenStart == Init => SeenInv
<1>. SUFFICES ASSUME Init PROVE SeenInv
  OBVIOUS
<1>0. IInv /\ NoId \notin Workflow /\ None \notin Version /\ None \notin Request \cup Reply
  BY Start, RecordTypes
<1>1. /\ op = [o \in Opener |-> Idle] /\ page = [l \in Label |-> NoPage] /\ win = {}
      /\ call = [c \in Client |-> None] /\ refresh = Rest
      /\ store = [w \in Workflow |-> IF w \in Stored THEN [at |-> 1, number |-> 0] ELSE None]
      /\ taken = Stored /\ writes = 0 /\ clock = 1 /\ recovered = FALSE /\ list = store
  BY DEF Init
<1>2. \A c \in Client : call[c] = None /\ call[c] \notin Request /\ call[c] \notin Reply
  BY <1>0, <1>1
<1>3. \A l \in Label : page[l].state = "none" /\ page[l].id = NoId /\ page[l].base = None
  BY <1>1 DEF NoPage
<1>4. \A x \in Workflow, v \in Version : Held(x, v) => v = store[x]
  BY <1>0, <1>1, <1>2, <1>3 DEF Held, Rest
<1>5. \A x \in Workflow : store[x] # None => store[x].at = 1
  BY <1>1
<1>6. \A o \in Opener : op[o].id = NoId
  BY <1>1 DEF Idle
<1>7. \A v \in Version : v.at \in Nat
  BY RecordTypes, BoundAssumption DEF Stamp
<1>8. VersionInv
  BY <1>4, <1>7 DEF VersionInv
<1>9. ClockInv /\ OldInv
  BY <1>0, <1>1, <1>2, <1>4, <1>5, <1>7 DEF ClockInv, OldInv
<1>10. EditorInv /\ FirstInv /\ ForceInv /\ OwnInv
  <2>1. EditorInv
    BY <1>1, <1>2, <1>3, RecordTypes DEF EditorInv, Saved, Editing
  <2>2. FirstInv /\ ForceInv /\ OwnInv
    BY <1>1, <1>2 DEF FirstInv, First, ForceInv, Forced, OwnInv
  <2>. QED
    BY <2>1, <2>2
<1>11. TakenInv
  BY <1>0, <1>1, <1>2, <1>3, <1>4, <1>6 DEF TakenInv, Unheard
<1>. QED
  BY <1>8, <1>9, <1>10, <1>11 DEF SeenInv

LEMMA SeenInvariant == Spec => [](IInv /\ SeenInv)
<1>1. IInv /\ SeenInv /\ [Next]_vars => (IInv /\ SeenInv)'
  BY InvariantStep, VersionStep, ClockStep, EditorInvStep, TakenStep, FirstStep, ForceStep, OwnStep DEF SeenInv
<1>2. Init => IInv /\ SeenInv
  BY Start, SeenStart
<1>. QED
  BY <1>1, <1>2, PTL DEF Spec

\* A version of a workflow is replaced or deleted only by a request of someone
\* who has seen it, or who insists, although stamps that are compared may be of
\* the same millisecond, windows read at any time and requests arrive late
\* (expectedUpdatedAt and force in apply_workflow_mutation).
THEOREM SeenBeforeReplaced == Spec => UnseenNeverReplaced
<1>1. ASSUME IInv, SeenInv, [Next]_vars, NEW x \in Workflow,
             store[x] # None, store'[x] # store[x], recovered' = recovered
      PROVE  \E c \in Client : /\ call[c] \in Request /\ call[c].id = x /\ call'[c] \in Reply
                               /\ call[c].force \/ call[c].base = store[x]
  <2>1. PICK c \in Client : Accept(c)
    BY <1>1, Storing DEF storeVars, Corrupt
  <2>2. /\ call[c] \in Request /\ call[c].id = x /\ call'[c] \in Reply
        /\ First(c) \/ Forced(c) \/ (call[c].base \in Version /\ call[c].base.at = store[x].at)
    BY <1>1, <2>1, Accepting, Replies
  <2>3. ~First(c)
    BY <1>1, <2>2 DEF SeenInv, FirstInv, Unheard
  <2>4. CASE Forced(c)
    BY <2>2, <2>4 DEF Forced
  <2>5. CASE call[c].base \in Version /\ call[c].base.at = store[x].at
    <3>. Held(x, call[c].base)
      BY <2>2 DEF Held
    <3>. QED
      BY <1>1, <2>2, <2>5 DEF SeenInv, VersionInv
  <2>. QED
    BY <2>2, <2>3, <2>4, <2>5
<1>2. IInv /\ SeenInv /\ [Next]_vars =>
        [\A x \in Workflow :
           (store[x] # None /\ store'[x] # store[x] /\ recovered' = recovered) =>
             \E c \in Client : /\ call[c] \in Request /\ call[c].id = x /\ call'[c] \in Reply
                               /\ call[c].force \/ call[c].base = store[x]]_vars
  BY <1>1
<1>. QED
  BY SeenInvariant, <1>2, PTL DEF Spec, UnseenNeverReplaced
=============================================================================
