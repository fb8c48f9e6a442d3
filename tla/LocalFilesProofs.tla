------------------------- MODULE LocalFilesProofs --------------------------
(* Proofs about LocalFiles, for any number of files, texts, tabs and        *)
(* grants, whatever a setting lets a behaviour meet: of its tabs first, and *)
(* at the end of its store.  What the native side keeps by tab (the         *)
(* registry) and by grant, and what the page, the queue of routed files,    *)
(* the replies and the workspace saves under way hold of the same tab,      *)
(* change in different steps: the invariant says, of each copy, what it     *)
(* still owes to the others.                                                *)
EXTENDS LocalFiles, FiniteSetTheorems, TLAPS

Granted == [file : File, stamp : Text, seen : Text]
Opening == [tab : Tab, grant : Grant, text : Text, early : BOOLEAN]
StoredTab == [file : File \cup {Absent}, stamp : Text \cup {Absent}, seen : Text \cup {Absent},
              text : Text, dirty : BOOLEAN, overtaken : BOOLEAN]
Resolved == [file : File \cup {Absent}, stamp : Text \cup {Absent}, seen : Text \cup {Absent},
             text : Text, dirty : BOOLEAN, overtaken : BOOLEAN, grant : Grant \cup {Absent}]
Call == [stage : {"asked"}, tabs : Partial(Tab, PageTab)]
          \cup [stage : {"resolved"}, tabs : Partial(Tab, Resolved)]
PageRow == [up : BOOLEAN, tabs : Partial(Tab, PageTab), timer : BOOLEAN, requested : BOOLEAN,
            draining : BOOLEAN]

Typed ==
  /\ disk \in [File -> Text \cup {Absent}]
  /\ registered \subseteq Tab
  /\ grants \in Partial(Grant, Granted)
  /\ pending \in Seq(Opening)
  /\ taken \in Seq(Opening) \cup {Absent}
  /\ routing \in [file : File, text : Text] \cup {Absent}
  /\ stored \in Partial(Tab, StoredTab)
  /\ page \in PageRow
  /\ command \in Bootstrap \cup Action \cup {Absent}
  /\ saves \in [Caller -> Call \cup {Absent}]
  /\ setting \in Setting

(* Nothing runs before the store was opened, and nothing but the bootstrap  *)
(* before the page is up; what is queued by then is not of the workspace.   *)
Resting ==
  /\ opening # Closed => health = "closed"
  /\ health = "closed" => /\ ~page.up /\ command = Absent
                          /\ pending = <<>> /\ routing = Absent
  /\ ~page.up => /\ page = ClosedPage /\ taken = Absent
                 /\ \A by \in Caller : saves[by] = Absent
                 /\ command # Absent => command \in Bootstrap
                 /\ command = Absent => \A o \in ToSet(pending) : o.tab \notin DOMAIN stored
  /\ page.up => command \in Action \cup {Absent}

(* While runAction waits for its own workspace save, it does nothing else.  *)
Waiting == saves["command"] # Absent => command # Absent /\ command.stage = "saving"

(* A persisted tab with a file is dirty, overtaken or as its stamp says.    *)
Kept(x) ==
  /\ x.stamp = x.seen
  /\ x.file # Absent => x.seen # Absent /\ (x.dirty \/ x.overtaken \/ x.text = x.seen)

Asking(by) == saves[by] # Absent /\ saves[by].stage = "asked"
Storing(by) == saves[by] # Absent /\ saves[by].stage = "resolved"

Books ==
  /\ \A g \in DOMAIN grants : grants[g].stamp = grants[g].seen
  /\ \A t \in DOMAIN stored : Kept(stored[t])
  /\ \A by \in Caller : Storing(by) => \A t \in DOMAIN saves[by].tabs : Kept(saves[by].tabs[t])

(* A tab's grant is one of gs, and its text what the grant says, unless the *)
(* tab is marked.                                                           *)
GoodFor(x, gs) ==
  /\ x.grant = Absent \/ x.grant \in DOMAIN gs
  /\ x.grant = Absent \/ x.dirty \/ x.excused \/ x.text = gs[x.grant].seen

Booting == command # Absent /\ command.kind = "bootstrap"
Closing(t) == At({"close"}, "reply") /\ command.tab = t

(* The tabs the page shows; *)
ShownFit ==
  \A t \in DOMAIN page.tabs :
    IF page.tabs[t].early THEN t \notin registered
    ELSE (t \in registered \/ Closing(t)) /\ GoodFor(page.tabs[t], grants)

(* the files routed and not yet shown; *)
OpenedFit ==
  \A o \in Opened :
    IF o.early THEN o.tab \notin registered
    ELSE /\ o.tab \in registered
         /\ o.grant \in DOMAIN grants /\ o.text = grants[o.grant].seen

(* the reply of the bootstrap; *)
BootFit ==
  Booting => \A t \in DOMAIN command.tabs :
    t \in registered /\ ~command.tabs[t].early /\ GoodFor(command.tabs[t], grants)

(* the file that is being opened, and the new tab; *)
NewFit ==
  /\ At({"open"}, "granting") => command.file # Absent /\ command.text # Absent
  /\ At({"open"}, "reply") =>
       /\ command.tab \in registered /\ command.text # Absent
       /\ command.grant # Absent => /\ command.grant \in DOMAIN grants
                                    /\ command.text = grants[command.grant].seen

(* and the copies of the page's tabs a workspace save carries.              *)
AskedFit ==
  \A by \in Caller : Asking(by) => \A t \in DOMAIN saves[by].tabs :
    IF saves[by].tabs[t].early THEN t \notin registered ELSE GoodFor(saves[by].tabs[t], grants)

Fit == ShownFit /\ OpenedFit /\ BootFit /\ NewFit /\ AskedFit

Saving == command # Absent /\ command.kind \in {"save", "save as"} /\ command.stage # "saving"
InSave(stages) == Saving /\ command.kind = "save" /\ command.stage \in stages

(* What save_sql_file and save_sql_file_as still know, step by step, of the *)
(* tab, the grant and the file they write.                                  *)
SaveKnows ==
  /\ Saving =>
       /\ command.tab \in DOMAIN page.tabs /\ command.text # Absent
       /\ page.tabs[command.tab].text = command.text \/ page.tabs[command.tab].dirty
       /\ command.kind = "save" => command.grant # Absent /\ page.tabs[command.tab].grant = command.grant
       /\ command.stage # "check" => command.tab \in registered /\ command.file # Absent
       /\ command.stage = "reply" =>
            command.grant \in DOMAIN grants /\ grants[command.grant].seen = command.text
  /\ InSave({"compare", "write", "rename", "stamp"}) =>
       command.grant \in DOMAIN grants /\ grants[command.grant].file = command.file
  /\ InSave({"compare"}) => /\ command.expected = grants[command.grant].stamp /\ command.read # Absent
                            /\ command.raced \/ disk[command.file] = command.read
  /\ InSave({"write", "rename"}) => command.raced \/ disk[command.file] = grants[command.grant].seen

(* A grant is given for one tab, wherever that tab is held.                 *)
Holds(t, g) ==
  \/ t \in DOMAIN page.tabs /\ ~page.tabs[t].early /\ page.tabs[t].grant = g
  \/ \E o \in Opened : ~o.early /\ o.tab = t /\ o.grant = g
  \/ Booting /\ t \in DOMAIN command.tabs /\ command.tabs[t].grant = g
  \/ At({"open", "save", "save as"}, "reply") /\ command.tab = t /\ command.grant = g

Sole == \A g \in Grant, t, u \in Tab : Holds(t, g) /\ Holds(u, g) => t = u

(* A tab is in one place until the page shows it.                           *)
Taken == IF taken = Absent THEN {} ELSE ToSet(taken)
Apart ==
  /\ \A o \in Opened : ~o.early =>
       /\ o.tab \notin DOMAIN page.tabs
       /\ Booting => o.tab \notin DOMAIN command.tabs
       /\ At({"open"}, "reply") => o.tab # command.tab
  /\ \A o \in ToSet(pending), q \in Taken : o.early \/ q.early \/ o.tab # q.tab

FilesInv == Typed /\ Resting /\ Waiting /\ Books /\ Fit /\ SaveKnows /\ Sole /\ Apart

-----------------------------------------------------------------------------
(* Functions and sequences *)

LEMMA PartialIs ==
  ASSUME NEW D, NEW V, NEW f, f \in Partial(D, V)
  PROVE  /\ DOMAIN f \subseteq D /\ f \in [DOMAIN f -> V]
         /\ \A x \in DOMAIN f : f[x] \in V
<1>1. PICK S \in SUBSET D : f \in [S -> V]
  BY DEF Partial
<1>2. QED
  BY <1>1

LEMMA PartialHas ==
  ASSUME NEW D, NEW V, NEW S \in SUBSET D, NEW f \in [S -> V]
  PROVE  f \in Partial(D, V)
BY DEF Partial

LEMMA WithIs ==
  ASSUME NEW D, NEW V, NEW f \in Partial(D, V), NEW x \in D, NEW v \in V
  PROVE  /\ With(f, x, v) \in Partial(D, V)
         /\ DOMAIN With(f, x, v) = DOMAIN f \cup {x} /\ With(f, x, v)[x] = v
         /\ \A y \in DOMAIN f \ {x} : With(f, x, v)[y] = f[y]
<1> DEFINE w == [y \in DOMAIN f \cup {x} |-> IF y = x THEN v ELSE f[y]]
<1>1. DOMAIN f \subseteq D /\ \A y \in DOMAIN f : f[y] \in V
  BY PartialIs
<1>2. w \in [DOMAIN f \cup {x} -> V] /\ DOMAIN f \cup {x} \in SUBSET D
  BY <1>1
<1>3. w \in Partial(D, V)
  BY <1>2, PartialHas
<1>4. QED
  BY <1>3 DEF With

LEMMA NoTabsIs == ASSUME NEW D, NEW V PROVE NoTabs \in Partial(D, V) /\ DOMAIN NoTabs = {}
<1>1. DOMAIN NoTabs = {} /\ NoTabs = [x \in {} |-> NoTabs[x]]
  BY DEF NoTabs
<1>2. NoTabs \in [{} -> V] /\ {} \in SUBSET D
  BY <1>1
<1>3. QED
  BY <1>1, <1>2, PartialHas

LEMMA FreshIds ==
  /\ FreeTabs # {} => FreeTab \in FreeTabs
  /\ FreeGrants # {} => FreeGrant \in FreeGrants
<1>1. ASSUME NEW S, S # {} PROVE (CHOOSE x \in S : TRUE) \in S
  BY <1>1, Zenon
<1>2. QED
  BY <1>1 DEF FreeTab, FreeGrant

LEMMA InSeq ==
  ASSUME NEW S, NEW s \in Seq(S)
  PROVE  \A y \in ToSet(s) : y \in S
<1>1. DOMAIN s = 1..Len(s) /\ Len(s) \in Nat /\ \A i \in 1..Len(s) : s[i] \in S
  OBVIOUS
<1>2. QED
  BY <1>1 DEF ToSet

LEMMA Appended ==
  ASSUME NEW S, NEW s \in Seq(S), NEW x \in S
  PROVE  ToSet(Append(s, x)) = ToSet(s) \cup {x}
<1>1. DOMAIN s = 1..Len(s) /\ Len(s) \in Nat
  OBVIOUS
<1>2. /\ DOMAIN Append(s, x) = 1..(Len(s) + 1) /\ Append(s, x)[Len(s) + 1] = x
      /\ \A i \in 1..Len(s) : Append(s, x)[i] = s[i]
  BY <1>1
<1>3. ASSUME NEW y PROVE y \in ToSet(Append(s, x)) <=> y \in ToSet(s) \/ y = x
  <2>1. y \in ToSet(Append(s, x)) <=> \E i \in 1..(Len(s) + 1) : Append(s, x)[i] = y
    BY <1>2 DEF ToSet
  <2>2. y \in ToSet(s) <=> \E i \in 1..Len(s) : s[i] = y
    BY <1>1 DEF ToSet
  <2>3. ASSUME NEW i \in 1..(Len(s) + 1) PROVE i \in 1..Len(s) \/ i = Len(s) + 1
    BY <1>1
  <2>4. 1..Len(s) \subseteq 1..(Len(s) + 1) /\ Len(s) + 1 \in 1..(Len(s) + 1)
    BY <1>1
  <2>5. QED
    BY <1>2, <2>1, <2>2, <2>3, <2>4
<1>4. QED
  BY <1>3

-----------------------------------------------------------------------------
(* What the variables are, seen from their types *)

LEMMA Acting ==
  ASSUME Typed, command # Absent, command.kind # "bootstrap"
  PROVE  command \in Action
BY DEF Typed, Bootstrap

LEMMA ActionStages ==
  ASSUME command \in Action,
         NEW s \in {"granting", "check", "compare", "write", "rename", "stamp", "reply", "saving"}
  PROVE  /\ [command EXCEPT !.stage = s] \in Action
         /\ [command EXCEPT !.stage = s, !.overwrite = TRUE] \in Action
         /\ [command EXCEPT !.stage = s].stage = s
         /\ [command EXCEPT !.stage = s, !.overwrite = TRUE].stage = s
BY DEF Action

LEMMA DoingIs ==
  ASSUME NEW kind \in {"open", "close", "save", "save as"},
         NEW stage \in {"granting", "check", "reply"}, NEW t \in Tab \cup {Absent}
  PROVE  Doing(kind, stage, t) \in Action
BY DEF Doing, Action

LEMMA PageFlags ==
  ASSUME page \in PageRow, NEW a \in BOOLEAN
  PROVE  /\ [page EXCEPT !.draining = a] \in PageRow
         /\ [page EXCEPT !.requested = a] \in PageRow
         /\ [page EXCEPT !.timer = a] \in PageRow
         /\ [page EXCEPT !.requested = FALSE, !.draining = TRUE] \in PageRow
BY DEF PageRow

LEMMA PageTabs ==
  ASSUME page \in PageRow, NEW a \in BOOLEAN, NEW tabs \in Partial(Tab, PageTab)
  PROVE  /\ [page EXCEPT !.tabs = tabs] \in PageRow
         /\ [page EXCEPT !.tabs = tabs, !.draining = a] \in PageRow
         /\ [page EXCEPT !.up = TRUE, !.tabs = tabs, !.requested = TRUE] \in PageRow
BY DEF PageRow

LEMMA FunFacts ==
  ASSUME Typed
  PROVE  /\ DOMAIN page.tabs \subseteq Tab /\ \A t \in DOMAIN page.tabs : page.tabs[t] \in PageTab
         /\ page.tabs \in Partial(Tab, PageTab)
         /\ DOMAIN grants \subseteq Grant /\ \A g \in DOMAIN grants : grants[g] \in Granted
         /\ DOMAIN stored \subseteq Tab /\ \A t \in DOMAIN stored : stored[t] \in StoredTab
         /\ \A o \in ToSet(pending) : o \in Opening
         /\ \A o \in Opened : o \in Opening
         /\ Booting => /\ command \in Bootstrap
                       /\ DOMAIN command.tabs \subseteq Tab
                       /\ \A t \in DOMAIN command.tabs : command.tabs[t] \in PageTab
         /\ \A by \in Caller :
              /\ Asking(by) => /\ saves[by] = [stage |-> "asked", tabs |-> saves[by].tabs]
                               /\ saves[by].tabs \in Partial(Tab, PageTab)
                               /\ DOMAIN saves[by].tabs \subseteq Tab
                               /\ \A t \in DOMAIN saves[by].tabs : saves[by].tabs[t] \in PageTab
              /\ Storing(by) => /\ saves[by] = [stage |-> "resolved", tabs |-> saves[by].tabs]
                                /\ saves[by].tabs \in Partial(Tab, Resolved)
                                /\ DOMAIN saves[by].tabs \subseteq Tab
                                /\ \A t \in DOMAIN saves[by].tabs : saves[by].tabs[t] \in Resolved
<1>1. page.tabs \in Partial(Tab, PageTab)
  BY DEF Typed, PageRow
<1>2. \A o \in Opened : o \in Opening
  <2>1. ASSUME NEW o \in Opened, o \notin ToSet(pending) PROVE taken # Absent /\ o \in ToSet(taken)
    BY <2>1 DEF Opened
  <2>2. QED
    BY <2>1, InSeq DEF Typed
<1>3. ASSUME Booting
      PROVE  command \in Bootstrap /\ command.tabs \in Partial(Tab, PageTab)
  <2>1. command \in Bootstrap
    BY <1>3 DEF Booting, Typed, Action
  <2>2. QED
    BY <2>1 DEF Bootstrap
<1>4. ASSUME NEW by \in Caller, Asking(by)
      PROVE  /\ saves[by].tabs \in Partial(Tab, PageTab)
             /\ saves[by] = [stage |-> "asked", tabs |-> saves[by].tabs]
  BY <1>4 DEF Asking, Typed, Call
<1>5. ASSUME NEW by \in Caller, Storing(by)
      PROVE  /\ saves[by].tabs \in Partial(Tab, Resolved)
             /\ saves[by] = [stage |-> "resolved", tabs |-> saves[by].tabs]
  BY <1>5 DEF Storing, Typed, Call
<1>6. \A o \in ToSet(pending) : o \in Opening
  BY InSeq DEF Typed
<1>7. QED
  BY <1>1, <1>2, <1>3, <1>4, <1>5, <1>6, PartialIs DEF Typed

-----------------------------------------------------------------------------
(* What the steps do: the bootstrap *)

LEMMA Recovers ==
  ASSUME Typed, Books, bootstrap_workspace
  PROVE  /\ grants' \in Partial(Grant, Granted)
         /\ \A g \in DOMAIN grants' : grants'[g].stamp = grants'[g].seen
         /\ registered' \subseteq DOMAIN stored
         /\ command' \in Bootstrap /\ DOMAIN command'.tabs = registered'
         /\ \A t \in registered' : ~command'.tabs[t].early /\ GoodFor(command'.tabs[t], grants')
         /\ \A t, u \in registered' :
              command'.tabs[t].grant = command'.tabs[u].grant =>
                t = u \/ command'.tabs[t].grant = Absent
         /\ pending' \in Seq(Opening)
         /\ \A o \in ToSet(pending') : o.early /\ \E q \in ToSet(pending) : o.tab = q.tab
         /\ ~page.up /\ command = Absent /\ health # "closed"
<1> DEFINE restored == IF health = "healthy" THEN stored ELSE NoTabs
           filed == {t \in DOMAIN restored : restored[t].file # Absent}
           granted == CHOOSE f \in NewGrants(filed) : TRUE
           tabs == [t \in DOMAIN restored |->
                      [grant |-> IF t \in filed THEN granted[t] ELSE Absent,
                       text |-> restored[t].text, dirty |-> restored[t].dirty,
                       early |-> FALSE, excused |-> restored[t].overtaken]]
<1>1. /\ NewGrants(filed) # {}
      /\ registered' = DOMAIN restored
      /\ grants' = workspace_grants(restored, granted)
      /\ command' = [kind |-> "bootstrap", stage |-> "reply", tab |-> Absent, grant |-> Absent,
                     tabs |-> tabs]
      /\ pending' = [i \in DOMAIN pending |-> [pending[i] EXCEPT !.early = TRUE]]
      /\ ~page.up /\ command = Absent /\ health # "closed"
  BY DEF bootstrap_workspace
<1>2. /\ DOMAIN restored \subseteq DOMAIN stored /\ DOMAIN restored \subseteq Tab
      /\ \A t \in DOMAIN restored : restored[t] \in StoredTab /\ Kept(restored[t])
  BY FunFacts, NoTabsIs DEF Books
<1>3. granted \in NewGrants(filed)
  <2> HIDE DEF filed
  <2>1. QED
    BY <1>1, Zenon
<1>4. /\ granted \in [filed -> Grant]
      /\ \A t, u \in filed : granted[t] = granted[u] => t = u
  <2> HIDE DEF granted, filed
  <2>1. QED
    BY <1>3 DEF NewGrants, Injection, IsInjective
<1> HIDE DEF granted
<1>5. ASSUME NEW t \in filed
      PROVE  /\ granted[t] \in Grant /\ granted[t] \in DOMAIN grants'
             /\ grants'[granted[t]] =
                  [file |-> restored[t].file, stamp |-> restored[t].stamp, seen |-> restored[t].seen]
  <2> HIDE DEF restored, filed
  <2>1. granted[t] \in Range(granted) /\ DOMAIN granted = filed
    BY <1>4, <1>5 DEF Range
  <2>2. (CHOOSE u \in DOMAIN granted : granted[u] = granted[t]) = t
    BY <1>4, <1>5, <2>1
  <2>3. QED
    BY <1>1, <1>4, <1>5, <2>1, <2>2 DEF workspace_grants
<1>6. \A g \in DOMAIN grants' : \E t \in filed : granted[t] = g
  <2> HIDE DEF restored, filed
  <2>1. QED
    BY <1>1, <1>4 DEF workspace_grants, Range
<1>7. \A t \in filed : /\ restored[t].file \in File /\ restored[t].stamp = restored[t].seen
                       /\ restored[t].seen \in Text
  BY <1>2 DEF Kept, StoredTab
<1>8. ASSUME NEW g \in DOMAIN grants'
      PROVE  g \in Grant /\ grants'[g] \in Granted /\ grants'[g].stamp = grants'[g].seen
  <2>1. PICK t \in filed : granted[t] = g
    BY <1>6
  <2>2. /\ granted[t] \in Grant
        /\ grants'[g] =
             [file |-> restored[t].file, stamp |-> restored[t].stamp, seen |-> restored[t].seen]
    BY <1>5, <2>1
  <2>3. restored[t].file \in File /\ restored[t].stamp = restored[t].seen /\ restored[t].seen \in Text
    BY <1>7, <2>1
  <2> HIDE DEF filed, restored
  <2>4. QED
    BY <2>1, <2>2, <2>3 DEF Granted
<1>9. grants' \in Partial(Grant, Granted)
  <2>1. grants' = [g \in DOMAIN grants' |-> grants'[g]]
    BY <1>1 DEF workspace_grants
  <2>2. grants' \in [DOMAIN grants' -> Granted] /\ DOMAIN grants' \in SUBSET Grant
    BY <1>8, <2>1
  <2>3. QED
    BY <2>2, PartialHas
<1>10. ASSUME NEW t \in DOMAIN restored
       PROVE  tabs[t] \in PageTab /\ ~tabs[t].early /\ GoodFor(tabs[t], grants')
  <2>1. restored[t] \in StoredTab /\ Kept(restored[t])
    BY <1>2
  <2>2. CASE t \in filed
    <3>1. granted[t] \in Grant /\ granted[t] \in DOMAIN grants'
          /\ grants'[granted[t]] =
               [file |-> restored[t].file, stamp |-> restored[t].stamp, seen |-> restored[t].seen]
      BY <1>5, <2>2, Zenon
    <3> HIDE DEF restored
    <3>2. QED
      BY <2>1, <2>2, <3>1 DEF StoredTab, PageTab, Kept, GoodFor
  <2>3. CASE t \notin filed
    <3> HIDE DEF restored, filed
    <3>1. QED
      BY <2>1, <2>3 DEF StoredTab, PageTab, GoodFor
  <2>4. QED
    BY <2>2, <2>3
<1>11. command' \in Bootstrap /\ DOMAIN command'.tabs = registered' /\ command'.tabs = tabs
  <2>1. tabs \in [DOMAIN restored -> PageTab] /\ DOMAIN restored \in SUBSET Tab
    BY <1>2, <1>10
  <2>2. tabs \in Partial(Tab, PageTab)
    BY <2>1, PartialHas
  <2> HIDE DEF tabs, restored
  <2>3. QED
    BY <1>1, <2>1, <2>2 DEF Bootstrap
<1>12. \A t, u \in DOMAIN restored : tabs[t].grant = tabs[u].grant => t = u \/ tabs[t].grant = Absent
  <2> SUFFICES ASSUME NEW t \in DOMAIN restored, NEW u \in DOMAIN restored,
                      tabs[t].grant = tabs[u].grant, tabs[t].grant # Absent
               PROVE  t = u
    OBVIOUS
  <2>1. t \in filed /\ u \in filed /\ granted[t] = granted[u]
    <3> HIDE DEF restored, filed
    <3>1. QED
      OBVIOUS
  <2>2. QED
    BY <1>4, <2>1
<1>13. /\ pending' \in Seq(Opening)
       /\ \A o \in ToSet(pending') : o.early /\ \E q \in ToSet(pending) : o.tab = q.tab
  <2>1. /\ DOMAIN pending = 1..Len(pending) /\ Len(pending) \in Nat
        /\ \A i \in 1..Len(pending) : pending[i] \in Opening
    BY DEF Typed
  <2>2. \A i \in 1..Len(pending) : /\ [pending[i] EXCEPT !.early = TRUE] \in Opening
                                   /\ [pending[i] EXCEPT !.early = TRUE].early
                                   /\ [pending[i] EXCEPT !.early = TRUE].tab = pending[i].tab
    BY <2>1 DEF Opening
  <2>3. pending' \in Seq(Opening) /\ DOMAIN pending' = 1..Len(pending)
    BY <1>1, <2>1, <2>2
  <2>4. ASSUME NEW o \in ToSet(pending') PROVE o.early /\ \E q \in ToSet(pending) : o.tab = q.tab
    <3>1. PICK i \in 1..Len(pending) : o = pending'[i]
      BY <2>3, <2>4 DEF ToSet
    <3>2. pending'[i] = [pending[i] EXCEPT !.early = TRUE] /\ pending[i] \in ToSet(pending)
      BY <1>1, <2>1 DEF ToSet
    <3>3. QED
      BY <2>2, <3>1, <3>2
  <2>5. QED
    BY <2>3, <2>4
<1>14. QED
  <2> HIDE DEF tabs, restored, filed
  <2>1. QED
    BY <1>1, <1>2, <1>8, <1>9, <1>10, <1>11, <1>12, <1>13

LEMMA Loads ==
  ASSUME Typed, Resting, ApplyBootstrap
  PROVE  /\ Booting /\ command' = Absent /\ page'.tabs = command.tabs /\ page'.up /\ ~page.up
         /\ page' \in PageRow
         /\ UNCHANGED <<storeVars, disk, registered, grants, pending, routing, stored, taken, saves>>
<1>1. /\ Booting /\ command' = Absent
      /\ UNCHANGED <<storeVars, disk, registered, grants, pending, routing, stored, taken, saves>>
      /\ page' = [page EXCEPT !.up = TRUE, !.tabs = command.tabs, !.requested = TRUE]
  BY DEF ApplyBootstrap, Booting
<1>2. page \in PageRow /\ command.tabs \in Partial(Tab, PageTab)
  BY <1>1, FunFacts DEF Typed, Bootstrap
<1>3. page'.tabs = command.tabs /\ page'.up
  BY <1>1, <1>2 DEF PageRow
<1>4. page' \in PageRow
  BY <1>1, <1>2, PageTabs
<1>5. ~page.up
  BY <1>1, LocalFilesAssumption DEF Resting, Booting, Action
<1>6. QED
  BY <1>1, <1>3, <1>4, <1>5

-----------------------------------------------------------------------------
(* What the steps do: workspace saves *)

LEMMA AnswerIs ==
  ASSUME Typed, NEW by \in Caller, Answer(by)
  PROVE  /\ page' \in PageRow /\ page'.up = page.up /\ page'.tabs = page.tabs
         /\ command' = IF by = "command" THEN Absent ELSE command
         /\ saves' \in [Caller -> Call \cup {Absent}]
         /\ \A x \in Caller : saves'[x] = IF x = by THEN Absent ELSE saves[x]
<1>1. page' = page \/ page' = [page EXCEPT !.draining = FALSE]
  BY DEF Answer
<1>2. page' \in PageRow
  BY <1>1, PageFlags DEF Typed
<1>3. page'.up = page.up /\ page'.tabs = page.tabs
  BY <1>1 DEF Typed, PageRow
<1>4. saves' = [saves EXCEPT ![by] = Absent]
  BY DEF Answer
<1>5. /\ saves' \in [Caller -> Call \cup {Absent}]
      /\ \A x \in Caller : saves'[x] = IF x = by THEN Absent ELSE saves[x]
  BY <1>4 DEF Typed
<1>6. QED
  BY <1>2, <1>3, <1>5 DEF Answer

(* A call of saveWorkspaceNow in the next state. *)
LEMMA Asks ==
  ASSUME Typed, NEW by \in Caller, NEW tabs \in Partial(Tab, PageTab), Save(by, tabs)
  PROVE  /\ saves' \in [Caller -> Call \cup {Absent}]
         /\ \A x \in Caller : Asking(x)' => \/ x = by /\ saves'[x].tabs = tabs
                                            \/ saves'[x] = saves[x] /\ Asking(x)
         /\ \A x \in Caller : Storing(x)' => saves'[x] = saves[x] /\ Storing(x)
         /\ \A x \in Caller : x # by => saves'[x] = saves[x]
         /\ ~Meets("restore") => saves'[by] = Absent
<1>1. Asked(tabs) \in Call /\ Asked(tabs).stage = "asked" /\ Asked(tabs).tabs = tabs
  BY DEF Asked, Call
<1>2. saves' = [saves EXCEPT ![by] = IF Meets("restore") THEN Asked(tabs) ELSE Absent]
  BY DEF Save
<1>3. \A x \in Caller : saves'[x] = IF x # by THEN saves[x]
                                    ELSE IF Meets("restore") THEN Asked(tabs) ELSE Absent
  BY <1>2 DEF Typed
<1>4. QED
  BY <1>1, <1>2, <1>3 DEF Asking, Storing, Typed

LEMMA Saves ==
  ASSUME Typed, Books, AskedFit, NEW by \in Caller, save_workspace(by)
  PROVE  /\ UNCHANGED <<storeVars, disk, registered, grants, pending, routing, stored, taken>>
         /\ saves' \in [Caller -> Call \cup {Absent}]
         /\ \A x \in Caller : Asking(x)' => saves'[x] = saves[x] /\ Asking(x)
         /\ \A x \in Caller : Storing(x)' => \/ saves'[x] = saves[x] /\ Storing(x)
                                             \/ \A t \in DOMAIN saves'[x].tabs : Kept(saves'[x].tabs[t])
         /\ \A x \in Caller : x # by => saves'[x] = saves[x]
         /\ saves[by] # Absent
         /\ Answer(by) \/ UNCHANGED <<command, page>>
<1> DEFINE tabs == saves[by].tabs
           file(t) == IF tabs[t].grant = Absent THEN Absent ELSE grants[tabs[t].grant].file
           stamp(t) == IF tabs[t].grant = Absent THEN Absent ELSE grants[tabs[t].grant].stamp
           seen(t) == IF tabs[t].grant = Absent THEN Absent ELSE grants[tabs[t].grant].seen
           res == [t \in DOMAIN tabs |->
                   [file |-> file(t), stamp |-> stamp(t), seen |-> seen(t), grant |-> tabs[t].grant,
                    text |-> tabs[t].text, dirty |-> tabs[t].dirty,
                    overtaken |-> tabs[t].excused]]
           go == /\ health = "healthy"
                 /\ \A t \in DOMAIN tabs : /\ t \in registered
                                           /\ tabs[t].grant = Absent \/ tabs[t].grant \in DOMAIN grants
<1>1. /\ UNCHANGED <<storeVars, disk, registered, grants, pending, routing, stored, taken>>
      /\ Asking(by) /\ saves[by] # Absent
      /\ IF go THEN /\ saves' = [saves EXCEPT ![by] = [stage |-> "resolved", tabs |-> res]]
                    /\ UNCHANGED <<command, page>>
         ELSE Answer(by)
  BY DEF save_workspace, authorize_tab, resolve_granted, Asking
<1>2. /\ saves[by] = [stage |-> "asked", tabs |-> tabs]
      /\ DOMAIN tabs \subseteq Tab /\ \A t \in DOMAIN tabs : tabs[t] \in PageTab
  BY <1>1, FunFacts
<1>3. CASE ~go
  <2>1. /\ saves' \in [Caller -> Call \cup {Absent}]
        /\ \A x \in Caller : saves'[x] = IF x = by THEN Absent ELSE saves[x]
    BY <1>1, <1>3, AnswerIs
  <2> HIDE DEF go
  <2>2. QED
    BY <1>1, <1>3, <2>1 DEF Asking, Storing
<1>4. CASE go
  <2>1. ASSUME NEW t \in DOMAIN tabs
        PROVE  /\ tabs[t].grant = Absent \/ tabs[t].grant \in DOMAIN grants
               /\ GoodFor(tabs[t], grants)
    <3>1. t \in registered /\ (tabs[t].grant = Absent \/ tabs[t].grant \in DOMAIN grants)
      BY <1>4, <2>1
    <3>2. IF tabs[t].early THEN t \notin registered ELSE GoodFor(tabs[t], grants)
      BY <1>1, <2>1 DEF AskedFit
    <3>3. QED
      BY <3>1, <3>2
  <2>2. \A g \in DOMAIN grants : /\ grants[g].file \in File /\ grants[g].stamp \in Text
                                 /\ grants[g].seen \in Text /\ grants[g].stamp = grants[g].seen
    BY FunFacts DEF Granted, Books
  <2>3. ASSUME NEW t \in DOMAIN tabs PROVE res[t] \in Resolved /\ Kept(res[t])
    <3>1. tabs[t] \in PageTab
      BY <1>2, <2>3
    <3>2. res[t] = [file |-> file(t), stamp |-> stamp(t), seen |-> seen(t), grant |-> tabs[t].grant,
                    text |-> tabs[t].text, dirty |-> tabs[t].dirty, overtaken |-> tabs[t].excused]
      BY <2>3
    <3>3. CASE tabs[t].grant = Absent
      <4>1. file(t) = Absent /\ stamp(t) = Absent /\ seen(t) = Absent
        BY <3>3
      <4> HIDE DEF file, stamp, seen, res
      <4>2. QED
        BY <3>1, <3>2, <4>1, <3>3 DEF Resolved, Kept, PageTab
    <3>4. CASE tabs[t].grant # Absent
      <4>1. /\ file(t) = grants[tabs[t].grant].file /\ stamp(t) = grants[tabs[t].grant].stamp
            /\ seen(t) = grants[tabs[t].grant].seen
        BY <3>4
      <4>2. /\ tabs[t].grant \in DOMAIN grants
            /\ tabs[t].dirty \/ tabs[t].excused \/ tabs[t].text = grants[tabs[t].grant].seen
        BY <2>1, <2>3, <3>4 DEF GoodFor
      <4>3. /\ file(t) \in File /\ stamp(t) = seen(t) /\ seen(t) \in Text
        BY <2>2, <4>1, <4>2
      <4>4. tabs[t].dirty \/ tabs[t].excused \/ tabs[t].text = seen(t)
        BY <4>1, <4>2
      <4> HIDE DEF file, stamp, seen, res
      <4>5. seen(t) # Absent
        BY <4>3, LocalFilesAssumption
      <4>6. QED
        BY <3>1, <3>2, <4>3, <4>4, <4>5 DEF Resolved, Kept, PageTab
    <3>5. QED
      BY <3>3, <3>4
  <2>4. res \in [DOMAIN tabs -> Resolved] /\ DOMAIN res = DOMAIN tabs
    <3> HIDE DEF file, stamp, seen
    <3>1. QED
      BY <2>3
  <2> HIDE DEF res, file, stamp, seen
  <2>5. res \in Partial(Tab, Resolved)
    BY <1>2, <2>4, PartialHas
  <2>6. saves' = [saves EXCEPT ![by] = [stage |-> "resolved", tabs |-> res]]
    BY <1>1, <1>4
  <2>7. [stage |-> "resolved", tabs |-> res] \in Call
    BY <2>5 DEF Call
  <2>8. saves' \in [Caller -> Call \cup {Absent}]
    BY <2>6, <2>7 DEF Typed
  <2>9. \A x \in Caller : saves'[x] = IF x = by THEN [stage |-> "resolved", tabs |-> res] ELSE saves[x]
    BY <2>6 DEF Typed
  <2> HIDE DEF tabs, go
  <2>10. \A x \in Caller : Asking(x)' => saves'[x] = saves[x] /\ Asking(x)
    BY <2>9 DEF Asking
  <2>11. \A x \in Caller : Storing(x)' => \/ saves'[x] = saves[x] /\ Storing(x)
                                          \/ \A t \in DOMAIN saves'[x].tabs : Kept(saves'[x].tabs[t])
    BY <2>3, <2>4, <2>9 DEF Storing
  <2>12. QED
    BY <1>1, <1>4, <2>8, <2>9, <2>10, <2>11
<1>5. QED
  BY <1>3, <1>4

LEMMA Stripped ==
  ASSUME NEW r \in Resolved
  PROVE  LET s == [f \in DOMAIN r \ {"grant"} |-> r[f]]
         IN /\ s \in StoredTab
            /\ s.file = r.file /\ s.stamp = r.stamp /\ s.seen = r.seen
            /\ s.text = r.text /\ s.dirty = r.dirty /\ s.overtaken = r.overtaken
<1> DEFINE s == [f \in DOMAIN r \ {"grant"} |-> r[f]]
<1>1. DOMAIN r = {"file", "stamp", "seen", "text", "dirty", "overtaken", "grant"}
  BY DEF Resolved
<1>2. DOMAIN r \ {"grant"} = {"file", "stamp", "seen", "text", "dirty", "overtaken"}
  BY <1>1
<1>3. /\ s.file = r.file /\ s.stamp = r.stamp /\ s.seen = r.seen
      /\ s.text = r.text /\ s.dirty = r.dirty /\ s.overtaken = r.overtaken
  BY <1>2
<1>4. s = [file |-> r.file, stamp |-> r.stamp, seen |-> r.seen,
           text |-> r.text, dirty |-> r.dirty, overtaken |-> r.overtaken]
  BY <1>2, <1>3
<1>5. s \in StoredTab
  BY <1>4 DEF StoredTab, Resolved
<1>6. QED
  BY <1>3, <1>5

LEMMA Stores ==
  ASSUME Typed, Books, NEW by \in Caller, StoreWorkspace(by)
  PROVE  /\ UNCHANGED <<storeVars, disk, registered, grants, pending, routing, taken>>
         /\ Answer(by) /\ saves[by] # Absent
         /\ stored' \in Partial(Tab, StoredTab)
         /\ \A t \in DOMAIN stored' : Kept(stored'[t])
<1> DEFINE tabs == saves[by].tabs
           st == [t \in DOMAIN tabs |-> [f \in DOMAIN tabs[t] \ {"grant"} |-> tabs[t][f]]]
<1>1. /\ UNCHANGED <<storeVars, disk, registered, grants, pending, routing, taken>>
      /\ Answer(by) /\ saves[by] # Absent /\ Storing(by)
      /\ stored' = st \/ stored' = stored
  BY DEF StoreWorkspace, Storing
<1>2. DOMAIN tabs \subseteq Tab /\ \A t \in DOMAIN tabs : tabs[t] \in Resolved /\ Kept(tabs[t])
  BY <1>1, FunFacts DEF Books
<1>3. ASSUME NEW t \in DOMAIN tabs PROVE st[t] \in StoredTab /\ Kept(st[t])
  <2>1. tabs[t] \in Resolved /\ Kept(tabs[t])
    BY <1>2, <1>3
  <2> DEFINE r == tabs[t]
             s == [f \in DOMAIN r \ {"grant"} |-> r[f]]
  <2>2. st[t] = s
    BY <1>3
  <2> HIDE DEF r
  <2>3. /\ s \in StoredTab
        /\ s.file = r.file /\ s.stamp = r.stamp /\ s.seen = r.seen
        /\ s.text = r.text /\ s.dirty = r.dirty /\ s.overtaken = r.overtaken
    <3>1. r \in Resolved
      BY <2>1 DEF r
    <3>2. QED
      BY <3>1, Stripped
  <2>4. Kept(r)
    BY <2>1 DEF r
  <2> HIDE DEF s, st
  <2>5. QED
    BY <2>2, <2>3, <2>4 DEF Kept
<1>4. st \in [DOMAIN tabs -> StoredTab] /\ DOMAIN st = DOMAIN tabs
  BY <1>3
<1> HIDE DEF st
<1>5. st \in Partial(Tab, StoredTab)
  BY <1>2, <1>4, PartialHas
<1>6. QED
  BY <1>1, <1>3, <1>4, <1>5 DEF Typed, Books

-----------------------------------------------------------------------------
(* What the steps do: identifiers, grants and the queue *)

LEMMA FreshAre ==
  ASSUME Typed
  PROVE  /\ FreeTabs # {} => FreeTab \in Tab \ TabsNamed
         /\ FreeGrants # {} => FreeGrant \in Grant \ (DOMAIN grants \cup GrantsNamed)
BY FreshIds DEF FreeTabs, FreeGrants

LEMMA OvertakeIs ==
  ASSUME Typed, NEW g, NEW text, Overtake(g, text)
  PROVE  /\ saves' \in [Caller -> Call \cup {Absent}]
         /\ \A by \in Caller : ~Asking(by) => saves'[by] = saves[by]
         /\ \A by \in Caller : Storing(by)' => saves'[by] = saves[by] /\ Storing(by)
         /\ \A by \in Caller : Asking(by)' =>
              /\ Asking(by) /\ DOMAIN saves'[by].tabs = DOMAIN saves[by].tabs
              /\ \A t \in DOMAIN saves[by].tabs :
                   saves'[by].tabs[t] =
                     IF saves[by].tabs[t].grant = g /\ saves[by].tabs[t].text # text
                     THEN [saves[by].tabs[t] EXCEPT !.excused = TRUE] ELSE saves[by].tabs[t]
<1> DEFINE over(tabs) == [t \in DOMAIN tabs |->
              IF tabs[t].grant = g /\ tabs[t].text # text THEN [tabs[t] EXCEPT !.excused = TRUE]
              ELSE tabs[t]]
<1>1. saves' = [by \in Caller |->
         IF ~Asking(by) THEN saves[by] ELSE [saves[by] EXCEPT !.tabs = over(saves[by].tabs)]]
  BY DEF Overtake, Asking
<1>2. ASSUME NEW tabs \in Partial(Tab, PageTab)
      PROVE  over(tabs) \in Partial(Tab, PageTab)
  <2>1. DOMAIN tabs \subseteq Tab /\ \A t \in DOMAIN tabs : tabs[t] \in PageTab
    BY PartialIs
  <2>2. \A x \in PageTab : [x EXCEPT !.excused = TRUE] \in PageTab
    BY DEF PageTab
  <2>3. over(tabs) \in [DOMAIN tabs -> PageTab] /\ DOMAIN tabs \in SUBSET Tab
    BY <2>1, <2>2
  <2> HIDE DEF over
  <2>4. QED
    BY <2>3, PartialHas
<1>3. \A tabs : /\ DOMAIN over(tabs) = DOMAIN tabs
                /\ \A t \in DOMAIN tabs : over(tabs)[t] =
                     IF tabs[t].grant = g /\ tabs[t].text # text
                     THEN [tabs[t] EXCEPT !.excused = TRUE] ELSE tabs[t]
  OBVIOUS
<1> HIDE DEF over
<1>4. ASSUME NEW by \in Caller, Asking(by)
      PROVE  /\ saves'[by] = [stage |-> "asked", tabs |-> over(saves[by].tabs)]
             /\ saves'[by] \in Call
  <2>1. /\ saves[by] = [stage |-> "asked", tabs |-> saves[by].tabs]
        /\ saves[by].tabs \in Partial(Tab, PageTab)
    BY <1>4, FunFacts
  <2>2. saves'[by] = [stage |-> "asked", tabs |-> over(saves[by].tabs)]
    BY <1>1, <1>4, <2>1
  <2>3. saves'[by] \in [stage : {"asked"}, tabs : Partial(Tab, PageTab)]
    BY <1>2, <2>1, <2>2
  <2>4. QED
    BY <2>2, <2>3 DEF Call
<1>5. ASSUME NEW by \in Caller, ~Asking(by) PROVE saves'[by] = saves[by]
  BY <1>1, <1>5
<1>6. saves' \in [Caller -> Call \cup {Absent}]
  <2>1. \A by \in Caller : saves'[by] \in Call \cup {Absent}
    BY <1>4, <1>5 DEF Typed
  <2>2. saves' = [by \in Caller |-> saves'[by]]
    BY <1>1
  <2>3. QED
    BY <2>1, <2>2
<1>7. QED
  BY <1>3, <1>4, <1>5, <1>6 DEF Asking, Storing

(* A tab nobody holds is registered. *)
Registered(t) == t \in Tab \ TabsNamed /\ registered' = registered \cup {t}

(* A grant nobody names is given. *)
Grants(g, f, text) ==
  /\ g \in Grant \ (DOMAIN grants \cup GrantsNamed) /\ f \in File /\ text \in Text
  /\ grants' \in Partial(Grant, Granted)
  /\ DOMAIN grants' = DOMAIN grants \cup {g}
  /\ grants'[g] = [file |-> f, stamp |-> text, seen |-> text]
  /\ \A h \in DOMAIN grants : h # g => grants'[h] = grants[h]

LEMMA OpenedGrant ==
  ASSUME Typed, NEW g \in Grant, NEW f \in File, NEW text \in Text,
         grant_sql_file(g, f, text, text)
  PROVE  /\ grants' \in Partial(Grant, Granted)
         /\ DOMAIN grants' = DOMAIN grants \cup {g}
         /\ grants'[g] = [file |-> f, stamp |-> text, seen |-> text]
         /\ \A h \in DOMAIN grants : h # g => grants'[h] = grants[h]
<1> DEFINE r == [file |-> f, stamp |-> text, seen |-> text]
<1>1. r \in Granted
  BY DEF Granted
<1>2. grants' = With(grants, g, r)
  BY DEF grant_sql_file
<1>3. grants \in Partial(Grant, Granted)
  BY DEF Typed
<1> HIDE DEF r
<1>4. ASSUME NEW p \in Partial(Grant, Granted), NEW v \in Granted
      PROVE  /\ With(p, g, v) \in Partial(Grant, Granted)
             /\ DOMAIN With(p, g, v) = DOMAIN p \cup {g} /\ With(p, g, v)[g] = v
             /\ \A y \in DOMAIN p \ {g} : With(p, g, v)[y] = p[y]
  <2>1. \A D, V : \A q \in Partial(D, V), x \in D, w \in V : With(q, x, w) \in Partial(D, V)
    BY WithIs
  <2>2. With(p, g, v) \in Partial(Grant, Granted)
    BY <2>1, Zenon
  <2>3. /\ DOMAIN With(p, g, v) = DOMAIN p \cup {g} /\ With(p, g, v)[g] = v
        /\ \A y \in DOMAIN p \ {g} : With(p, g, v)[y] = p[y]
    BY DEF With
  <2>4. QED
    BY <2>2, <2>3
<1>5. QED
  BY <1>1, <1>2, <1>3, <1>4 DEF r

LEMMA GrantsIs ==
  ASSUME Typed, FreeGrants # {}, NEW f \in File, NEW text \in Text,
         grant_sql_file(FreeGrant, f, text, text)
  PROVE  Grants(FreeGrant, f, text)
BY FreshAre, OpenedGrant DEF Grants

LEMMA Routes ==
  ASSUME Typed, RouteQueue
  PROVE  /\ routing # Absent /\ routing' = Absent
         /\ UNCHANGED <<storeVars, disk, stored, command, taken, saves>>
         /\ \/ UNCHANGED <<registered, grants, pending, page>>
            \/ \E t \in Tab, g \in Grant, f \in File, text \in Text :
                 LET o == [tab |-> t, grant |-> g, text |-> text, early |-> FALSE]
                 IN /\ Registered(t) /\ Grants(g, f, text)
                    /\ pending' \in Seq(Opening) /\ ToSet(pending') = ToSet(pending) \cup {o}
                    /\ page' = [page EXCEPT !.requested = page.up]
<1> DEFINE stamp == sql_file_stamp(routing.file, routing.text)
<1>1. /\ routing # Absent /\ routing' = Absent
      /\ UNCHANGED <<storeVars, disk, stored, command, taken, saves>>
      /\ IF stamp = Absent THEN UNCHANGED <<registered, grants, pending, page>> ELSE Queue(stamp)
  BY DEF RouteQueue
<1>2. CASE stamp = Absent
  BY <1>1, <1>2
<1>3. CASE stamp # Absent
  <2> DEFINE t == FreeTab
             g == FreeGrant
             o == [tab |-> t, grant |-> g, text |-> routing.text, early |-> FALSE]
  <2>1. Queue(stamp)
    BY <1>1, <1>3
  <2>2. stamp = routing.text /\ routing.file \in File /\ routing.text \in Text
    BY <1>1, <1>3 DEF sql_file_stamp, Typed
  <2> HIDE DEF stamp
  <2>3. /\ FreeTabs # {} /\ FreeGrants # {} /\ registered' = registered \cup {t}
        /\ grant_sql_file(g, routing.file, routing.text, routing.text)
        /\ pending' = Append(pending, o) /\ page' = [page EXCEPT !.requested = page.up]
    BY <2>1, <2>2 DEF Queue
  <2>4. Registered(t) /\ Grants(g, routing.file, routing.text) /\ t \in Tab /\ g \in Grant
    BY <2>2, <2>3, FreshAre, GrantsIs DEF Registered
  <2>5. o \in Opening
    BY <2>2, <2>4 DEF Opening
  <2> HIDE DEF o
  <2>6. pending' \in Seq(Opening) /\ ToSet(pending') = ToSet(pending) \cup {o}
    <3>1. pending \in Seq(Opening)
      BY DEF Typed
    <3>2. Append(pending, o) \in Seq(Opening)
      BY <2>5, <3>1
    <3>3. QED
      BY <2>3, <2>5, <3>1, <3>2, Appended
  <2> HIDE DEF t, g
  <2>7. QED
    BY <1>1, <2>2, <2>3, <2>4, <2>6 DEF o
<1>4. QED
  BY <1>2, <1>3

-----------------------------------------------------------------------------
(* What the steps do: the commands of the page *)

LEMMA Picks ==
  ASSUME Typed, NewFit, PickGrant
  PROVE  /\ UNCHANGED <<storeVars, disk, pending, routing, stored, page, taken, saves>>
         /\ command \in Action /\ command.kind = "open" /\ command.stage = "granting"
         /\ \/ command' = Absent /\ UNCHANGED <<registered, grants>>
            \/ \E t \in Tab, g \in Grant :
                 /\ Registered(t) /\ Grants(g, command.file, command.text)
                 /\ command' \in Action /\ command'.kind = "open" /\ command'.stage = "reply"
                 /\ command'.tab = t /\ command'.grant = g /\ command'.text = command.text
<1> DEFINE stamp == sql_file_stamp(command.file, command.text)
           t == FreeTab
           g == FreeGrant
<1>1. /\ UNCHANGED <<storeVars, disk, pending, routing, stored, page, taken, saves>>
      /\ At({"open"}, "granting")
      /\ IF stamp = Absent
         THEN command' = Absent /\ UNCHANGED <<registered, grants>>
         ELSE /\ FreeTabs # {} /\ FreeGrants # {}
              /\ grant_sql_file(g, command.file, stamp, command.text)
              /\ registered' = registered \cup {t}
              /\ command' = [command EXCEPT !.stage = "reply", !.tab = t, !.grant = g]
  BY DEF PickGrant
<1>2. command \in Action /\ command.kind = "open" /\ command.stage = "granting"
  BY <1>1, Acting DEF At
<1>3. command.file \in File /\ command.text \in Text
  BY <1>1, <1>2 DEF NewFit, Action
<1>4. CASE stamp = Absent
  BY <1>1, <1>2, <1>4
<1>5. CASE stamp # Absent
  <2>1. stamp = command.text
    BY <1>5 DEF sql_file_stamp
  <2> HIDE DEF stamp
  <2>2. /\ FreeTabs # {} /\ FreeGrants # {}
        /\ grant_sql_file(g, command.file, command.text, command.text)
        /\ registered' = registered \cup {t}
        /\ command' = [command EXCEPT !.stage = "reply", !.tab = t, !.grant = g]
    BY <1>1, <1>5, <2>1
  <2>3. Registered(t) /\ Grants(g, command.file, command.text) /\ t \in Tab /\ g \in Grant
    BY <1>3, <2>2, FreshAre, GrantsIs DEF Registered
  <2> HIDE DEF t, g
  <2>4. /\ command' \in Action /\ command'.kind = "open" /\ command'.stage = "reply"
        /\ command'.tab = t /\ command'.grant = g /\ command'.text = command.text
    BY <1>2, <2>2, <2>3 DEF Action
  <2>5. QED
    BY <1>1, <1>2, <2>3, <2>4
<1>6. QED
  BY <1>4, <1>5

LEMMA Restamps ==
  ASSUME Typed, SaveKnows, Restamp
  PROVE  /\ UNCHANGED <<storeVars, disk, registered, pending, routing, stored, page, taken>>
         /\ command \in Action /\ command.kind \in {"save", "save as"} /\ command.stage = "stamp"
         /\ \/ command' = Absent /\ UNCHANGED <<grants, saves>>
            \/ \E g \in Grant :
                 /\ Overtake(g, command.text)
                 /\ command.file \in File /\ command.text \in Text
                 /\ \/ /\ command.kind = "save" /\ g = command.grant /\ g \in DOMAIN grants
                       /\ command.file = grants[g].file
                       /\ grants' \in Partial(Grant, Granted) /\ DOMAIN grants' = DOMAIN grants
                       /\ grants'[g] =
                            [file |-> command.file, stamp |-> command.text, seen |-> command.text]
                       /\ \A h \in DOMAIN grants : h # g => grants'[h] = grants[h]
                    \/ command.kind = "save as" /\ Grants(g, command.file, command.text)
                 /\ command' \in Action /\ command'.kind = command.kind /\ command'.stage = "reply"
                 /\ command'.tab = command.tab /\ command'.grant = g
                 /\ command'.text = command.text /\ command'.file = command.file
<1> DEFINE stamp == sql_file_stamp(command.file, command.text)
           g == IF command.kind = "save" THEN command.grant ELSE FreeGrant
<1>1. /\ UNCHANGED <<storeVars, disk, registered, pending, routing, stored, page, taken>>
      /\ At({"save", "save as"}, "stamp")
      /\ IF stamp = Absent \/ (command.kind = "save" /\ g \notin DOMAIN grants)
         THEN command' = Absent /\ UNCHANGED <<grants, saves>>
         ELSE /\ command.kind = "save as" => FreeGrants # {}
              /\ grant_sql_file(g, command.file, stamp, command.text)
              /\ Overtake(g, command.text)
              /\ command' = [command EXCEPT !.stage = "reply", !.grant = g]
  BY DEF Restamp, resolve_granted
<1>2. command \in Action /\ command.kind \in {"save", "save as"} /\ command.stage = "stamp"
  BY <1>1, Acting DEF At
<1>3. /\ command.file \in File /\ command.text \in Text
      /\ command.kind = "save" => /\ command.grant \in DOMAIN grants
                                  /\ grants[command.grant].file = command.file
  <2>1. Saving /\ command.stage # "check"
    BY <1>1, <1>2 DEF Saving, At
  <2>2. command.kind = "save" => InSave({"compare", "write", "rename", "stamp"})
    BY <1>2, <2>1 DEF InSave
  <2>3. QED
    BY <1>2, <2>1, <2>2 DEF SaveKnows, Action
<1>4. CASE stamp = Absent
  BY <1>1, <1>2, <1>4
<1>5. CASE stamp # Absent
  <2>1. stamp = command.text
    BY <1>5 DEF sql_file_stamp
  <2> HIDE DEF stamp
  <2>2. /\ command.kind = "save as" => FreeGrants # {}
        /\ grant_sql_file(g, command.file, command.text, command.text)
        /\ Overtake(g, command.text)
        /\ command' = [command EXCEPT !.stage = "reply", !.grant = g]
    BY <1>1, <1>3, <1>5, <2>1
  <2>3. g \in Grant
    BY <1>2, <1>3, <2>2, FreshAre, FunFacts
  <2>4. /\ command' \in Action /\ command'.kind = command.kind /\ command'.stage = "reply"
        /\ command'.tab = command.tab /\ command'.grant = g
        /\ command'.text = command.text /\ command'.file = command.file
    <3> HIDE DEF g
    <3>1. QED
      BY <1>2, <2>2, <2>3 DEF Action
  <2>5. \/ /\ command.kind = "save" /\ g = command.grant /\ g \in DOMAIN grants
           /\ command.file = grants[g].file
           /\ grants' \in Partial(Grant, Granted) /\ DOMAIN grants' = DOMAIN grants
           /\ grants'[g] =
                [file |-> command.file, stamp |-> command.text, seen |-> command.text]
           /\ \A h \in DOMAIN grants : h # g => grants'[h] = grants[h]
        \/ command.kind = "save as" /\ Grants(g, command.file, command.text)
    <3>1. CASE command.kind = "save"
      <4>1. g = command.grant /\ g \in DOMAIN grants
        BY <1>3, <3>1
      <4> HIDE DEF g
      <4>2. /\ grants' \in Partial(Grant, Granted)
            /\ DOMAIN grants' = DOMAIN grants \cup {g}
            /\ grants'[g] = [file |-> command.file, stamp |-> command.text, seen |-> command.text]
            /\ \A h \in DOMAIN grants : h # g => grants'[h] = grants[h]
        BY <1>3, <2>2, <2>3, OpenedGrant
      <4>3. DOMAIN grants' = DOMAIN grants
        BY <4>1, <4>2
      <4>4. QED
        BY <1>3, <3>1, <4>1, <4>2, <4>3
    <3>2. CASE command.kind = "save as"
      BY <1>3, <2>2, <3>2, GrantsIs
    <3>3. QED
      BY <1>2, <3>1, <3>2
  <2> HIDE DEF g
  <2>6. QED
    BY <1>1, <1>2, <1>3, <2>2, <2>3, <2>4, <2>5
<1>6. QED
  BY <1>4, <1>5

LEMMA Appends ==
  ASSUME Typed, appendOpenedSqlFiles
  PROVE  /\ UNCHANGED <<storeVars, disk, registered, grants, pending, routing, stored, command>>
         /\ taken # Absent /\ taken' = Absent
         /\ page' \in PageRow /\ page'.up = page.up
         /\ DOMAIN page.tabs \subseteq DOMAIN page'.tabs
         /\ \A t \in DOMAIN page.tabs : page'.tabs[t] = page.tabs[t]
         /\ \A t \in DOMAIN page'.tabs \ DOMAIN page.tabs :
              \E o \in Taken : o.tab = t /\ page'.tabs[t] = OpenedTab(o)
         /\ \/ UNCHANGED saves
            \/ page'.tabs \in Partial(Tab, PageTab) /\ Save("drain", page'.tabs)
<1> DEFINE new == {open \in ToSet(taken) : open.tab \notin DOMAIN page.tabs}
           one(t) == CHOOSE open \in new : open.tab = t
           tabs == [t \in DOMAIN page.tabs \cup {open.tab : open \in new} |->
                      IF t \in DOMAIN page.tabs THEN page.tabs[t] ELSE OpenedTab(one(t))]
<1>1. /\ UNCHANGED <<storeVars, disk, registered, grants, pending, routing, stored, command>>
      /\ taken # Absent /\ taken' = Absent
      /\ IF taken = <<>>
         THEN page' = [page EXCEPT !.draining = FALSE] /\ UNCHANGED saves
         ELSE /\ page' = [page EXCEPT !.tabs = tabs, !.draining = Meets("restore")]
              /\ Save("drain", tabs)
  BY DEF appendOpenedSqlFiles
<1>2. page \in PageRow /\ \A o \in ToSet(taken) : o \in Opening
  BY <1>1, InSeq DEF Typed
<1>3. DOMAIN page.tabs \subseteq Tab /\ \A t \in DOMAIN page.tabs : page.tabs[t] \in PageTab
  BY FunFacts
<1>4. CASE taken = <<>>
  <2>1. page' \in PageRow /\ page'.up = page.up /\ page'.tabs = page.tabs
    <3>1. page' = [page EXCEPT !.draining = FALSE]
      BY <1>1, <1>4
    <3>2. page' \in PageRow
      BY <1>2, <3>1, PageFlags
    <3>3. QED
      BY <1>2, <3>1, <3>2 DEF PageRow
  <2>2. QED
    BY <1>1, <1>4, <2>1
<1>5. CASE taken # <<>>
  <2>1. \A t : t \in {open.tab : open \in new} => one(t) \in new /\ one(t).tab = t
    <3> HIDE DEF new
    <3>1. QED
      BY Zenon
  <2>2. ASSUME NEW t \in DOMAIN tabs
        PROVE  /\ t \in Tab /\ tabs[t] \in PageTab
               /\ t \in DOMAIN page.tabs => tabs[t] = page.tabs[t]
               /\ t \notin DOMAIN page.tabs =>
                    \E o \in Taken : o.tab = t /\ tabs[t] = OpenedTab(o)
    <3>1. CASE t \in DOMAIN page.tabs
      BY <1>3, <3>1
    <3>2. CASE t \notin DOMAIN page.tabs
      <4>1. one(t) \in new /\ one(t).tab = t /\ tabs[t] = OpenedTab(one(t))
        BY <2>1, <2>2, <3>2
      <4> HIDE DEF one
      <4>2. one(t) \in ToSet(taken) /\ one(t) \in Opening
        BY <1>2, <4>1
      <4>3. OpenedTab(one(t)) \in PageTab /\ one(t).tab \in Tab
        BY <4>2 DEF Opening, OpenedTab, PageTab
      <4> HIDE DEF new, tabs
      <4>4. QED
        BY <1>1, <3>2, <4>1, <4>2, <4>3 DEF Taken
    <3>3. QED
      BY <3>1, <3>2
  <2>3. DOMAIN page.tabs \subseteq DOMAIN tabs /\ tabs \in [DOMAIN tabs -> PageTab]
    <3>1. tabs = [t \in DOMAIN tabs |-> tabs[t]]
      OBVIOUS
    <3>2. DOMAIN page.tabs \subseteq DOMAIN tabs
      OBVIOUS
    <3> HIDE DEF tabs
    <3>3. QED
      BY <2>2, <3>1, <3>2
  <2> HIDE DEF tabs, new, one
  <2>4. tabs \in Partial(Tab, PageTab)
    <3>1. DOMAIN tabs \in SUBSET Tab
      BY <2>2
    <3>2. QED
      BY <2>3, <3>1, PartialHas
  <2>5. Meets("restore") \in BOOLEAN
    BY DEF Meets
  <2>6. page' \in PageRow /\ page'.up = page.up /\ page'.tabs = tabs
    <3>1. page' = [page EXCEPT !.tabs = tabs, !.draining = Meets("restore")]
      BY <1>1, <1>5
    <3>2. page' \in PageRow
      BY <1>2, <2>4, <2>5, <3>1, PageTabs
    <3>3. QED
      BY <1>2, <3>1, <3>2 DEF PageRow
  <2>7. QED
    BY <1>1, <1>5, <2>2, <2>3, <2>4, <2>6
<1>6. QED
  BY <1>4, <1>5

LEMMA SavedTabs ==
  ASSUME Typed, SaveKnows, ApplySaved
  PROVE  LET t == command.tab
             tabs == [page.tabs EXCEPT ![t].grant = command.grant, ![t].dirty = FALSE,
                                       ![t].excused = page.tabs[t].text # command.text]
         IN /\ Applied(tabs) /\ tabs \in Partial(Tab, PageTab)
            /\ command \in Action /\ command.kind \in {"save", "save as"} /\ command.stage = "reply"
            /\ t \in DOMAIN page.tabs /\ DOMAIN tabs = DOMAIN page.tabs
            /\ \A u \in DOMAIN page.tabs : u # t => tabs[u] = page.tabs[u]
            /\ tabs[t].grant = command.grant /\ tabs[t].text = page.tabs[t].text
            /\ tabs[t].early = page.tabs[t].early
            /\ tabs[t].excused \/ tabs[t].text = command.text
<1> DEFINE t == command.tab
           tab == [page.tabs[t] EXCEPT !.grant = command.grant, !.dirty = FALSE,
                                       !.excused = page.tabs[t].text # command.text]
           tabs == [page.tabs EXCEPT ![t].grant = command.grant, ![t].dirty = FALSE,
                                     ![t].excused = page.tabs[t].text # command.text]
<1>1. Applied(tabs) /\ At({"save", "save as"}, "reply")
  BY DEF ApplySaved
<1>2. command \in Action /\ command.kind \in {"save", "save as"} /\ command.stage = "reply"
  BY <1>1, Acting DEF At
<1>3. t \in DOMAIN page.tabs
  BY <1>1, <1>2 DEF SaveKnows, Saving, At
<1>4. page.tabs[t] \in PageTab
  BY <1>3, FunFacts
<1>5. page.tabs \in Partial(Tab, PageTab) /\ page.tabs \in [DOMAIN page.tabs -> PageTab]
      /\ DOMAIN page.tabs \in SUBSET Tab
  BY FunFacts, PartialIs
<1>6. /\ DOMAIN tabs = DOMAIN page.tabs
      /\ \A u \in DOMAIN page.tabs : u # t => tabs[u] = page.tabs[u]
      /\ tabs[t] = tab
  BY <1>3, <1>4, <1>5 DEF PageTab
<1>7. tab \in PageTab /\ tab.grant = command.grant /\ tab.text = page.tabs[t].text
      /\ tab.early = page.tabs[t].early /\ (tab.excused \/ tab.text = command.text)
  <2>1. command.grant \in Grant \cup {Absent}
    BY <1>2 DEF Action
  <2> DEFINE ex == page.tabs[t].text # command.text
  <2>2. ex \in BOOLEAN
    OBVIOUS
  <2>3. QED
    BY <1>4, <2>1, <2>2 DEF PageTab
<1> HIDE DEF tab
<1>8. tabs = [u \in DOMAIN page.tabs |-> tabs[u]]
  OBVIOUS
<1> HIDE DEF tabs
<1>9. \A u \in DOMAIN page.tabs : tabs[u] \in PageTab
  BY <1>5, <1>6, <1>7
<1>10. tabs \in [DOMAIN page.tabs -> PageTab]
  BY <1>8, <1>9
<1>11. tabs \in Partial(Tab, PageTab)
  BY <1>5, <1>10, PartialHas
<1>12. QED
  BY <1>1, <1>2, <1>3, <1>6, <1>7, <1>11 DEF tabs

LEMMA Types ==
  ASSUME Typed, NEW u \in Tab, NEW text \in Text, handleEditorChange(u, text)
  PROVE  /\ UNCHANGED <<storeVars, disk, registered, grants, pending, routing, stored, command,
                        taken, saves>>
         /\ page.up /\ u \in DOMAIN page.tabs
         /\ page' \in PageRow /\ page'.up = page.up /\ DOMAIN page'.tabs = DOMAIN page.tabs
         /\ \A t \in DOMAIN page.tabs : t # u => page'.tabs[t] = page.tabs[t]
         /\ page'.tabs[u].text = text /\ page'.tabs[u].dirty /\ ~page'.tabs[u].excused
         /\ page'.tabs[u].grant = page.tabs[u].grant /\ page'.tabs[u].early = page.tabs[u].early
<1> DEFINE tab == [page.tabs[u] EXCEPT !.text = text, !.dirty = TRUE, !.excused = FALSE]
           tabs == [page.tabs EXCEPT ![u] = tab]
<1>1. /\ UNCHANGED <<storeVars, disk, registered, grants, pending, routing, stored, command,
                     taken, saves>>
      /\ page.up /\ u \in DOMAIN page.tabs
  BY DEF handleEditorChange
<1>2. page \in PageRow /\ page.tabs[u] \in PageTab
  BY <1>1, FunFacts DEF Typed
<1>3. page.tabs \in [DOMAIN page.tabs -> PageTab] /\ DOMAIN page.tabs \in SUBSET Tab
  BY FunFacts, PartialIs
<1>4. tab \in PageTab /\ tab.text = text /\ tab.dirty /\ ~tab.excused
      /\ tab.grant = page.tabs[u].grant /\ tab.early = page.tabs[u].early
  BY <1>2 DEF PageTab
<1>5. page' = [page EXCEPT !.timer = Meets("restore"), !.tabs = tabs]
  BY <1>1, <1>2, <1>3 DEF handleEditorChange, PageRow, PageTab
<1> HIDE DEF tab
<1>6. /\ tabs \in [DOMAIN page.tabs -> PageTab] /\ DOMAIN tabs = DOMAIN page.tabs
      /\ tabs[u] = tab /\ \A t \in DOMAIN page.tabs : t # u => tabs[t] = page.tabs[t]
  BY <1>1, <1>3, <1>4
<1> HIDE DEF tabs
<1>7. tabs \in Partial(Tab, PageTab)
  BY <1>3, <1>6, PartialHas
<1>8. Meets("restore") \in BOOLEAN
  BY DEF Meets
<1>9. page' \in PageRow /\ page'.up = page.up /\ page'.tabs = tabs
  BY <1>2, <1>5, <1>7, <1>8 DEF PageRow
<1>10. QED
  BY <1>1, <1>4, <1>6, <1>9

LEMMA Requests ==
  ASSUME Typed, NEW t \in Tab, SaveFile(t)
  PROVE  /\ UNCHANGED <<storeVars, disk, registered, grants, pending, routing, stored, page, taken,
                        saves>>
         /\ page.up /\ command = Absent /\ t \in DOMAIN page.tabs
         /\ command' \in Action /\ command'.stage = "check" /\ command'.tab = t
         /\ command'.text = page.tabs[t].text
         /\ \/ command'.kind = "save" /\ command'.grant = page.tabs[t].grant
               /\ command'.grant # Absent
            \/ command'.kind = "save as"
<1> DEFINE x == page.tabs[t]
<1>1. /\ UNCHANGED <<storeVars, disk, registered, grants, pending, routing, stored, page, taken,
                     saves>>
      /\ page.up /\ command = Absent /\ t \in DOMAIN page.tabs
      /\ \/ /\ x.grant # Absent
            /\ command' = [Doing("save", "check", t) EXCEPT !.grant = x.grant, !.text = x.text]
         \/ command' = [Doing("save as", "check", t) EXCEPT !.text = x.text]
  BY DEF SaveFile, Idle
<1>2. x \in PageTab
  BY <1>1, FunFacts
<1> HIDE DEF x
<1>3. x.grant \in Grant \cup {Absent} /\ x.text \in Text
  BY <1>2 DEF PageTab
<1>4. /\ command' \in Action /\ command'.stage = "check" /\ command'.tab = t
      /\ command'.text = x.text
      /\ \/ command'.kind = "save" /\ command'.grant = x.grant /\ command'.grant # Absent
         \/ command'.kind = "save as"
  BY <1>1, <1>3 DEF Doing, Action
<1>5. QED
  BY <1>1, <1>4 DEF x

LEMMA Starting ==
  ASSUME Typed, Resting, OpenStore
  PROVE  /\ health = "closed"
         /\ opening' # Closed => health' = "closed"
         /\ UNCHANGED <<disk, grants, pending, routing, stored, page, command, taken, saves>>
         /\ registered' \subseteq DOMAIN stored
<1>1. /\ StoreNext \/ OpenFails
      /\ registered' = IF health' = "healthy" THEN DOMAIN stored ELSE {}
      /\ UNCHANGED <<disk, grants, pending, routing, stored, page, command, taken, saves>>
  BY DEF OpenStore
<1>2. ASSUME opening.stage # "closed" PROVE opening # Closed
  BY <1>2 DEF Closed
<1>3. health = "closed"
  <2>1. Connect \/ OpenFails => health = "closed"
    BY DEF Connect, OpenFails
  <2>2. QuickCheck \/ SetAutoVacuum \/ ReadVersion \/ RunStatement \/ CommitVersion \/ OpenPool
          => opening.stage # "closed"
    BY DEF QuickCheck, SetAutoVacuum, ReadVersion, RunStatement, CommitVersion, OpenPool
  <2>3. QED
    BY <1>1, <1>2, <2>1, <2>2 DEF StoreNext, Resting
<1>4. health' = "closed" \/ opening' = Closed
  <2>1. Connect \/ SetAutoVacuum \/ RunStatement \/ CommitVersion => UNCHANGED health
    BY DEF Connect, SetAutoVacuum, RunStatement, CommitVersion
  <2>2. QuickCheck \/ ReadVersion => UNCHANGED health \/ opening' = Closed
    BY DEF QuickCheck, ReadVersion, Report
  <2>3. OpenPool \/ OpenFails => opening' = Closed
    BY DEF OpenPool, OpenFails, Report
  <2>4. QED
    BY <1>1, <1>3, <2>1, <2>2, <2>3 DEF StoreNext
<1>5. QED
  BY <1>1, <1>3, <1>4

LEMMA Creates ==
  ASSUME Typed, create_offline_tab
  PROVE  /\ UNCHANGED <<storeVars, disk, grants, pending, routing, stored, page, taken, saves>>
         /\ page.up /\ command = Absent
         /\ command' \in Action /\ command'.kind = "open" /\ command'.stage = "reply"
         /\ command'.grant = Absent /\ command'.text # Absent
         /\ Registered(command'.tab)
<1> DEFINE t == FreeTab
<1>1. /\ UNCHANGED <<storeVars, disk, grants, pending, routing, stored, page, taken, saves>>
      /\ page.up /\ command = Absent /\ FreeTabs # {}
      /\ registered' = registered \cup {t}
      /\ command' = [Doing("open", "reply", t) EXCEPT !.text = Empty]
  BY DEF create_offline_tab, Idle
<1>2. t \in Tab \ TabsNamed
  BY <1>1, FreshAre
<1> HIDE DEF t
<1>3. Empty \in Text /\ Empty # Absent
  BY LocalFilesAssumption
<1>4. /\ command' \in Action /\ command'.kind = "open" /\ command'.stage = "reply"
      /\ command'.grant = Absent /\ command'.text # Absent /\ command'.tab = t
  BY <1>1, <1>2, <1>3 DEF Doing, Action
<1>5. QED
  BY <1>1, <1>2, <1>4 DEF Registered

(* The tabs of the page, once a reply is applied. *)
Put(tabs) ==
  /\ tabs \in Partial(Tab, PageTab) /\ page' = [page EXCEPT !.tabs = tabs]
  /\ page' \in PageRow /\ page'.up = page.up /\ page'.tabs = tabs
  /\ Save("command", tabs)
  /\ \/ ~Meets("restore") /\ command' = Absent
     \/ Meets("restore") /\ command' \in Action /\ command'.stage = "saving"
        /\ command'.kind = command.kind

LEMMA AppliedDoes ==
  ASSUME Typed, command \in Action, NEW tabs \in Partial(Tab, PageTab), Applied(tabs)
  PROVE  Put(tabs)
<1>1. /\ page' = [page EXCEPT !.tabs = tabs] /\ Save("command", tabs)
      /\ IF Meets("restore") THEN command' = [command EXCEPT !.stage = "saving"]
                             ELSE command' = Absent
  BY DEF Applied, Reach
<1>2. page \in PageRow
  BY DEF Typed
<1>3. page' \in PageRow
  BY <1>1, <1>2, PageTabs
<1>4. page'.up = page.up /\ page'.tabs = tabs
  BY <1>1, <1>2 DEF PageRow
<1>5. [command EXCEPT !.stage = "saving"] \in Action
  BY ActionStages
<1>6. [command EXCEPT !.stage = "saving"].stage = "saving"
      /\ [command EXCEPT !.stage = "saving"].kind = command.kind
  BY DEF Action
<1>7. QED
  BY <1>1, <1>3, <1>4, <1>5, <1>6 DEF Put

ReplyStill == UNCHANGED <<storeVars, disk, registered, grants, pending, routing, stored, taken>>

LEMMA WithTab ==
  ASSUME NEW p \in Partial(Tab, PageTab), NEW v \in PageTab, NEW t \in Tab
  PROVE  /\ With(p, t, v) \in Partial(Tab, PageTab)
         /\ DOMAIN With(p, t, v) = DOMAIN p \cup {t} /\ With(p, t, v)[t] = v
         /\ \A y \in DOMAIN p \ {t} : With(p, t, v)[y] = p[y]
<1>1. \A D, V : \A f \in Partial(D, V), x \in D, w \in V : With(f, x, w) \in Partial(D, V)
  BY WithIs
<1>2. With(p, t, v) \in Partial(Tab, PageTab)
  BY <1>1, Zenon
<1>3. /\ DOMAIN With(p, t, v) = DOMAIN p \cup {t} /\ With(p, t, v)[t] = v
      /\ \A y \in DOMAIN p \ {t} : With(p, t, v)[y] = p[y]
  BY DEF With
<1>4. QED
  BY <1>2, <1>3

LEMMA Opens ==
  ASSUME Typed, NewFit, ApplyOpened
  PROVE  /\ ReplyStill /\ command \in Action /\ command.kind = "open" /\ command.stage = "reply"
         /\ command.tab \in Tab
         /\ \E tabs \in Partial(Tab, PageTab) :
              /\ Put(tabs) /\ DOMAIN tabs = DOMAIN page.tabs \cup {command.tab}
              /\ \A t \in DOMAIN page.tabs : t # command.tab => tabs[t] = page.tabs[t]
              /\ tabs[command.tab] =
                   [grant |-> command.grant, text |-> command.text, dirty |-> FALSE,
                    early |-> FALSE, excused |-> FALSE]
<1> DEFINE x == [grant |-> command.grant, text |-> command.text, dirty |-> FALSE,
                 early |-> FALSE, excused |-> FALSE]
           tabs == With(page.tabs, command.tab, x)
<1>1. ReplyStill /\ At({"open"}, "reply") /\ Applied(tabs)
  BY DEF ApplyOpened, ReplyStill, OpenedTab
<1>2. command \in Action /\ command.kind = "open" /\ command.stage = "reply"
  BY <1>1, Acting DEF At
<1>3. command.tab \in Tab /\ command.text \in Text
  BY <1>1, <1>2 DEF NewFit, Action, Typed
<1>4. x \in PageTab
  BY <1>2, <1>3 DEF Action, PageTab
<1> HIDE DEF x
<1>5. page.tabs \in Partial(Tab, PageTab)
  BY FunFacts
<1>6. /\ tabs \in Partial(Tab, PageTab)
      /\ DOMAIN tabs = DOMAIN page.tabs \cup {command.tab} /\ tabs[command.tab] = x
      /\ \A y \in DOMAIN page.tabs \ {command.tab} : tabs[y] = page.tabs[y]
  BY <1>3, <1>4, <1>5, WithTab
<1> HIDE DEF tabs
<1>7. Put(tabs)
  BY <1>1, <1>2, <1>6, AppliedDoes
<1>8. QED
  BY <1>1, <1>2, <1>3, <1>6, <1>7 DEF x

LEMMA Closes ==
  ASSUME Typed, ApplyClosed
  PROVE  /\ ReplyStill /\ command \in Action /\ command.kind = "close" /\ command.stage = "reply"
         /\ \E tabs \in Partial(Tab, PageTab) :
              /\ Put(tabs) /\ DOMAIN tabs = DOMAIN page.tabs \ {command.tab}
              /\ \A t \in DOMAIN tabs : tabs[t] = page.tabs[t]
<1> DEFINE tabs == [t \in DOMAIN page.tabs \ {command.tab} |-> page.tabs[t]]
<1>1. ReplyStill /\ At({"close"}, "reply") /\ Applied(tabs)
  BY DEF ApplyClosed, ReplyStill, Restrict
<1>2. command \in Action /\ command.kind = "close" /\ command.stage = "reply"
  BY <1>1, Acting DEF At
<1>3. DOMAIN page.tabs \subseteq Tab /\ \A t \in DOMAIN page.tabs : page.tabs[t] \in PageTab
  BY FunFacts
<1>4. tabs \in [DOMAIN tabs -> PageTab] /\ DOMAIN tabs \in SUBSET Tab
      /\ DOMAIN tabs = DOMAIN page.tabs \ {command.tab}
      /\ \A t \in DOMAIN tabs : tabs[t] = page.tabs[t]
  BY <1>3
<1> HIDE DEF tabs
<1>5. tabs \in Partial(Tab, PageTab)
  BY <1>4, PartialHas
<1>6. Put(tabs)
  BY <1>1, <1>2, <1>5, AppliedDoes
<1>7. QED
  BY <1>1, <1>2, <1>4, <1>5, <1>6

LEMMA Marks ==
  ASSUME Typed, SaveKnows, ApplySaved
  PROVE  /\ ReplyStill /\ command \in Action /\ command.kind \in {"save", "save as"}
         /\ command.stage = "reply" /\ command.tab \in DOMAIN page.tabs
         /\ \E tabs \in Partial(Tab, PageTab) :
              /\ Put(tabs) /\ DOMAIN tabs = DOMAIN page.tabs
              /\ \A u \in DOMAIN page.tabs : u # command.tab => tabs[u] = page.tabs[u]
              /\ tabs[command.tab].grant = command.grant
              /\ tabs[command.tab].early = page.tabs[command.tab].early
              /\ tabs[command.tab].excused \/ tabs[command.tab].text = command.text
<1> DEFINE t == command.tab
           tabs == [page.tabs EXCEPT ![t].grant = command.grant, ![t].dirty = FALSE,
                                     ![t].excused = page.tabs[t].text # command.text]
<1>1. /\ Applied(tabs) /\ tabs \in Partial(Tab, PageTab)
      /\ command \in Action /\ command.kind \in {"save", "save as"} /\ command.stage = "reply"
      /\ t \in DOMAIN page.tabs /\ DOMAIN tabs = DOMAIN page.tabs
      /\ \A u \in DOMAIN page.tabs : u # t => tabs[u] = page.tabs[u]
      /\ tabs[t].grant = command.grant
      /\ tabs[t].early = page.tabs[t].early
      /\ tabs[t].excused \/ tabs[t].text = command.text
  BY SavedTabs
<1>2. ReplyStill
  BY DEF ApplySaved, ReplyStill
<1> HIDE DEF tabs
<1>3. Put(tabs)
  BY <1>1, AppliedDoes
<1>4. QED
  BY <1>1, <1>2, <1>3

-----------------------------------------------------------------------------
(* The steps in four kinds, by what they leave alone *)

CommandStep ==
  \/ \E f \in File : PickRead(f)
  \/ \E t \in Tab : SaveFile(t)
  \/ CheckSource \/ CompareStamp \/ ChoosePath \/ WriteTemporary \/ Rename
  \/ \E f \in File, text \in Text \cup {Absent} : OthersWrite(f, text)

AsideStep ==
  \/ \E f \in File : RouteRead(f)
  \/ TimerFires \/ Drain \/ clear_saved_workspace
  \/ \E by \in Caller : save_workspace(by) \/ StoreWorkspace(by)

ReplyStep == ApplyOpened \/ ApplyClosed \/ ApplySaved

LEMMA StepsAre ==
  ASSUME Next
  PROVE  /\ UNCHANGED setting
         /\ \/ CommandStep \/ AsideStep \/ ReplyStep
            \/ OpenStore \/ bootstrap_workspace \/ ApplyBootstrap
            \/ RouteQueue \/ take_pending_sql_files \/ appendOpenedSqlFiles
            \/ PickGrant \/ create_offline_tab \/ \E t \in Tab : close_offline_tab(t)
            \/ Restamp
            \/ \E t \in Tab, text \in Text : handleEditorChange(t, text)
            \/ Die
<1>1. CASE Native
  BY <1>1 DEF Next, Native, CommandStep, AsideStep
<1>2. CASE Page
  BY <1>2 DEF Next, Page, ReplyStep, AsideStep
<1>3. CASE User
  BY <1>3 DEF Next, User, CommandStep, AsideStep
<1>4. CASE Others
  BY <1>4 DEF Next, Others, CommandStep
<1>5. CASE Machine
  BY <1>5 DEF Next, Machine
<1>6. QED
  BY <1>1, <1>2, <1>3, <1>4, <1>5 DEF Next

(* Between its first read and its reply, a command has granted nothing.     *)
Midway ==
  command = Absent \/
  /\ command \in Action /\ command.stage \notin {"reply", "saving"}
  /\ command.stage = "granting" => command.file # Absent /\ command.text # Absent

LEMMA CommandSteps ==
  ASSUME Typed, SaveKnows, CommandStep
  PROVE  /\ UNCHANGED <<storeVars, registered, grants, pending, routing, stored, page, taken, saves>>
         /\ disk' \in [File -> Text \cup {Absent}]
         /\ \/ command' = command
            \/ /\ (command = Absent /\ page.up) \/ (command \in Action /\ command.kind # "open")
               /\ Midway /\ Midway'
<1> DEFINE still == UNCHANGED <<storeVars, registered, grants, pending, routing, stored, page,
                                taken, saves>>
           from == (command = Absent /\ page.up) \/ (command \in Action /\ command.kind # "open")
<1>1. ASSUME NEW f \in File, PickRead(f) PROVE still /\ UNCHANGED disk /\ from /\ Midway /\ Midway'
  <2>1. /\ still /\ UNCHANGED disk /\ page.up /\ command = Absent /\ disk[f] # Absent
        /\ command' = [Doing("open", "granting", Absent) EXCEPT !.file = f, !.text = disk[f]]
    BY <1>1 DEF PickRead, Idle
  <2>2. disk[f] \in Text
    BY <2>1 DEF Typed
  <2>3. /\ command' \in Action /\ command'.stage = "granting"
        /\ command'.file = f /\ command'.text = disk[f]
    BY <2>1, <2>2 DEF Doing, Action
  <2>4. f # Absent
    BY LocalFilesAssumption
  <2>5. QED
    BY <2>1, <2>3, <2>4 DEF Midway
<1>2. ASSUME NEW t \in Tab, SaveFile(t) PROVE still /\ UNCHANGED disk /\ from /\ Midway /\ Midway'
  BY <1>2, Requests DEF Midway
<1>3. ASSUME NEW stages, At({"save", "save as"}, stages) PROVE command \in Action /\ command.kind # "open"
  BY <1>3, Acting DEF At
<1>4. ASSUME CheckSource PROVE still /\ UNCHANGED disk /\ from /\ Midway /\ Midway'
  <2>1. /\ still /\ UNCHANGED disk /\ At({"save"}, "check")
        /\ command' = Absent \/
           /\ command.grant \in DOMAIN grants /\ disk[grants[command.grant].file] # Absent
           /\ command' = [command EXCEPT !.stage = "compare", !.file = grants[command.grant].file,
                           !.expected = grants[command.grant].stamp,
                           !.read = disk[grants[command.grant].file]]
    BY <1>4 DEF CheckSource, resolve_granted
  <2>2. command \in Action /\ command.kind # "open" /\ command.stage = "check"
    BY <1>3, <2>1 DEF At
  <2>3. ASSUME command' # Absent PROVE command' \in Action /\ command'.stage = "compare"
    <3>1. grants[command.grant] \in Granted
      BY <2>1, <2>3, FunFacts
    <3>2. /\ grants[command.grant].file \in File /\ grants[command.grant].stamp \in Text
          /\ disk[grants[command.grant].file] \in Text \cup {Absent}
      BY <3>1 DEF Granted, Typed
    <3>3. QED
      BY <2>1, <2>2, <2>3, <3>2 DEF Action
  <2>4. QED
    BY <2>1, <2>2, <2>3 DEF Midway
<1>5. ASSUME CompareStamp PROVE still /\ UNCHANGED disk /\ from /\ Midway /\ Midway'
  <2>1. /\ still /\ UNCHANGED disk /\ At({"save"}, "compare")
        /\ command' = Absent \/ command' = [command EXCEPT !.stage = "write", !.overwrite = TRUE]
    BY <1>5 DEF CompareStamp
  <2>2. command \in Action /\ command.kind # "open" /\ command.stage = "compare"
    BY <1>3, <2>1 DEF At
  <2>3. [command EXCEPT !.stage = "write", !.overwrite = TRUE] \in Action
        /\ [command EXCEPT !.stage = "write", !.overwrite = TRUE].stage = "write"
    BY <2>2, ActionStages
  <2>4. QED
    BY <2>1, <2>2, <2>3 DEF Midway
<1>6. ASSUME ChoosePath PROVE still /\ UNCHANGED disk /\ from /\ Midway /\ Midway'
  <2>1. /\ still /\ UNCHANGED disk /\ At({"save as"}, "check")
        /\ command' = Absent \/
           \E f \in File : command' = [command EXCEPT !.stage = "write", !.file = f,
                                                      !.overwrite = disk[f] # Absent]
    BY <1>6 DEF ChoosePath
  <2>2. command \in Action /\ command.kind # "open" /\ command.stage = "check"
    BY <1>3, <2>1 DEF At
  <2>3. ASSUME command' # Absent PROVE command' \in Action /\ command'.stage = "write"
    <3>1. PICK f \in File : command' = [command EXCEPT !.stage = "write", !.file = f,
                                                       !.overwrite = disk[f] # Absent]
      BY <2>1, <2>3
    <3> DEFINE over == disk[f] # Absent
    <3>2. over \in BOOLEAN /\ command' = [command EXCEPT !.stage = "write", !.file = f,
                                                         !.overwrite = over]
      BY <3>1
    <3> HIDE DEF over
    <3>3. QED
      BY <2>2, <3>2 DEF Action
  <2>4. QED
    BY <2>1, <2>2, <2>3 DEF Midway
<1>7. ASSUME WriteTemporary PROVE still /\ UNCHANGED disk /\ from /\ Midway /\ Midway'
  <2>1. /\ still /\ UNCHANGED disk /\ At({"save", "save as"}, "write")
        /\ command' = Absent \/ command' = [command EXCEPT !.stage = "rename"]
    BY <1>7 DEF WriteTemporary, Reach
  <2>2. command \in Action /\ command.kind # "open" /\ command.stage = "write"
    BY <1>3, <2>1 DEF At
  <2>3. [command EXCEPT !.stage = "rename"] \in Action
        /\ [command EXCEPT !.stage = "rename"].stage = "rename"
    BY <2>2, ActionStages
  <2>4. QED
    BY <2>1, <2>2, <2>3 DEF Midway
<1>8. ASSUME Rename
      PROVE  still /\ disk' \in [File -> Text \cup {Absent}] /\ from /\ Midway /\ Midway'
  <2>1. /\ still /\ disk' = [disk EXCEPT ![command.file] = command.text]
        /\ At({"save", "save as"}, "rename")
        /\ command' = [command EXCEPT !.stage = "stamp"]
    BY <1>8 DEF Rename, Reach
  <2>2. command \in Action /\ command.kind # "open" /\ command.stage = "rename"
    BY <1>3, <2>1 DEF At
  <2>3. [command EXCEPT !.stage = "stamp"] \in Action
        /\ [command EXCEPT !.stage = "stamp"].stage = "stamp"
    BY <2>2, ActionStages
  <2>4. command.text \in Text \cup {Absent}
    BY <2>2 DEF Action
  <2>5. disk' \in [File -> Text \cup {Absent}]
    BY <2>1, <2>4 DEF Typed
  <2>6. QED
    BY <2>1, <2>2, <2>3, <2>5 DEF Midway
<1>9. ASSUME NEW f \in File, NEW text \in Text \cup {Absent}, OthersWrite(f, text)
      PROVE  /\ still /\ disk' \in [File -> Text \cup {Absent}]
             /\ command' = command \/ (from /\ Midway /\ Midway')
  <2>1. /\ still /\ disk' = [disk EXCEPT ![f] = text]
        /\ \/ command' = command
           \/ /\ command # Absent /\ command.kind = "save"
              /\ command.stage \in {"compare", "write", "rename"}
              /\ command' = [command EXCEPT !.raced = TRUE]
    BY <1>9 DEF OthersWrite
  <2>2. disk' \in [File -> Text \cup {Absent}]
    BY <2>1 DEF Typed
  <2>3. ASSUME command' # command PROVE from /\ Midway /\ Midway'
    <3>1. command \in Action
      BY <2>1, <2>3, Acting
    <3>2. command' \in Action /\ command'.stage = command.stage
      BY <2>1, <2>3, <3>1 DEF Action
    <3>3. QED
      BY <2>1, <2>3, <3>1, <3>2 DEF Midway
  <2>4. QED
    BY <2>1, <2>2, <2>3
<1>10. disk \in [File -> Text \cup {Absent}]
  BY DEF Typed
<1> HIDE DEF still, from
<1>11. still /\ disk' \in [File -> Text \cup {Absent}] /\ (command' = command \/ (from /\ Midway /\ Midway'))
  BY <1>1, <1>2, <1>4, <1>5, <1>6, <1>7, <1>8, <1>9, <1>10 DEF CommandStep
<1>12. QED
  BY <1>11 DEF still, from

LEMMA AsideSteps ==
  ASSUME Typed, Resting, Waiting, Books, AskedFit, AsideStep
  PROVE  /\ UNCHANGED <<storeVars, disk, registered, grants, pending, taken>>
         /\ page' \in PageRow /\ page'.up = page.up /\ page'.tabs = page.tabs
         /\ command' = command \/ (command' = Absent /\ command # Absent /\ command.stage = "saving")
<1>1. ASSUME NEW by \in Caller, Answer(by), saves[by] # Absent
      PROVE  /\ page' \in PageRow /\ page'.up = page.up /\ page'.tabs = page.tabs
             /\ command' = command
                \/ (command' = Absent /\ command # Absent /\ command.stage = "saving")
  BY <1>1, AnswerIs DEF Waiting
<1>2. page \in PageRow
  BY DEF Typed
<1>3. CASE \E f \in File : RouteRead(f)
  BY <1>2, <1>3 DEF RouteRead
<1>4. CASE TimerFires
  <2>1. /\ page' = [page EXCEPT !.timer = FALSE]
        /\ UNCHANGED <<storeVars, disk, registered, grants, pending, taken, command>>
    BY <1>4 DEF TimerFires
  <2>2. page' \in PageRow
    BY <1>2, <2>1, PageFlags
  <2>3. QED
    BY <1>2, <2>1, <2>2 DEF PageRow
<1>5. CASE Drain
  <2>1. /\ page' = [page EXCEPT !.requested = FALSE, !.draining = TRUE]
        /\ UNCHANGED <<storeVars, disk, registered, grants, pending, taken, command>>
    BY <1>5 DEF Drain
  <2>2. page' \in PageRow
    BY <1>2, <2>1, PageFlags
  <2>3. QED
    BY <1>2, <2>1, <2>2 DEF PageRow
<1>6. CASE clear_saved_workspace
  BY <1>2, <1>6 DEF clear_saved_workspace
<1>7. CASE \E by \in Caller : save_workspace(by)
  BY <1>1, <1>2, <1>7, Saves
<1>8. CASE \E by \in Caller : StoreWorkspace(by)
  BY <1>1, <1>2, <1>8, Stores
<1>9. QED
  BY <1>3, <1>4, <1>5, <1>6, <1>7, <1>8 DEF AsideStep

LEMMA ReplySteps ==
  ASSUME Typed, NewFit, SaveKnows, ReplyStep
  PROVE  /\ ReplyStill /\ command \in Action /\ command.stage = "reply"
         /\ \E tabs \in Partial(Tab, PageTab) : Put(tabs)
BY Opens, Closes, Marks DEF ReplyStep

-----------------------------------------------------------------------------
(* Grants are added and replaced, never taken away while the page is up *)

GrantsGrow == DOMAIN grants \subseteq DOMAIN grants' /\ \A g \in DOMAIN grants : grants'[g] = grants[g]

LEMMA GrowingKeeps ==
  ASSUME GrantsGrow, NEW x, GoodFor(x, grants)
  PROVE  GoodFor(x, grants')
BY DEF GrantsGrow, GoodFor

LEMMA GrantsGrows ==
  ASSUME NEW g, NEW f, NEW text, Grants(g, f, text)
  PROVE  GrantsGrow
BY DEF GrantsGrow, Grants

LEMMA NothingShown ==
  ASSUME Typed, Resting, ~page.up
  PROVE  /\ DOMAIN page.tabs = {} /\ taken = Absent /\ \A by \in Caller : saves[by] = Absent
         /\ command = Absent \/ (Booting /\ command \in Bootstrap)
<1>1. page = ClosedPage /\ taken = Absent /\ \A by \in Caller : saves[by] = Absent
  BY DEF Resting
<1>2. DOMAIN page.tabs = {}
  BY <1>1, NoTabsIs DEF ClosedPage
<1>3. command = Absent \/ (Booting /\ command \in Bootstrap)
  BY DEF Resting, Booting, Bootstrap
<1>4. QED
  BY <1>1, <1>2, <1>3

LEMMA FreshIsNew ==
  ASSUME NEW t, Registered(t)
  PROVE  /\ t \in Tab /\ t \notin registered /\ registered' = registered \cup {t}
         /\ t \notin DOMAIN page.tabs /\ t \notin DOMAIN stored
         /\ \A o \in Opened : o.tab # t
         /\ command # Absent => command.tab # t
         /\ \A by \in Caller : saves[by] # Absent => t \notin DOMAIN saves[by].tabs
<1>1. t \in Tab \ TabsNamed /\ registered' = registered \cup {t}
  BY DEF Registered
<1>2. \A o \in Opened : o.tab \in TabsNamed
  BY DEF TabsNamed
<1>3. command # Absent => command.tab \in TabsNamed
  BY DEF TabsNamed, Commanded
<1>4. ASSUME NEW by \in Caller, saves[by] # Absent, NEW u \in DOMAIN saves[by].tabs PROVE u \in TabsNamed
  <2>1. saves[by] \in Calls
    BY <1>4 DEF Calls
  <2>2. DOMAIN saves[by].tabs \in {DOMAIN call.tabs : call \in Calls}
    BY <2>1
  <2>3. u \in UNION {DOMAIN call.tabs : call \in Calls}
    BY <1>4, <2>2
  <2>4. QED
    BY <2>3 DEF TabsNamed
<1>5. registered \subseteq TabsNamed /\ DOMAIN page.tabs \subseteq TabsNamed
      /\ DOMAIN stored \subseteq TabsNamed
  BY DEF TabsNamed
<1>6. QED
  BY <1>1, <1>2, <1>3, <1>4, <1>5

LEMMA FreshIsUngranted ==
  ASSUME NEW g, g \in Grant \ (DOMAIN grants \cup GrantsNamed)
  PROVE  /\ g \notin DOMAIN grants
         /\ \A t \in DOMAIN page.tabs : page.tabs[t].grant # g
         /\ \A o \in Opened : o.grant # g
         /\ command # Absent => command.grant # g
         /\ \A by \in Caller : saves[by] # Absent =>
              \A t \in DOMAIN saves[by].tabs : saves[by].tabs[t].grant # g
<1>1. \A o \in Opened : o.grant \in GrantsNamed
  BY DEF GrantsNamed
<1>2. command # Absent => command.grant \in GrantsNamed
  BY DEF GrantsNamed, Commanded
<1>3. \A t \in DOMAIN page.tabs : page.tabs[t].grant \in GrantsNamed
  BY DEF GrantsNamed
<1>4. ASSUME NEW by \in Caller, saves[by] # Absent, NEW u \in DOMAIN saves[by].tabs
      PROVE  saves[by].tabs[u].grant \in GrantsNamed
  <2>1. saves[by] \in Calls
    BY <1>4 DEF Calls
  <2> DEFINE gs(call) == {call.tabs[t].grant : t \in DOMAIN call.tabs}
  <2>2. saves[by].tabs[u].grant \in gs(saves[by])
    BY <1>4
  <2> HIDE DEF gs
  <2>3. saves[by].tabs[u].grant \in UNION {gs(call) : call \in Calls}
    BY <2>1, <2>2
  <2>4. QED
    BY <2>3 DEF GrantsNamed, gs
<1>5. QED
  BY <1>1, <1>2, <1>3, <1>4

-----------------------------------------------------------------------------
(* The types *)

LEMMA TypedKeeps ==
  ASSUME Typed, Resting, Waiting, Books, Fit, SaveKnows, Next
  PROVE  Typed'
<1> USE DEF Fit
<1>1. /\ UNCHANGED setting /\ Meets("restore") \in BOOLEAN
      /\ page \in PageRow
  BY StepsAre DEF Meets, Typed
<1>2. CASE CommandStep
  <2>1. /\ UNCHANGED <<storeVars, registered, grants, pending, routing, stored, page, taken, saves>>
        /\ disk' \in [File -> Text \cup {Absent}]
        /\ command' = command \/ command' = Absent \/ command' \in Action
    BY <1>2, CommandSteps DEF Midway
  <2>2. QED
    BY <1>1, <2>1 DEF Typed
<1>3. CASE AsideStep
  <2>1. /\ UNCHANGED <<storeVars, disk, registered, grants, pending, taken>>
        /\ page' \in PageRow /\ (command' = command \/ command' = Absent)
    BY <1>3, AsideSteps
  <2>2. /\ routing' \in [file : File, text : Text] \cup {Absent}
        /\ stored' \in Partial(Tab, StoredTab)
        /\ saves' \in [Caller -> Call \cup {Absent}]
    <3>1. CASE \E f \in File : RouteRead(f)
      <4>1. PICK f \in File : RouteRead(f)
        BY <3>1
      <4>2. /\ disk[f] # Absent /\ routing' = [file |-> f, text |-> disk[f]]
            /\ UNCHANGED <<stored, saves>>
        BY <4>1 DEF RouteRead
      <4>3. disk[f] \in Text
        BY <4>2 DEF Typed
      <4>4. QED
        BY <4>2, <4>3 DEF Typed
    <3>2. CASE TimerFires
      <4>1. Save("timer", page.tabs) /\ UNCHANGED <<routing, stored>> /\ "timer" \in Caller
            /\ page.tabs \in Partial(Tab, PageTab)
        BY <3>2, FunFacts DEF TimerFires, Caller
      <4>2. QED
        BY <4>1, Asks DEF Typed
    <3>3. CASE Drain
      BY <3>3 DEF Drain, Typed
    <3>4. CASE clear_saved_workspace
      <4>1. stored' = NoTabs /\ UNCHANGED <<routing, saves>>
        BY <3>4 DEF clear_saved_workspace
      <4>2. QED
        BY <4>1, NoTabsIs DEF Typed
    <3>5. CASE \E by \in Caller : save_workspace(by)
      BY <3>5, Saves DEF Typed
    <3>6. CASE \E by \in Caller : StoreWorkspace(by)
      <4>1. PICK by \in Caller : StoreWorkspace(by)
        BY <3>6
      <4>2. UNCHANGED routing /\ Answer(by) /\ stored' \in Partial(Tab, StoredTab)
        BY <4>1, Stores
      <4>3. QED
        BY <4>2, AnswerIs DEF Typed
    <3>7. QED
      BY <1>3, <3>1, <3>2, <3>3, <3>4, <3>5, <3>6 DEF AsideStep
  <2>3. QED
    BY <1>1, <2>1, <2>2 DEF Typed
<1>4. CASE ReplyStep
  <2>1. ReplyStill /\ \E tabs \in Partial(Tab, PageTab) : Put(tabs)
    BY <1>4, ReplySteps
  <2>2. /\ page' \in PageRow /\ (command' = Absent \/ command' \in Action)
        /\ saves' \in [Caller -> Call \cup {Absent}]
    <3>1. PICK tabs \in Partial(Tab, PageTab) : Put(tabs)
      BY <2>1
    <3>2. "command" \in Caller /\ Save("command", tabs)
      BY <3>1 DEF Caller, Put
    <3>3. saves' \in [Caller -> Call \cup {Absent}]
      BY <3>2, Asks
    <3>4. QED
      BY <3>1, <3>3 DEF Put
  <2>3. QED
    BY <1>1, <2>1, <2>2 DEF Typed, ReplyStill
<1>5. CASE OpenStore
  <2>1. UNCHANGED <<disk, grants, pending, routing, stored, page, command, taken, saves>>
        /\ registered' \subseteq DOMAIN stored
    BY <1>5, Starting
  <2>2. DOMAIN stored \subseteq Tab
    BY FunFacts
  <2>3. QED
    BY <1>1, <2>1, <2>2 DEF Typed
<1>6. CASE bootstrap_workspace
  <2>1. /\ grants' \in Partial(Grant, Granted) /\ registered' \subseteq DOMAIN stored
        /\ command' \in Bootstrap /\ pending' \in Seq(Opening)
    BY <1>6, Recovers
  <2>2. UNCHANGED <<storeVars, disk, routing, stored, page, taken, saves>>
    BY <1>6 DEF bootstrap_workspace
  <2>3. DOMAIN stored \subseteq Tab
    BY FunFacts
  <2>4. QED
    BY <1>1, <2>1, <2>2, <2>3 DEF Typed
<1>7. CASE ApplyBootstrap
  BY <1>1, <1>7, Loads DEF Typed
<1>8. CASE RouteQueue
  <2>1. /\ routing' = Absent
        /\ UNCHANGED <<storeVars, disk, stored, command, taken, saves>>
        /\ \/ UNCHANGED <<registered, grants, pending, page>>
           \/ /\ registered' \subseteq Tab /\ grants' \in Partial(Grant, Granted)
              /\ pending' \in Seq(Opening) /\ page' = [page EXCEPT !.requested = page.up]
    BY <1>8, Routes DEF Registered, Grants, Typed
  <2>2. page.up \in BOOLEAN
    BY <1>1 DEF PageRow
  <2>3. [page EXCEPT !.requested = page.up] \in PageRow
    BY <1>1, <2>2, PageFlags
  <2>4. QED
    BY <1>1, <2>1, <2>3 DEF Typed
<1>9. CASE take_pending_sql_files
  <2>1. /\ taken' = pending /\ pending' = <<>>
        /\ UNCHANGED <<storeVars, disk, registered, grants, routing, stored, page, command, saves>>
    BY <1>9 DEF take_pending_sql_files
  <2>2. pending' \in Seq(Opening)
    BY <2>1
  <2>3. QED
    BY <1>1, <2>1, <2>2 DEF Typed
<1>10. CASE appendOpenedSqlFiles
  <2>1. /\ UNCHANGED <<storeVars, disk, registered, grants, pending, routing, stored, command>>
        /\ taken' = Absent /\ page' \in PageRow
        /\ \/ UNCHANGED saves
           \/ page'.tabs \in Partial(Tab, PageTab) /\ Save("drain", page'.tabs)
    BY <1>10, Appends
  <2>2. saves' \in [Caller -> Call \cup {Absent}]
    <3>1. "drain" \in Caller
      BY DEF Caller
    <3>2. CASE page'.tabs \in Partial(Tab, PageTab) /\ Save("drain", page'.tabs)
      BY <3>1, <3>2, Asks
    <3>3. QED
      BY <2>1, <3>2 DEF Typed
  <2>3. QED
    BY <1>1, <2>1, <2>2 DEF Typed
<1>11. CASE PickGrant
  BY <1>1, <1>11, Picks DEF Typed, Registered, Grants
<1>12. CASE create_offline_tab
  BY <1>1, <1>12, Creates DEF Typed, Registered
<1>13. CASE \E t \in Tab : close_offline_tab(t)
  <2>1. PICK t \in Tab : close_offline_tab(t)
    BY <1>13
  <2>2. /\ registered' = registered \ {t} /\ command' = Doing("close", "reply", t)
        /\ UNCHANGED <<storeVars, disk, grants, pending, routing, stored, page, taken, saves>>
    BY <2>1 DEF close_offline_tab
  <2>3. command' \in Action
    BY <2>2, DoingIs
  <2>4. QED
    BY <1>1, <2>2, <2>3 DEF Typed
<1>14. CASE Restamp
  <2>1. /\ UNCHANGED <<storeVars, disk, registered, pending, routing, stored, page, taken>>
        /\ \/ command' = Absent /\ UNCHANGED <<grants, saves>>
           \/ /\ grants' \in Partial(Grant, Granted) /\ command' \in Action
              /\ \E g \in Grant : Overtake(g, command.text)
    BY <1>14, Restamps DEF Grants
  <2>2. saves' \in [Caller -> Call \cup {Absent}]
    BY <2>1, OvertakeIs DEF Typed
  <2>3. QED
    BY <1>1, <2>1, <2>2 DEF Typed
<1>15. CASE \E t \in Tab, text \in Text : handleEditorChange(t, text)
  BY <1>1, <1>15, Types DEF Typed
<1>16. CASE Die
  <2>1. /\ registered' = {} /\ grants' = NoTabs /\ pending' = <<>> /\ routing' = Absent
        /\ page' = ClosedPage /\ command' = Absent /\ taken' = Absent
        /\ saves' = [by \in Caller |-> Absent] /\ UNCHANGED <<disk, stored>>
    BY <1>16 DEF Die
  <2>2. grants' \in Partial(Grant, Granted) /\ NoTabs \in Partial(Tab, PageTab)
    BY <2>1, NoTabsIs
  <2>3. page' \in PageRow
    BY <2>1, <2>2 DEF ClosedPage, PageRow
  <2>4. pending' \in Seq(Opening) /\ saves' \in [Caller -> Call \cup {Absent}]
    BY <2>1
  <2>5. QED
    BY <1>1, <2>1, <2>2, <2>3, <2>4 DEF Typed
<1>17. QED
  BY <1>2, <1>3, <1>4, <1>5, <1>6, <1>7, <1>8, <1>9, <1>10, <1>11, <1>12, <1>13, <1>14, <1>15,
     <1>16, StepsAre

-----------------------------------------------------------------------------
(* Nothing runs too early *)

LEMMA UpWhenActing ==
  ASSUME Resting, command \in Action
  PROVE  page.up
BY LocalFilesAssumption DEF Resting, Action, Bootstrap

LEMMA StaysUp ==
  ASSUME Resting, Typed', page.up, page'.up, UNCHANGED storeVars, ~Booting'
  PROVE  Resting'
<1>1. health # "closed" /\ health' = health /\ opening' = opening
  BY DEF Resting, storeVars
<1>2. command' \in Action \cup {Absent}
  BY DEF Typed, Booting, Bootstrap
<1>3. QED
  BY <1>1, <1>2 DEF Resting

LEMMA ActionsDoNotBoot ==
  ASSUME command \in Action \cup {Absent}
  PROVE  ~Booting
BY DEF Booting, Action

LEMMA RestingKeeps ==
  ASSUME Typed, Resting, Waiting, Books, Fit, SaveKnows, Next, Typed'
  PROVE  Resting'
<1> USE DEF Fit
<1>1. page.up => command \in Action \cup {Absent} /\ ~Booting
  BY ActionsDoNotBoot DEF Resting
<1>2. command' \in Action \cup {Absent} => ~Booting'
  BY DEF Booting, Action
<1>3. CASE CommandStep
  <2>1. /\ UNCHANGED <<storeVars, registered, grants, pending, routing, stored, page, taken, saves>>
        /\ \/ command' = command
           \/ /\ (command = Absent /\ page.up) \/ command \in Action
              /\ command' \in Action \cup {Absent}
    BY <1>3, CommandSteps DEF Midway
  <2>2. CASE command' = command
    BY <2>1, <2>2 DEF Resting, storeVars
  <2>3. CASE command' # command
    <3>1. page.up /\ command' \in Action \cup {Absent}
      BY <2>1, <2>3, UpWhenActing
    <3>2. QED
      BY <1>2, <2>1, <3>1, StaysUp
  <2>4. QED
    BY <2>2, <2>3
<1>4. CASE AsideStep
  <2>1. /\ UNCHANGED storeVars /\ UNCHANGED <<pending, taken>> /\ page'.up = page.up
        /\ command' = command \/ command' = Absent
    BY <1>4, AsideSteps
  <2>2. CASE page.up
    BY <1>1, <1>2, <2>1, <2>2, StaysUp
  <2>3. CASE ~page.up
    <3>1. page = ClosedPage /\ \A by \in Caller : saves[by] = Absent
      BY <2>3 DEF Resting
    <3>2. ~TimerFires /\ ~Drain /\ ~clear_saved_workspace
      BY <3>1 DEF ClosedPage, TimerFires, Drain, clear_saved_workspace
    <3>3. \A by \in Caller : ~save_workspace(by) /\ ~StoreWorkspace(by)
      BY <3>1 DEF save_workspace, StoreWorkspace
    <3>4. PICK f \in File : RouteRead(f)
      BY <1>4, <3>2, <3>3 DEF AsideStep
    <3>5. health # "closed" /\ UNCHANGED <<pending, stored, page, command, taken, saves>>
      BY <3>4 DEF RouteRead
    <3>6. QED
      BY <2>1, <3>5 DEF Resting, storeVars
  <2>4. QED
    BY <2>2, <2>3
<1>5. CASE ReplyStep
  <2>1. ReplyStill /\ command \in Action /\ \E tabs \in Partial(Tab, PageTab) : Put(tabs)
    BY <1>5, ReplySteps
  <2>2. page.up /\ page'.up /\ command' \in Action \cup {Absent}
    BY <2>1, UpWhenActing DEF Put
  <2>3. QED
    BY <1>2, <2>1, <2>2, StaysUp DEF ReplyStill
<1>6. CASE OpenStore
  <2>1. /\ health = "closed" /\ (opening' # Closed => health' = "closed")
        /\ UNCHANGED <<pending, routing, stored, page, command, taken, saves>>
    BY <1>6, Starting
  <2>2. QED
    BY <2>1 DEF Resting
<1>7. CASE bootstrap_workspace
  <2>1. /\ UNCHANGED <<storeVars, page, taken, saves>>
        /\ ~page.up /\ health # "closed" /\ command' \in Bootstrap
    BY <1>7, Recovers DEF bootstrap_workspace
  <2>2. command' # Absent
    BY <2>1, LocalFilesAssumption
  <2>3. QED
    BY <2>1, <2>2 DEF Resting, storeVars
<1>8. CASE ApplyBootstrap
  <2>1. /\ Booting /\ command' = Absent /\ page'.up /\ UNCHANGED storeVars
    BY <1>8, Loads
  <2>2. QED
    BY <2>1 DEF Resting, Booting, storeVars
<1>9. CASE RouteQueue
  <2>1. /\ routing # Absent /\ UNCHANGED <<storeVars, stored, command, taken, saves>>
        /\ \/ UNCHANGED <<registered, grants, pending, page>>
           \/ /\ page' = [page EXCEPT !.requested = page.up]
              /\ \A o \in ToSet(pending') : o \in ToSet(pending) \/ o.tab \notin DOMAIN stored
    BY <1>9, Routes, FreshIsNew
  <2>2. page'.up = page.up
    BY <2>1 DEF Typed, PageRow
  <2>3. CASE page.up
    BY <1>1, <1>2, <2>1, <2>2, <2>3, StaysUp
  <2>4. CASE ~page.up
    <3>1. page = ClosedPage /\ health # "closed"
      BY <2>1, <2>4 DEF Resting
    <3>2. page' = ClosedPage
      BY <2>1, <3>1 DEF ClosedPage
    <3>3. QED
      BY <2>1, <2>2, <2>4, <3>1, <3>2 DEF Resting, storeVars
  <2>5. QED
    BY <2>3, <2>4
<1>10. CASE take_pending_sql_files
  <2>1. page.draining /\ UNCHANGED <<storeVars, page, command>>
    BY <1>10 DEF take_pending_sql_files
  <2>2. page.up
    BY <2>1 DEF Resting, ClosedPage
  <2>3. QED
    BY <1>1, <1>2, <2>1, <2>2, StaysUp
<1>11. CASE appendOpenedSqlFiles
  <2>1. taken # Absent /\ UNCHANGED <<storeVars, command>> /\ page'.up = page.up
    BY <1>11, Appends
  <2>2. page.up
    BY <2>1 DEF Resting
  <2>3. QED
    BY <1>1, <1>2, <2>1, <2>2, StaysUp
<1>12. CASE PickGrant
  <2>1. UNCHANGED <<storeVars, page>> /\ command \in Action /\ command' \in Action \cup {Absent}
    BY <1>12, Picks
  <2>2. QED
    BY <1>2, <2>1, UpWhenActing, StaysUp
<1>13. CASE create_offline_tab
  <2>1. UNCHANGED <<storeVars, page>> /\ page.up /\ command' \in Action
    BY <1>13, Creates
  <2>2. QED
    BY <1>2, <2>1, StaysUp
<1>14. CASE \E t \in Tab : close_offline_tab(t)
  <2>1. UNCHANGED <<storeVars, page>> /\ page.up /\ command' \in Action
    BY <1>14, DoingIs DEF close_offline_tab, Idle
  <2>2. QED
    BY <1>2, <2>1, StaysUp
<1>15. CASE Restamp
  <2>1. UNCHANGED <<storeVars, page>> /\ command \in Action /\ command' \in Action \cup {Absent}
    BY <1>15, Restamps
  <2>2. QED
    BY <1>2, <2>1, UpWhenActing, StaysUp
<1>16. CASE \E t \in Tab, text \in Text : handleEditorChange(t, text)
  <2>1. UNCHANGED <<storeVars, command>> /\ page.up /\ page'.up
    BY <1>16, Types
  <2>2. QED
    BY <1>1, <1>2, <2>1, StaysUp
<1>17. CASE Die
  <2>1. /\ opening' = Closed /\ pending' = <<>> /\ routing' = Absent
        /\ page' = ClosedPage /\ command' = Absent /\ taken' = Absent
        /\ saves' = [by \in Caller |-> Absent]
    BY <1>17 DEF Die, StoreDies
  <2>2. ~page'.up /\ ToSet(pending') = {}
    BY <2>1 DEF ClosedPage, ToSet
  <2>3. QED
    BY <2>1, <2>2 DEF Resting
<1>18. QED
  BY <1>3, <1>4, <1>5, <1>6, <1>7, <1>8, <1>9, <1>10, <1>11, <1>12, <1>13, <1>14, <1>15,
     <1>16, <1>17, StepsAre

(* Only the end of a command asks for the save of its own, and waits.       *)
LEMMA WaitingKeeps ==
  ASSUME Typed, Resting, Waiting, Books, Fit, SaveKnows, Next, Typed'
  PROVE  Waiting'
<1> USE DEF Fit
<1>1. ASSUME saves'["command"] = saves["command"], command' = command PROVE Waiting'
  BY <1>1 DEF Waiting
<1>2. ASSUME saves'["command"] = saves["command"], command = Absent \/ command.stage # "saving"
      PROVE  Waiting'
  BY <1>2 DEF Waiting
<1>3. "command" \in Caller /\ "timer" \in Caller /\ "drain" \in Caller
  BY DEF Caller
<1>4. CASE CommandStep
  BY <1>1, <1>2, <1>4, CommandSteps DEF Midway
<1>5. CASE AsideStep
  <2>1. ASSUME NEW by \in Caller, Answer(by), saves[by] # Absent PROVE Waiting'
    <3>1. /\ command' = IF by = "command" THEN Absent ELSE command
          /\ saves'["command"] = IF by = "command" THEN Absent ELSE saves["command"]
      BY <1>3, <2>1, AnswerIs
    <3>2. QED
      BY <1>1, <3>1 DEF Waiting
  <2>2. CASE \E f \in File : RouteRead(f)
    BY <1>1, <2>2 DEF RouteRead
  <2>3. CASE TimerFires
    <3>1. Save("timer", page.tabs) /\ UNCHANGED command /\ page.tabs \in Partial(Tab, PageTab)
      BY <2>3, FunFacts DEF TimerFires
    <3>2. saves'["command"] = saves["command"]
      BY <1>3, <3>1, Asks
    <3>3. QED
      BY <1>1, <3>1, <3>2
  <2>4. CASE Drain \/ clear_saved_workspace
    BY <1>1, <2>4 DEF Drain, clear_saved_workspace
  <2>5. CASE \E by \in Caller : save_workspace(by)
    <3>1. PICK by \in Caller : save_workspace(by)
      BY <2>5
    <3>2. /\ saves[by] # Absent /\ (Answer(by) \/ UNCHANGED <<command, page>>)
          /\ by # "command" => saves'["command"] = saves["command"]
      BY <1>3, <3>1, Saves
    <3>3. CASE Answer(by)
      BY <2>1, <3>2, <3>3
    <3>4. CASE UNCHANGED command
      BY <3>2, <3>4 DEF Waiting
    <3>5. QED
      BY <3>2, <3>3, <3>4
  <2>6. CASE \E by \in Caller : StoreWorkspace(by)
    BY <2>1, <2>6, Stores
  <2>7. QED
    BY <1>5, <2>2, <2>3, <2>4, <2>5, <2>6 DEF AsideStep
<1>6. CASE ReplyStep
  <2>1. PICK tabs \in Partial(Tab, PageTab) : Put(tabs)
    BY <1>6, ReplySteps
  <2>2. ~Meets("restore") => saves'["command"] = Absent
    BY <1>3, <2>1, Asks DEF Put
  <2>3. Meets("restore") => command'.stage = "saving" /\ command' # Absent
    BY <2>1, LocalFilesAssumption DEF Put
  <2>4. QED
    BY <2>2, <2>3 DEF Waiting
<1>7. CASE OpenStore
  BY <1>1, <1>7, Starting
<1>8. CASE bootstrap_workspace
  BY <1>2, <1>8, Recovers DEF bootstrap_workspace
<1>9. CASE ApplyBootstrap
  <2>1. ~page.up /\ UNCHANGED saves
    BY <1>9, Loads
  <2>2. QED
    BY <1>3, <2>1 DEF Resting, Waiting
<1>10. CASE RouteQueue
  BY <1>1, <1>10, Routes
<1>11. CASE take_pending_sql_files
  BY <1>1, <1>11 DEF take_pending_sql_files
<1>12. CASE appendOpenedSqlFiles
  <2>1. /\ UNCHANGED command
        /\ \/ UNCHANGED saves
           \/ page'.tabs \in Partial(Tab, PageTab) /\ Save("drain", page'.tabs)
    BY <1>12, Appends
  <2>2. saves'["command"] = saves["command"]
    BY <1>3, <2>1, Asks
  <2>3. QED
    BY <1>1, <2>1, <2>2
<1>13. CASE PickGrant
  BY <1>2, <1>13, Picks
<1>14. CASE create_offline_tab
  BY <1>2, <1>14, Creates
<1>15. CASE \E t \in Tab : close_offline_tab(t)
  BY <1>2, <1>15 DEF close_offline_tab, Idle
<1>16. CASE Restamp
  <2>1. /\ command.stage = "stamp"
        /\ UNCHANGED saves \/ \E g \in Grant : Overtake(g, command.text)
    BY <1>16, Restamps
  <2>2. saves["command"] = Absent
    BY <2>1 DEF Waiting
  <2>3. saves'["command"] = Absent
    BY <1>3, <2>1, <2>2, OvertakeIs DEF Asking
  <2>4. QED
    BY <2>3 DEF Waiting
<1>17. CASE \E t \in Tab, text \in Text : handleEditorChange(t, text)
  BY <1>1, <1>17, Types
<1>18. CASE Die
  BY <1>3, <1>18 DEF Die, Waiting
<1>19. QED
  BY <1>4, <1>5, <1>6, <1>7, <1>8, <1>9, <1>10, <1>11, <1>12, <1>13, <1>14, <1>15, <1>16, <1>17,
     <1>18, StepsAre

-----------------------------------------------------------------------------
(* What is granted, stored and about to be stored *)

LEMMA BooksKeep ==
  ASSUME Typed, Resting, Waiting, Books, Fit, SaveKnows, Next, Typed'
  PROVE  Books'
<1> DEFINE G == \A g \in DOMAIN grants : grants[g].stamp = grants[g].seen
           S == \A t \in DOMAIN stored : Kept(stored[t])
           V == \A by \in Caller : Storing(by) => \A t \in DOMAIN saves[by].tabs : Kept(saves[by].tabs[t])
<1>1. G /\ S /\ V /\ (G' /\ S' /\ V' => Books')
  BY DEF Books
<1>2. ASSUME UNCHANGED grants PROVE G'
  BY <1>1, <1>2
<1>3. ASSUME UNCHANGED stored PROVE S'
  BY <1>1, <1>3
<1>4. ASSUME \A by \in Caller : Storing(by)' =>
               \/ saves'[by] = saves[by] /\ Storing(by)
               \/ \A t \in DOMAIN saves'[by].tabs : Kept(saves'[by].tabs[t])
      PROVE  V'
  BY <1>1, <1>4
<1>5. ASSUME UNCHANGED saves PROVE V'
  BY <1>4, <1>5 DEF Storing
<1>6. ASSUME NEW by \in Caller, NEW tabs \in Partial(Tab, PageTab), Save(by, tabs) PROVE V'
  BY <1>4, <1>6, Asks
<1>7. ASSUME NEW g \in Grant, NEW f \in File, NEW text \in Text, Grants(g, f, text) PROVE G'
  BY <1>1, <1>7 DEF Grants
<1>8. ASSUME NEW by \in Caller, Answer(by) PROVE V'
  BY <1>4, <1>8, AnswerIs DEF Storing
<1> HIDE DEF G, S, V
<1>9. "command" \in Caller /\ "timer" \in Caller /\ "drain" \in Caller
  BY DEF Caller
<1>10. CASE CommandStep
  BY <1>1, <1>2, <1>3, <1>5, <1>10, CommandSteps
<1>11. CASE AsideStep
  <2>1. UNCHANGED grants
    BY <1>11, AsideSteps DEF Fit
  <2>2. CASE (\E f \in File : RouteRead(f)) \/ Drain
    BY <1>1, <1>2, <1>3, <1>5, <2>2 DEF RouteRead, Drain
  <2>3. CASE TimerFires
    <3>1. Save("timer", page.tabs) /\ UNCHANGED stored /\ page.tabs \in Partial(Tab, PageTab)
      BY <2>3, FunFacts DEF TimerFires
    <3>2. QED
      BY <1>1, <1>2, <1>3, <1>6, <1>9, <2>1, <3>1
  <2>4. CASE clear_saved_workspace
    <3>1. stored' = NoTabs /\ UNCHANGED saves
      BY <2>4 DEF clear_saved_workspace
    <3>2. S'
      BY <3>1, NoTabsIs DEF S
    <3>3. QED
      BY <1>1, <1>2, <1>5, <2>1, <3>1, <3>2
  <2>5. CASE \E by \in Caller : save_workspace(by)
    <3>1. UNCHANGED stored /\ V'
      BY <1>4, <2>5, Saves DEF Fit
    <3>2. QED
      BY <1>1, <1>2, <1>3, <2>1, <3>1
  <2>6. CASE \E by \in Caller : StoreWorkspace(by)
    <3>1. S' /\ V'
      BY <1>8, <2>6, Stores DEF S
    <3>2. QED
      BY <1>1, <1>2, <2>1, <3>1
  <2>7. QED
    BY <1>11, <2>2, <2>3, <2>4, <2>5, <2>6 DEF AsideStep
<1>12. CASE ReplyStep
  <2>1. UNCHANGED <<grants, stored>> /\ \E tabs \in Partial(Tab, PageTab) : Save("command", tabs)
    BY <1>12, ReplySteps DEF Fit, ReplyStill, Put
  <2>2. QED
    BY <1>1, <1>2, <1>3, <1>6, <1>9, <2>1
<1>13. CASE OpenStore
  BY <1>1, <1>2, <1>3, <1>5, <1>13, Starting
<1>14. CASE bootstrap_workspace
  <2>1. UNCHANGED <<stored, saves>> /\ G'
    BY <1>14, Recovers DEF bootstrap_workspace, G
  <2>2. QED
    BY <1>1, <1>3, <1>5, <2>1
<1>15. CASE ApplyBootstrap
  BY <1>1, <1>2, <1>3, <1>5, <1>15, Loads
<1>16. CASE RouteQueue
  <2>1. /\ UNCHANGED <<stored, saves>>
        /\ UNCHANGED grants \/ \E g \in Grant, f \in File, text \in Text : Grants(g, f, text)
    BY <1>16, Routes
  <2>2. QED
    BY <1>1, <1>2, <1>3, <1>5, <1>7, <2>1
<1>17. CASE take_pending_sql_files
  BY <1>1, <1>2, <1>3, <1>5, <1>17 DEF take_pending_sql_files
<1>18. CASE appendOpenedSqlFiles
  <2>1. /\ UNCHANGED <<grants, stored>>
        /\ UNCHANGED saves \/ \E tabs \in Partial(Tab, PageTab) : Save("drain", tabs)
    BY <1>18, Appends
  <2>2. QED
    BY <1>1, <1>2, <1>3, <1>5, <1>6, <1>9, <2>1
<1>19. CASE PickGrant
  <2>1. /\ UNCHANGED <<stored, saves>> /\ command \in Action
        /\ UNCHANGED grants \/ \E g \in Grant : Grants(g, command.file, command.text)
    BY <1>19, Picks DEF Fit
  <2>2. UNCHANGED grants \/ \E g \in Grant, f \in File, text \in Text : Grants(g, f, text)
    BY <2>1 DEF Grants
  <2>3. QED
    BY <1>1, <1>2, <1>3, <1>5, <1>7, <2>1, <2>2
<1>20. CASE create_offline_tab
  BY <1>1, <1>2, <1>3, <1>5, <1>20, Creates
<1>21. CASE \E t \in Tab : close_offline_tab(t)
  BY <1>1, <1>2, <1>3, <1>5, <1>21 DEF close_offline_tab
<1>22. CASE Restamp
  <2>1. UNCHANGED stored /\ (UNCHANGED saves \/ \E g \in Grant : Overtake(g, command.text))
    BY <1>22, Restamps
  <2>2. G'
    <3>1. \/ UNCHANGED grants
          \/ \E g \in Grant :
               /\ DOMAIN grants' = DOMAIN grants \cup {g}
               /\ grants'[g] =
                    [file |-> command.file, stamp |-> command.text, seen |-> command.text]
               /\ \A h \in DOMAIN grants : h # g => grants'[h] = grants[h]
      BY <1>22, Restamps DEF Grants
    <3>2. CASE UNCHANGED grants
      BY <1>2, <3>2
    <3>3. ASSUME NEW g \in Grant,
                 /\ DOMAIN grants' = DOMAIN grants \cup {g}
                 /\ grants'[g] =
                      [file |-> command.file, stamp |-> command.text, seen |-> command.text]
                 /\ \A h \in DOMAIN grants : h # g => grants'[h] = grants[h]
          PROVE  G'
      BY <1>1, <3>3 DEF G
    <3>4. QED
      BY <3>1, <3>2, <3>3
  <2>3. V'
    BY <1>4, <1>5, <2>1, OvertakeIs
  <2>4. QED
    BY <1>1, <1>3, <2>1, <2>2, <2>3
<1>23. CASE \E t \in Tab, text \in Text : handleEditorChange(t, text)
  BY <1>1, <1>2, <1>3, <1>5, <1>23, Types
<1>24. CASE Die
  <2>1. grants' = NoTabs /\ UNCHANGED stored /\ saves' = [by \in Caller |-> Absent]
    BY <1>24 DEF Die
  <2>2. G' /\ V'
    BY <2>1, NoTabsIs DEF G, V, Storing
  <2>3. QED
    BY <1>1, <1>3, <2>1, <2>2
<1>25. QED
  BY <1>10, <1>11, <1>12, <1>13, <1>14, <1>15, <1>16, <1>17, <1>18, <1>19, <1>20, <1>21, <1>22,
     <1>23, <1>24, StepsAre

-----------------------------------------------------------------------------
(* The tabs of the page *)

ShownAt(t) ==
  IF page.tabs[t].early THEN t \notin registered
  ELSE (t \in registered \/ Closing(t)) /\ GoodFor(page.tabs[t], grants)

LEMMA ShownFitIs == ShownFit <=> \A t \in DOMAIN page.tabs : ShownAt(t)
BY DEF ShownFit, ShownAt

LEMMA ShownStays ==
  ASSUME NEW t \in DOMAIN page.tabs, ShownAt(t), page'.tabs[t] = page.tabs[t],
         Closing(t) => Closing(t)', t \in registered' <=> t \in registered, GrantsGrow
  PROVE  ShownAt(t)'
BY GrowingKeeps DEF ShownAt

LEMMA Unchanged == ASSUME UNCHANGED grants PROVE GrantsGrow
BY DEF GrantsGrow

LEMMA NotClosing ==
  ASSUME command = Absent \/ command.kind # "close" \/ command.stage # "reply", NEW t
  PROVE  ~Closing(t)
BY DEF Closing, At

LEMMA NoTabsShown ==
  ASSUME Typed, Resting, Typed', Resting', ~page'.up
  PROVE  ShownFit'
<1>1. page' = ClosedPage
  BY DEF Resting
<1>2. DOMAIN page'.tabs = {}
  BY <1>1, NoTabsIs DEF ClosedPage
<1>3. QED
  BY <1>2 DEF ShownFit

LEMMA ShownFitKeeps ==
  ASSUME FilesInv, Next, Typed', Resting'
  PROVE  ShownFit'
<1>1. /\ Typed /\ Resting /\ Waiting /\ Books /\ SaveKnows /\ Sole
      /\ ShownFit /\ OpenedFit /\ BootFit /\ NewFit /\ AskedFit
  BY DEF FilesInv, Fit
<1>2. \A t \in DOMAIN page.tabs : ShownAt(t)
  BY <1>1, ShownFitIs
<1>3. (\A t \in DOMAIN page'.tabs : ShownAt(t)') => ShownFit'
  BY DEF ShownFit, ShownAt
<1>4. ASSUME page'.tabs = page.tabs, UNCHANGED registered, UNCHANGED grants,
             command' = command \/ command = Absent \/ command.stage # "reply"
      PROVE  ShownFit'
  BY <1>2, <1>3, <1>4, ShownStays, Unchanged, NotClosing DEF Closing, At
<1>5. CASE CommandStep
  <2>1. /\ UNCHANGED <<page, registered, grants>>
        /\ command' = command \/ command = Absent \/ command.stage # "reply"
    BY <1>1, <1>5, CommandSteps DEF Midway
  <2>2. QED
    BY <1>4, <2>1
<1>6. CASE AsideStep
  <2>1. /\ page'.tabs = page.tabs /\ UNCHANGED <<registered, grants>>
        /\ command' = command \/ command = Absent \/ command.stage # "reply"
    BY <1>1, <1>6, AsideSteps
  <2>2. QED
    BY <1>4, <2>1
<1>7. CASE ApplyOpened
  <2>1. PICK tabs \in Partial(Tab, PageTab) :
          /\ Put(tabs) /\ DOMAIN tabs = DOMAIN page.tabs \cup {command.tab}
          /\ \A t \in DOMAIN page.tabs : t # command.tab => tabs[t] = page.tabs[t]
          /\ tabs[command.tab] =
               [grant |-> command.grant, text |-> command.text, dirty |-> FALSE,
                early |-> FALSE, excused |-> FALSE]
    BY <1>1, <1>7, Opens
  <2>2. /\ ReplyStill /\ command \in Action /\ command.kind = "open" /\ command.stage = "reply"
        /\ At({"open"}, "reply")
    BY <1>1, <1>7, Opens DEF ApplyOpened
  <2>3. page'.tabs = tabs /\ UNCHANGED <<registered, grants>>
    BY <2>1, <2>2 DEF Put, ReplyStill
  <2>4. ASSUME NEW t \in DOMAIN page'.tabs PROVE ShownAt(t)'
    <3>1. CASE t = command.tab
      <4>1. /\ t \in registered
            /\ command.grant # Absent => /\ command.grant \in DOMAIN grants
                                         /\ command.text = grants[command.grant].seen
        BY <1>1, <2>2, <3>1 DEF NewFit
      <4>2. /\ page'.tabs[t].grant = command.grant /\ page'.tabs[t].text = command.text
            /\ ~page'.tabs[t].early
        BY <2>1, <2>3, <3>1
      <4>3. QED
        BY <2>3, <4>1, <4>2 DEF ShownAt, GoodFor
    <3>2. CASE t # command.tab
      BY <1>2, <2>1, <2>2, <2>3, <3>2, ShownStays, Unchanged, NotClosing
    <3>3. QED
      BY <3>1, <3>2
  <2>5. QED
    BY <1>3, <2>4
<1>8. CASE ApplyClosed
  <2>1. PICK tabs \in Partial(Tab, PageTab) :
          /\ Put(tabs) /\ DOMAIN tabs = DOMAIN page.tabs \ {command.tab}
          /\ \A t \in DOMAIN tabs : tabs[t] = page.tabs[t]
    BY <1>1, <1>8, Closes
  <2>2. ReplyStill /\ page'.tabs = tabs
    BY <1>1, <1>8, <2>1, Closes DEF Put
  <2>3. ASSUME NEW t \in DOMAIN page'.tabs PROVE ShownAt(t)'
    <3>1. ~Closing(t) /\ t \in DOMAIN page.tabs /\ page'.tabs[t] = page.tabs[t]
      BY <2>1, <2>2, <2>3 DEF Closing
    <3>2. QED
      BY <1>2, <2>2, <3>1, ShownStays, Unchanged DEF ReplyStill
  <2>4. QED
    BY <1>3, <2>3
<1>9. CASE ApplySaved
  <2>1. PICK tabs \in Partial(Tab, PageTab) :
          /\ Put(tabs) /\ DOMAIN tabs = DOMAIN page.tabs
          /\ \A u \in DOMAIN page.tabs : u # command.tab => tabs[u] = page.tabs[u]
          /\ tabs[command.tab].grant = command.grant
          /\ tabs[command.tab].early = page.tabs[command.tab].early
          /\ tabs[command.tab].excused \/ tabs[command.tab].text = command.text
    BY <1>1, <1>9, Marks
  <2>2. /\ ReplyStill /\ command \in Action /\ command.kind \in {"save", "save as"}
        /\ command.stage = "reply" /\ command.tab \in DOMAIN page.tabs
    BY <1>1, <1>9, Marks
  <2>3. page'.tabs = tabs /\ UNCHANGED <<registered, grants>>
    BY <2>1, <2>2 DEF Put, ReplyStill
  <2>4. Saving
    BY <2>2, LocalFilesAssumption DEF Saving
  <2>5. ASSUME NEW t \in DOMAIN page'.tabs PROVE ShownAt(t)'
    <3>1. CASE t = command.tab
      <4>1. /\ t \in registered /\ command.grant \in DOMAIN grants
            /\ grants[command.grant].seen = command.text
        BY <1>1, <2>2, <2>4, <3>1 DEF SaveKnows
      <4>2. ~page.tabs[t].early
        BY <1>2, <2>2, <3>1, <4>1 DEF ShownAt
      <4>3. QED
        BY <2>1, <2>3, <3>1, <4>1, <4>2 DEF ShownAt, GoodFor
    <3>2. CASE t # command.tab
      BY <1>2, <2>1, <2>2, <2>3, <2>5, <3>2, ShownStays, Unchanged, NotClosing
    <3>3. QED
      BY <3>1, <3>2
  <2>6. QED
    BY <1>3, <2>5
<1>10. CASE OpenStore
  <2>1. health = "closed" /\ UNCHANGED page
    BY <1>1, <1>10, Starting
  <2>2. QED
    BY <1>1, <2>1, NoTabsShown DEF Resting
<1>11. CASE bootstrap_workspace
  BY <1>1, <1>11, NoTabsShown DEF bootstrap_workspace
<1>12. CASE ApplyBootstrap
  <2>1. /\ Booting /\ page'.tabs = command.tabs /\ UNCHANGED <<registered, grants>>
    BY <1>1, <1>12, Loads
  <2>2. QED
    BY <1>1, <1>3, <2>1 DEF BootFit, ShownAt
<1>13. ASSUME NEW u, Registered(u) PROVE \A t \in DOMAIN page.tabs : t \in registered' <=> t \in registered
  BY <1>13, FreshIsNew
<1>14. CASE RouteQueue
  <2>1. /\ UNCHANGED command
        /\ \/ UNCHANGED <<registered, grants, pending, page>>
           \/ /\ \E u \in Tab : Registered(u)
              /\ GrantsGrow /\ page' = [page EXCEPT !.requested = page.up]
    BY <1>1, <1>14, Routes, GrantsGrows
  <2>2. page'.tabs = page.tabs
    BY <1>1, <2>1 DEF Typed, PageRow
  <2>3. \A t : Closing(t) => Closing(t)'
    BY <2>1 DEF Closing, At
  <2>4. QED
    BY <1>2, <1>3, <1>13, <2>1, <2>2, <2>3, ShownStays, Unchanged
<1>15. CASE take_pending_sql_files
  BY <1>4, <1>15 DEF take_pending_sql_files
<1>16. CASE appendOpenedSqlFiles
  <2>1. /\ UNCHANGED <<registered, grants, command>>
        /\ \A t \in DOMAIN page.tabs : page'.tabs[t] = page.tabs[t]
        /\ \A t \in DOMAIN page'.tabs \ DOMAIN page.tabs :
             \E o \in Taken : o.tab = t /\ page'.tabs[t] = OpenedTab(o)
    BY <1>1, <1>16, Appends
  <2>2. ASSUME NEW t \in DOMAIN page'.tabs, t \notin DOMAIN page.tabs PROVE ShownAt(t)'
    <3>1. PICK o \in Taken : o.tab = t /\ page'.tabs[t] = OpenedTab(o)
      BY <2>1, <2>2
    <3>2. IF o.early THEN t \notin registered
          ELSE t \in registered /\ o.grant \in DOMAIN grants /\ o.text = grants[o.grant].seen
      BY <1>1, <3>1 DEF OpenedFit, Opened, Taken
    <3>3. /\ page'.tabs[t].early = o.early /\ page'.tabs[t].grant = o.grant
          /\ page'.tabs[t].text = o.text
      BY <3>1 DEF OpenedTab
    <3>4. QED
      BY <2>1, <3>2, <3>3 DEF ShownAt, GoodFor
  <2>3. \A t : Closing(t) => Closing(t)'
    BY <2>1 DEF Closing, At
  <2>4. QED
    BY <1>2, <1>3, <2>1, <2>2, <2>3, ShownStays, Unchanged
<1>17. CASE PickGrant
  <2>1. /\ UNCHANGED page /\ command.kind = "open"
        /\ \/ UNCHANGED <<registered, grants>>
           \/ (\E u \in Tab : Registered(u)) /\ GrantsGrow
    BY <1>1, <1>17, Picks, GrantsGrows
  <2>2. QED
    BY <1>2, <1>3, <1>13, <2>1, ShownStays, Unchanged, NotClosing
<1>18. CASE create_offline_tab
  <2>1. UNCHANGED <<page, grants>> /\ command = Absent /\ Registered(command'.tab)
    BY <1>1, <1>18, Creates
  <2>2. QED
    BY <1>2, <1>3, <1>13, <2>1, ShownStays, Unchanged, NotClosing
<1>19. CASE \E t \in Tab : close_offline_tab(t)
  <2>1. PICK u \in Tab : close_offline_tab(u)
    BY <1>19
  <2>2. /\ UNCHANGED <<page, grants>> /\ command = Absent /\ u \in registered
        /\ registered' = registered \ {u} /\ command' = Doing("close", "reply", u)
    BY <2>1 DEF close_offline_tab, Idle, authorize_tab
  <2>3. Closing(u)'
    <3>1. command' \in Action
      BY <2>2, DoingIs
    <3>2. command' # Absent
      BY <3>1, LocalFilesAssumption
    <3>3. QED
      BY <2>2, <3>2 DEF Closing, At, Doing
  <2>4. ASSUME NEW t \in DOMAIN page'.tabs PROVE ShownAt(t)'
    <3>1. CASE t = u
      BY <1>2, <2>2, <2>3, <2>4, <3>1 DEF ShownAt
    <3>2. CASE t # u
      BY <1>2, <2>2, <2>4, <3>2, ShownStays, Unchanged, NotClosing
    <3>3. QED
      BY <3>1, <3>2
  <2>5. QED
    BY <1>3, <2>4
<1>20. CASE Restamp
  <2>1. /\ UNCHANGED <<page, registered>> /\ command \in Action
        /\ command.kind \in {"save", "save as"} /\ command.stage = "stamp"
        /\ UNCHANGED grants \/ GrantsGrow \/
           \E g \in Grant :
             /\ command.kind = "save" /\ g = command.grant /\ DOMAIN grants' = DOMAIN grants
             /\ grants'[g] =
                  [file |-> command.file, stamp |-> command.text, seen |-> command.text]
             /\ \A h \in DOMAIN grants : h # g => grants'[h] = grants[h]
    BY <1>1, <1>20, Restamps, GrantsGrows
  <2>2. CASE GrantsGrow
    BY <1>2, <1>3, <2>1, <2>2, ShownStays, NotClosing
  <2>3. ASSUME NEW g \in Grant,
               command.kind = "save" /\ g = command.grant /\ DOMAIN grants' = DOMAIN grants,
               grants'[g] =
                 [file |-> command.file, stamp |-> command.text, seen |-> command.text],
               \A h \in DOMAIN grants : h # g => grants'[h] = grants[h]
        PROVE  ShownFit'
    <3>1. /\ command.tab \in DOMAIN page.tabs /\ command.tab \in registered
          /\ page.tabs[command.tab].grant = g
          /\ page.tabs[command.tab].text = command.text \/ page.tabs[command.tab].dirty
      <4>1. Saving
        BY <2>1, LocalFilesAssumption DEF Saving
      <4>2. QED
        BY <1>1, <2>1, <2>3, <4>1 DEF SaveKnows
    <3>2. ~page.tabs[command.tab].early
      BY <1>2, <3>1 DEF ShownAt
    <3>3. Holds(command.tab, g)
      BY <3>1, <3>2 DEF Holds
    <3>4. ASSUME NEW t \in DOMAIN page.tabs PROVE ShownAt(t)'
      <4>1. CASE page.tabs[t].early
        BY <1>2, <2>1, <4>1 DEF ShownAt
      <4>2. CASE ~page.tabs[t].early /\ page.tabs[t].grant # g
        <5>1. GoodFor(page.tabs[t], grants) /\ (t \in registered \/ Closing(t))
          BY <1>2, <4>2 DEF ShownAt
        <5>2. ~Closing(t)
          BY <2>1, NotClosing
        <5>3. GoodFor(page.tabs[t], grants')
          BY <2>3, <4>2, <5>1 DEF GoodFor
        <5>4. QED
          BY <2>1, <4>2, <5>1, <5>2, <5>3 DEF ShownAt
      <4>3. CASE ~page.tabs[t].early /\ page.tabs[t].grant = g
        <5>1. Holds(t, g)
          BY <4>3 DEF Holds
        <5>2. t = command.tab
          BY <1>1, <3>1, <3>3, <5>1, FunFacts DEF Sole
        <5>3. GoodFor(page.tabs[t], grants')
          <6>1. GoodFor(page.tabs[t], grants)
            BY <1>2, <4>3 DEF ShownAt
          <6>2. g \in DOMAIN grants' \/ g = Absent
            BY <2>3, <4>3, <6>1 DEF GoodFor
          <6>3. grants'[g].seen = command.text
            BY <2>3
          <6>4. QED
            BY <3>1, <4>3, <5>2, <6>2, <6>3 DEF GoodFor
        <5>4. QED
          BY <2>1, <3>1, <4>3, <5>2, <5>3 DEF ShownAt
      <4>4. QED
        BY <4>1, <4>2, <4>3
    <3>5. QED
      BY <1>3, <2>1, <3>4
  <2>4. QED
    BY <2>1, <2>2, <2>3, Unchanged
<1>21. CASE \E t \in Tab, text \in Text : handleEditorChange(t, text)
  <2>1. PICK u \in Tab, text \in Text : handleEditorChange(u, text)
    BY <1>21
  <2>2. /\ UNCHANGED <<registered, grants, command>> /\ DOMAIN page'.tabs = DOMAIN page.tabs
        /\ u \in DOMAIN page.tabs
        /\ \A t \in DOMAIN page.tabs : t # u => page'.tabs[t] = page.tabs[t]
        /\ page'.tabs[u].dirty
        /\ page'.tabs[u].grant = page.tabs[u].grant /\ page'.tabs[u].early = page.tabs[u].early
    BY <1>1, <2>1, Types
  <2>3. \A t : Closing(t) <=> Closing(t)'
    BY <2>2 DEF Closing, At
  <2>4. ShownAt(u)'
    BY <1>2, <2>2, <2>3 DEF ShownAt, GoodFor
  <2>5. QED
    BY <1>2, <1>3, <2>2, <2>3, <2>4, ShownStays, Unchanged
<1>22. CASE Die
  <2>1. page' = ClosedPage
    BY <1>22 DEF Die
  <2>2. QED
    BY <1>1, <2>1, NoTabsShown DEF ClosedPage
<1>23. QED
  BY <1>5, <1>6, <1>7, <1>8, <1>9, <1>10, <1>11, <1>12, <1>14, <1>15, <1>16, <1>17, <1>18, <1>19,
     <1>20, <1>21, <1>22, StepsAre DEF ReplyStep

-----------------------------------------------------------------------------
(* The files routed and not yet shown *)

OpenedAt(o) ==
  IF o.early THEN o.tab \notin registered
  ELSE o.tab \in registered /\ o.grant \in DOMAIN grants /\ o.text = grants[o.grant].seen

LEMMA OpenedStays ==
  ASSUME NEW o, OpenedAt(o), o.tab \in registered' <=> o.tab \in registered, GrantsGrow
  PROVE  OpenedAt(o)'
BY DEF OpenedAt, GrantsGrow

LEMMA OpenedIs == taken = Absent => Opened = ToSet(pending)
BY DEF Opened

LEMMA SavedFrom ==
  ASSUME Typed, SaveKnows, command \in Action, command.kind \in {"save", "save as"},
         command.stage = "stamp"
  PROVE  /\ command.tab \in DOMAIN page.tabs /\ command.tab \in registered
         /\ command.kind = "save" => page.tabs[command.tab].grant = command.grant
         /\ page.tabs[command.tab].text = command.text \/ page.tabs[command.tab].dirty
<1>1. Saving
  BY LocalFilesAssumption DEF Saving
<1>2. QED
  BY <1>1 DEF SaveKnows

LEMMA OpenedFitKeeps ==
  ASSUME FilesInv, Next, Typed', Resting'
  PROVE  OpenedFit'
<1>1. /\ Typed /\ Resting /\ Waiting /\ Books /\ SaveKnows /\ Sole /\ Apart
      /\ ShownFit /\ OpenedFit /\ BootFit /\ NewFit /\ AskedFit
  BY DEF FilesInv, Fit
<1>2. /\ \A o \in Opened : OpenedAt(o)
      /\ (\A o \in Opened' : OpenedAt(o)') => OpenedFit'
  BY <1>1 DEF OpenedFit, OpenedAt
<1>3. ASSUME UNCHANGED <<registered, grants>>, Opened' \subseteq Opened
      PROVE  OpenedFit'
  BY <1>2, <1>3, OpenedStays, Unchanged
<1>4. ASSUME UNCHANGED <<pending, taken>> PROVE Opened' = Opened
  BY <1>4 DEF Opened
<1>5. ASSUME NEW u, Registered(u), UNCHANGED <<pending, taken>>, GrantsGrow
      PROVE  OpenedFit'
  <2>1. \A o \in Opened : o.tab \in registered' <=> o.tab \in registered
    BY <1>5, FreshIsNew
  <2>2. QED
    BY <1>2, <1>4, <1>5, <2>1, OpenedStays
<1>6. ASSUME pending' = <<>>, taken' = Absent PROVE OpenedFit'
  <2>1. Opened' = {}
    BY <1>6 DEF Opened, ToSet
  <2>2. QED
    BY <1>2, <2>1
<1>7. CASE CommandStep
  BY <1>1, <1>3, <1>4, <1>7, CommandSteps
<1>8. CASE AsideStep
  BY <1>1, <1>3, <1>4, <1>8, AsideSteps
<1>9. CASE ReplyStep
  BY <1>1, <1>3, <1>4, <1>9, ReplySteps DEF ReplyStill
<1>10. CASE OpenStore
  <2>1. health = "closed" /\ UNCHANGED <<pending, taken>>
    BY <1>1, <1>10, Starting
  <2>2. QED
    BY <1>1, <1>6, <2>1 DEF Resting
<1>11. CASE bootstrap_workspace
  <2>1. /\ ~page.up /\ command = Absent /\ UNCHANGED taken /\ registered' \subseteq DOMAIN stored
        /\ \A o \in ToSet(pending') : o.early /\ \E q \in ToSet(pending) : o.tab = q.tab
    BY <1>1, <1>11, Recovers DEF bootstrap_workspace
  <2>2. taken' = Absent /\ \A q \in ToSet(pending) : q.tab \notin DOMAIN stored
    BY <1>1, <2>1 DEF Resting
  <2>3. Opened' = ToSet(pending')
    BY <2>2 DEF Opened
  <2>4. QED
    BY <1>2, <2>1, <2>2, <2>3 DEF OpenedAt
<1>12. CASE ApplyBootstrap
  BY <1>1, <1>3, <1>4, <1>12, Loads
<1>13. CASE RouteQueue
  <2>1. UNCHANGED taken
    BY <1>1, <1>13, Routes
  <2>2. CASE UNCHANGED <<registered, grants, pending, page>>
    BY <1>3, <1>4, <2>1, <2>2
  <2>3. ASSUME NEW t \in Tab, NEW g \in Grant, NEW f \in File, NEW text \in Text,
               Registered(t), Grants(g, f, text),
               ToSet(pending') = ToSet(pending) \cup
                 {[tab |-> t, grant |-> g, text |-> text, early |-> FALSE]}
        PROVE  OpenedFit'
    <3> DEFINE o == [tab |-> t, grant |-> g, text |-> text, early |-> FALSE]
    <3>1. Opened' = Opened \cup {o}
      BY <2>1, <2>3 DEF Opened
    <3>2. OpenedAt(o)'
      BY <2>3 DEF OpenedAt, Registered, Grants
    <3>3. \A q \in Opened : q.tab \in registered' <=> q.tab \in registered
      BY <2>3, FreshIsNew
    <3> HIDE DEF o
    <3>4. QED
      BY <1>2, <2>3, <3>1, <3>2, <3>3, GrantsGrows, OpenedStays
  <2>4. QED
    BY <1>1, <1>13, <2>2, <2>3, Routes
<1>14. CASE take_pending_sql_files
  <2>1. taken = Absent /\ taken' = pending /\ pending' = <<>> /\ UNCHANGED <<registered, grants>>
    BY <1>14 DEF take_pending_sql_files
  <2>2. Opened' \subseteq Opened
    BY <2>1 DEF Opened, ToSet
  <2>3. QED
    BY <1>3, <2>1, <2>2
<1>15. CASE appendOpenedSqlFiles
  <2>1. taken' = Absent /\ UNCHANGED <<pending, registered, grants>>
    BY <1>1, <1>15, Appends
  <2>2. Opened' \subseteq Opened
    BY <2>1 DEF Opened
  <2>3. QED
    BY <1>3, <2>1, <2>2
<1>16. CASE PickGrant
  <2>1. /\ UNCHANGED <<pending, taken>>
        /\ UNCHANGED <<registered, grants>> \/ \E u \in Tab : Registered(u) /\ GrantsGrow
    BY <1>1, <1>16, Picks, GrantsGrows
  <2>2. QED
    BY <1>3, <1>4, <1>5, <2>1
<1>17. CASE create_offline_tab
  BY <1>1, <1>5, <1>17, Creates, Unchanged
<1>18. CASE \E t \in Tab : close_offline_tab(t)
  <2>1. PICK u \in Tab : close_offline_tab(u)
    BY <1>18
  <2>2. /\ UNCHANGED <<pending, taken, grants>> /\ u \in DOMAIN page.tabs
        /\ registered' = registered \ {u}
    BY <2>1 DEF close_offline_tab
  <2>3. ASSUME NEW o \in Opened PROVE OpenedAt(o)'
    <3>1. CASE o.early
      BY <1>2, <2>2, <3>1 DEF OpenedAt
    <3>2. CASE ~o.early
      <4>1. o.tab # u
        BY <1>1, <2>2, <3>2 DEF Apart
      <4>2. QED
        BY <1>2, <2>2, <4>1, OpenedStays, Unchanged
    <3>3. QED
      BY <3>1, <3>2
  <2>4. QED
    BY <1>2, <1>4, <2>2, <2>3
<1>19. CASE Restamp
  <2>1. /\ UNCHANGED <<pending, taken, registered>> /\ command \in Action
        /\ command.kind \in {"save", "save as"} /\ command.stage = "stamp"
        /\ UNCHANGED grants \/ GrantsGrow \/
           \E g \in Grant :
             /\ command.kind = "save" /\ g = command.grant /\ DOMAIN grants' = DOMAIN grants
             /\ \A h \in DOMAIN grants : h # g => grants'[h] = grants[h]
    BY <1>1, <1>19, Restamps, GrantsGrows
  <2>2. CASE GrantsGrow
    BY <1>2, <1>4, <2>1, <2>2, OpenedStays
  <2>3. ASSUME NEW g \in Grant,
               command.kind = "save" /\ g = command.grant /\ DOMAIN grants' = DOMAIN grants,
               \A h \in DOMAIN grants : h # g => grants'[h] = grants[h]
        PROVE  OpenedFit'
    <3>1. /\ command.tab \in DOMAIN page.tabs /\ command.tab \in registered
          /\ page.tabs[command.tab].grant = g
      BY <1>1, <2>1, <2>3, SavedFrom
    <3>2. Holds(command.tab, g)
      BY <1>1, <3>1 DEF Holds, ShownFit
    <3>3. ASSUME NEW o \in Opened PROVE OpenedAt(o)'
      <4>1. CASE o.early
        BY <1>2, <2>1, <4>1 DEF OpenedAt
      <4>2. CASE ~o.early
        <5>1. o.tab \notin DOMAIN page.tabs
          BY <1>1, <4>2 DEF Apart
        <5>2. o.tab \in Tab
          BY <1>1, FunFacts DEF Opening
        <5>3. o.grant = g => Holds(o.tab, g)
          BY <4>2 DEF Holds
        <5>4. o.grant # g
          BY <1>1, <3>1, <3>2, <5>1, <5>2, <5>3, FunFacts DEF Sole
        <5>5. QED
          BY <1>2, <2>1, <2>3, <4>2, <5>4 DEF OpenedAt
      <4>3. QED
        BY <4>1, <4>2
    <3>4. QED
      BY <1>2, <1>4, <2>1, <3>3
  <2>4. QED
    BY <2>1, <2>2, <2>3, Unchanged
<1>20. CASE \E t \in Tab, text \in Text : handleEditorChange(t, text)
  BY <1>1, <1>3, <1>4, <1>20, Types
<1>21. CASE Die
  BY <1>6, <1>21 DEF Die
<1>22. QED
  BY <1>7, <1>8, <1>9, <1>10, <1>11, <1>12, <1>13, <1>14, <1>15, <1>16, <1>17, <1>18, <1>19,
     <1>20, <1>21, StepsAre

-----------------------------------------------------------------------------
(* The reply of the bootstrap, and the file that is being opened *)

LEMMA BootFitKeeps ==
  ASSUME FilesInv, Next, Typed', Resting'
  PROVE  BootFit'
<1>1. /\ Typed /\ Resting /\ Waiting /\ Books /\ SaveKnows
      /\ ShownFit /\ OpenedFit /\ BootFit /\ NewFit /\ AskedFit
  BY DEF FilesInv, Fit
<1>2. ASSUME command' \in Action \cup {Absent} PROVE BootFit'
  BY <1>2 DEF BootFit, Booting, Action
<1>3. ASSUME UNCHANGED command, registered \subseteq registered', GrantsGrow PROVE BootFit'
  BY <1>1, <1>3, GrowingKeeps DEF BootFit, Booting
<1>4. ASSUME UNCHANGED <<command, registered, grants>> PROVE BootFit'
  BY <1>3, <1>4, Unchanged
<1>5. CASE CommandStep
  BY <1>1, <1>2, <1>4, <1>5, CommandSteps DEF Midway
<1>6. CASE AsideStep
  BY <1>1, <1>2, <1>4, <1>6, AsideSteps
<1>7. CASE ReplyStep
  BY <1>1, <1>2, <1>7, ReplySteps DEF Put
<1>8. CASE OpenStore
  BY <1>1, <1>2, <1>8, Starting DEF Resting
<1>9. CASE bootstrap_workspace
  BY <1>1, <1>9, Recovers DEF BootFit
<1>10. CASE ApplyBootstrap
  BY <1>1, <1>2, <1>10, Loads
<1>11. CASE RouteQueue
  <2>1. /\ UNCHANGED command
        /\ UNCHANGED <<registered, grants>> \/ (registered \subseteq registered' /\ GrantsGrow)
    BY <1>1, <1>11, Routes, GrantsGrows DEF Registered
  <2>2. QED
    BY <1>3, <1>4, <2>1
<1>12. CASE take_pending_sql_files
  BY <1>4, <1>12 DEF take_pending_sql_files
<1>13. CASE appendOpenedSqlFiles
  BY <1>1, <1>4, <1>13, Appends
<1>14. CASE PickGrant
  BY <1>1, <1>2, <1>14, Picks
<1>15. CASE create_offline_tab
  BY <1>1, <1>2, <1>15, Creates
<1>16. CASE \E t \in Tab : close_offline_tab(t)
  BY <1>2, <1>16, DoingIs DEF close_offline_tab
<1>17. CASE Restamp
  BY <1>1, <1>2, <1>17, Restamps
<1>18. CASE \E t \in Tab, text \in Text : handleEditorChange(t, text)
  BY <1>1, <1>4, <1>18, Types
<1>19. CASE Die
  BY <1>2, <1>19 DEF Die
<1>20. QED
  BY <1>5, <1>6, <1>7, <1>8, <1>9, <1>10, <1>11, <1>12, <1>13, <1>14, <1>15, <1>16, <1>17, <1>18,
     <1>19, StepsAre

LEMMA NewFitKeeps ==
  ASSUME FilesInv, Next, Typed', Resting'
  PROVE  NewFit'
<1>1. /\ Typed /\ Resting /\ Waiting /\ Books /\ SaveKnows
      /\ ShownFit /\ OpenedFit /\ BootFit /\ NewFit /\ AskedFit
  BY DEF FilesInv, Fit
<1>2. ASSUME command' = Absent \/ command'.kind # "open" \/ command'.stage \notin {"granting", "reply"}
      PROVE  NewFit'
  BY <1>2 DEF NewFit, At
<1>3. ASSUME UNCHANGED command, registered \subseteq registered', GrantsGrow PROVE NewFit'
  BY <1>1, <1>3 DEF NewFit, At, GrantsGrow
<1>4. ASSUME UNCHANGED <<command, registered, grants>> PROVE NewFit'
  BY <1>3, <1>4, Unchanged
<1>5. CASE CommandStep
  <2>1. /\ UNCHANGED <<registered, grants>>
        /\ command' = command \/ Midway'
    BY <1>1, <1>5, CommandSteps
  <2>2. Midway' => NewFit'
    BY DEF Midway, NewFit, At
  <2>3. QED
    BY <1>4, <2>1, <2>2
<1>6. CASE AsideStep
  BY <1>1, <1>2, <1>4, <1>6, AsideSteps
<1>7. CASE ReplyStep
  BY <1>1, <1>2, <1>7, ReplySteps DEF Put
<1>8. CASE OpenStore
  BY <1>1, <1>2, <1>8, Starting DEF Resting
<1>9. CASE bootstrap_workspace
  BY <1>1, <1>2, <1>9, Recovers DEF Bootstrap
<1>10. CASE ApplyBootstrap
  BY <1>1, <1>2, <1>10, Loads
<1>11. CASE RouteQueue
  <2>1. /\ UNCHANGED command
        /\ UNCHANGED <<registered, grants>> \/ (registered \subseteq registered' /\ GrantsGrow)
    BY <1>1, <1>11, Routes, GrantsGrows DEF Registered
  <2>2. QED
    BY <1>3, <1>4, <2>1
<1>12. CASE take_pending_sql_files
  BY <1>4, <1>12 DEF take_pending_sql_files
<1>13. CASE appendOpenedSqlFiles
  BY <1>1, <1>4, <1>13, Appends
<1>14. CASE PickGrant
  <2>1. \/ command' = Absent
        \/ \E t \in Tab, g \in Grant :
             /\ Registered(t) /\ Grants(g, command.file, command.text)
             /\ command' \in Action /\ command'.kind = "open" /\ command'.stage = "reply"
             /\ command'.tab = t /\ command'.grant = g /\ command'.text = command.text
    BY <1>1, <1>14, Picks
  <2>2. command.text # Absent
    BY <1>1, <1>14 DEF NewFit, PickGrant
  <2>3. ASSUME NEW t \in Tab, NEW g \in Grant,
               Registered(t) /\ Grants(g, command.file, command.text),
               command' \in Action /\ command'.kind = "open" /\ command'.stage = "reply",
               command'.tab = t /\ command'.grant = g /\ command'.text = command.text
        PROVE  NewFit'
    BY <2>2, <2>3 DEF NewFit, At, Registered, Grants
  <2>4. QED
    BY <1>2, <2>1, <2>3
<1>15. CASE create_offline_tab
  <2>1. /\ command' \in Action /\ command'.kind = "open" /\ command'.stage = "reply"
        /\ command'.grant = Absent /\ command'.text # Absent /\ Registered(command'.tab)
    BY <1>1, <1>15, Creates
  <2>2. QED
    BY <2>1 DEF NewFit, At, Registered
<1>16. CASE \E t \in Tab : close_offline_tab(t)
  BY <1>2, <1>16 DEF close_offline_tab, Doing
<1>17. CASE Restamp
  BY <1>1, <1>2, <1>17, Restamps
<1>18. CASE \E t \in Tab, text \in Text : handleEditorChange(t, text)
  BY <1>1, <1>4, <1>18, Types
<1>19. CASE Die
  BY <1>2, <1>19 DEF Die
<1>20. QED
  BY <1>5, <1>6, <1>7, <1>8, <1>9, <1>10, <1>11, <1>12, <1>13, <1>14, <1>15, <1>16, <1>17, <1>18,
     <1>19, StepsAre

-----------------------------------------------------------------------------
(* The copies that workspace saves carry *)

CopyFits(tabs) ==
  \A t \in DOMAIN tabs : IF tabs[t].early THEN t \notin registered ELSE GoodFor(tabs[t], grants)

LEMMA CopyStays ==
  ASSUME NEW tabs, CopyFits(tabs), GrantsGrow,
         \A t \in DOMAIN tabs : t \in registered' => t \in registered
  PROVE  CopyFits(tabs)'
BY GrowingKeeps DEF CopyFits

LEMMA AskedFitKeeps ==
  ASSUME FilesInv, Next, Typed', Resting', ShownFit'
  PROVE  AskedFit'
<1>1. /\ Typed /\ Resting /\ Waiting /\ Books /\ SaveKnows
      /\ ShownFit /\ OpenedFit /\ BootFit /\ NewFit /\ AskedFit
  BY DEF FilesInv, Fit
<1>2. /\ \A by \in Caller : Asking(by) => CopyFits(saves[by].tabs)
      /\ (\A by \in Caller : Asking(by)' => CopyFits(saves[by].tabs)') => AskedFit'
  BY <1>1 DEF AskedFit, CopyFits
<1>3. CopyFits(page.tabs) /\ CopyFits(page.tabs)'
  BY <1>1 DEF ShownFit, CopyFits
<1>4. ASSUME NEW tabs, CopyFits(tabs), UNCHANGED <<registered, grants>> PROVE CopyFits(tabs)'
  BY <1>4, CopyStays, Unchanged
<1>5. ASSUME UNCHANGED <<registered, grants>>,
             \A by \in Caller : Asking(by)' => \/ saves'[by] = saves[by] /\ Asking(by)
                                               \/ saves'[by].tabs = page'.tabs
      PROVE  AskedFit'
  <2>1. ASSUME NEW by \in Caller, Asking(by)' PROVE CopyFits(saves[by].tabs)'
    <3>1. CASE saves'[by] = saves[by] /\ Asking(by)
      BY <1>2, <1>5, <3>1, CopyStays, Unchanged DEF CopyFits
    <3>2. CASE saves'[by].tabs = page'.tabs
      BY <1>3, <3>2 DEF CopyFits
    <3>3. QED
      BY <1>5, <2>1, <3>1, <3>2
  <2>2. QED
    BY <1>2, <2>1
<1>6. ASSUME UNCHANGED saves PROVE \A by \in Caller : Asking(by)' => saves'[by] = saves[by] /\ Asking(by)
  BY <1>6 DEF Asking
<1>7. ASSUME NEW by \in Caller, Save(by, page'.tabs), page'.tabs \in Partial(Tab, PageTab)
      PROVE  \A x \in Caller : Asking(x)' => \/ saves'[x] = saves[x] /\ Asking(x)
                                             \/ saves'[x].tabs = page'.tabs
  BY <1>1, <1>7, Asks
<1>8. ASSUME NEW u, Registered(u), UNCHANGED saves, GrantsGrow PROVE AskedFit'
  <2>1. ASSUME NEW by \in Caller, Asking(by)' PROVE CopyFits(saves[by].tabs)'
    <3>1. saves[by] # Absent /\ CopyFits(saves[by].tabs)
      BY <1>2, <1>8, <2>1 DEF Asking
    <3>2. \A t \in DOMAIN saves[by].tabs : t \in registered' => t \in registered
      BY <1>8, <3>1, FreshIsNew
    <3>3. CopyFits(saves[by].tabs)' <=>
            \A t \in DOMAIN saves[by].tabs :
              IF saves[by].tabs[t].early THEN t \notin registered'
              ELSE GoodFor(saves[by].tabs[t], grants')
      BY <1>8 DEF CopyFits
    <3>4. QED
      BY <1>8, <3>1, <3>2, <3>3, GrowingKeeps DEF CopyFits
  <2>2. QED
    BY <1>2, <2>1
<1>9. ASSUME ~page.up, UNCHANGED saves PROVE AskedFit'
  <2>1. \A by \in Caller : saves'[by] = Absent
    BY <1>1, <1>9, NothingShown
  <2>2. QED
    BY <1>2, <2>1 DEF Asking
<1>10. "command" \in Caller /\ "timer" \in Caller /\ "drain" \in Caller
  BY DEF Caller
<1>11. CASE CommandStep
  BY <1>1, <1>5, <1>6, <1>11, CommandSteps
<1>12. CASE AsideStep
  <2>1. UNCHANGED <<registered, grants>> /\ page'.tabs = page.tabs
    BY <1>1, <1>12, AsideSteps
  <2>2. CASE (\E f \in File : RouteRead(f)) \/ Drain \/ clear_saved_workspace
    BY <1>5, <1>6, <2>1, <2>2 DEF RouteRead, Drain, clear_saved_workspace
  <2>3. CASE TimerFires
    <3>1. Save("timer", page'.tabs) /\ page'.tabs \in Partial(Tab, PageTab)
      BY <1>1, <2>1, <2>3, FunFacts DEF TimerFires
    <3>2. QED
      BY <1>5, <1>7, <1>10, <2>1, <3>1
  <2>4. CASE \E by \in Caller : save_workspace(by)
    BY <1>1, <1>5, <2>1, <2>4, Saves
  <2>5. CASE \E by \in Caller : StoreWorkspace(by)
    <3>1. PICK by \in Caller : Answer(by)
      BY <1>1, <2>5, Stores
    <3>2. \A x \in Caller : Asking(x)' => saves'[x] = saves[x] /\ Asking(x)
      BY <1>1, <3>1, AnswerIs DEF Asking
    <3>3. QED
      BY <1>5, <2>1, <3>2
  <2>6. QED
    BY <1>12, <2>2, <2>3, <2>4, <2>5 DEF AsideStep
<1>13. CASE ReplyStep
  <2>1. PICK tabs \in Partial(Tab, PageTab) : Put(tabs)
    BY <1>1, <1>13, ReplySteps
  <2>2. ReplyStill
    BY <1>1, <1>13, ReplySteps
  <2>3. page'.tabs = tabs /\ Save("command", page'.tabs) /\ UNCHANGED <<registered, grants>>
    BY <2>1, <2>2 DEF Put, ReplyStill
  <2>4. QED
    BY <1>5, <1>7, <1>10, <2>3
<1>14. CASE OpenStore
  BY <1>1, <1>9, <1>14, Starting DEF Resting
<1>15. CASE bootstrap_workspace
  BY <1>9, <1>15 DEF bootstrap_workspace
<1>16. CASE ApplyBootstrap
  BY <1>1, <1>9, <1>16, Loads
<1>17. CASE RouteQueue
  <2>1. /\ UNCHANGED saves
        /\ \/ UNCHANGED <<registered, grants>>
           \/ \E u \in Tab : Registered(u) /\ GrantsGrow
    BY <1>1, <1>17, Routes, GrantsGrows
  <2>2. QED
    BY <1>5, <1>6, <1>8, <2>1
<1>18. CASE take_pending_sql_files
  BY <1>5, <1>6, <1>18 DEF take_pending_sql_files
<1>19. CASE appendOpenedSqlFiles
  <2>1. /\ UNCHANGED <<registered, grants>>
        /\ UNCHANGED saves \/ (page'.tabs \in Partial(Tab, PageTab) /\ Save("drain", page'.tabs))
    BY <1>1, <1>19, Appends
  <2>2. QED
    BY <1>5, <1>6, <1>7, <1>10, <2>1
<1>20. CASE PickGrant
  <2>1. /\ UNCHANGED saves
        /\ UNCHANGED <<registered, grants>> \/ \E u \in Tab : Registered(u) /\ GrantsGrow
    BY <1>1, <1>20, Picks, GrantsGrows
  <2>2. QED
    BY <1>5, <1>6, <1>8, <2>1
<1>21. CASE create_offline_tab
  BY <1>1, <1>8, <1>21, Creates, Unchanged
<1>22. CASE \E t \in Tab : close_offline_tab(t)
  <2>1. registered' \subseteq registered /\ UNCHANGED <<grants, saves>>
    BY <1>22 DEF close_offline_tab
  <2>2. ASSUME NEW by \in Caller, Asking(by)' PROVE CopyFits(saves[by].tabs)'
    <3>1. CopyFits(saves[by].tabs)
      BY <1>2, <2>1, <2>2 DEF Asking
    <3>2. QED
      BY <2>1, <3>1 DEF CopyFits
  <2>3. QED
    BY <1>2, <2>2
<1>23. CASE Restamp
  <2>1. /\ UNCHANGED registered
        /\ \/ UNCHANGED <<grants, saves>>
           \/ \E g \in Grant :
                /\ Overtake(g, command.text)
                /\ DOMAIN grants \subseteq DOMAIN grants'
                /\ grants'[g].seen = command.text
                /\ \A h \in DOMAIN grants : h # g => grants'[h] = grants[h]
    <3>1. UNCHANGED registered
      BY <1>1, <1>23, Restamps
    <3>2. ASSUME ~ UNCHANGED <<grants, saves>>
          PROVE  \E g \in Grant :
                   /\ Overtake(g, command.text)
                   /\ DOMAIN grants' = DOMAIN grants \/ DOMAIN grants' = DOMAIN grants \cup {g}
                   /\ grants'[g] =
                        [file |-> command.file, stamp |-> command.text, seen |-> command.text]
                   /\ \A h \in DOMAIN grants : h # g => grants'[h] = grants[h]
      BY <1>1, <1>23, <3>2, Restamps DEF Grants
    <3>3. ASSUME NEW g \in Grant,
                 DOMAIN grants' = DOMAIN grants \/ DOMAIN grants' = DOMAIN grants \cup {g},
                 grants'[g] =
                   [file |-> command.file, stamp |-> command.text, seen |-> command.text]
          PROVE  DOMAIN grants \subseteq DOMAIN grants' /\ grants'[g].seen = command.text
      BY <3>3
    <3>4. QED
      BY <3>1, <3>2, <3>3
  <2>2. ASSUME NEW g \in Grant, Overtake(g, command.text),
               DOMAIN grants \subseteq DOMAIN grants', grants'[g].seen = command.text,
               \A h \in DOMAIN grants : h # g => grants'[h] = grants[h]
        PROVE  AskedFit'
    <3>1. ASSUME NEW by \in Caller, Asking(by)', NEW t \in DOMAIN saves'[by].tabs
          PROVE  IF saves'[by].tabs[t].early THEN t \notin registered'
                 ELSE GoodFor(saves'[by].tabs[t], grants')
      <4> DEFINE x == saves[by].tabs[t]
      <4>1. /\ Asking(by) /\ t \in DOMAIN saves[by].tabs
            /\ saves'[by].tabs[t] = IF x.grant = g /\ x.text # command.text
                                    THEN [x EXCEPT !.excused = TRUE] ELSE x
        BY <1>1, <2>2, <3>1, OvertakeIs
      <4>2. x \in PageTab /\ IF x.early THEN t \notin registered ELSE GoodFor(x, grants)
        BY <1>1, <4>1, FunFacts DEF AskedFit
      <4> HIDE DEF x
      <4>3. /\ saves'[by].tabs[t].early = x.early /\ saves'[by].tabs[t].grant = x.grant
            /\ saves'[by].tabs[t].text = x.text /\ saves'[by].tabs[t].dirty = x.dirty
            /\ saves'[by].tabs[t].excused = (x.excused \/ (x.grant = g /\ x.text # command.text))
        BY <4>1, <4>2 DEF PageTab
      <4>4. CASE x.early
        BY <2>1, <4>2, <4>3, <4>4
      <4>5. CASE ~x.early
        <5>1. GoodFor(x, grants)
          BY <4>2, <4>5
        <5>2. GoodFor(saves'[by].tabs[t], grants')
          BY <2>2, <4>3, <5>1 DEF GoodFor
        <5>3. QED
          BY <4>3, <4>5, <5>2
      <4>6. QED
        BY <4>4, <4>5
    <3>2. QED
      BY <3>1 DEF AskedFit
  <2>3. QED
    BY <1>5, <1>6, <2>1, <2>2
<1>24. CASE \E t \in Tab, text \in Text : handleEditorChange(t, text)
  BY <1>1, <1>5, <1>6, <1>24, Types
<1>25. CASE Die
  <2>1. \A by \in Caller : saves'[by] = Absent
    BY <1>25 DEF Die
  <2>2. QED
    BY <1>2, <2>1 DEF Asking
<1>26. QED
  BY <1>11, <1>12, <1>13, <1>14, <1>15, <1>16, <1>17, <1>18, <1>19, <1>20, <1>21, <1>22, <1>23,
     <1>24, <1>25, StepsAre

-----------------------------------------------------------------------------
(* What a save of a file knows *)

LEMMA NotSaving ==
  ASSUME command = Absent \/ command.kind \notin {"save", "save as"} \/ command.stage = "saving"
  PROVE  SaveKnows
BY DEF SaveKnows, Saving, InSave

LEMMA SaveKnowsKeeps ==
  ASSUME FilesInv, Next, Typed', Resting'
  PROVE  SaveKnows'
<1>1. /\ Typed /\ Resting /\ Waiting /\ Books /\ SaveKnows
      /\ ShownFit /\ OpenedFit /\ BootFit /\ NewFit /\ AskedFit
  BY DEF FilesInv, Fit
<1>2. ASSUME \/ command' = Absent \/ command'.kind \notin {"save", "save as"}
             \/ command'.stage = "saving"
      PROVE  SaveKnows'
  BY <1>2 DEF SaveKnows, Saving, InSave
<1>3. ASSUME UNCHANGED <<command, disk>>, registered \subseteq registered', GrantsGrow,
             DOMAIN page.tabs \subseteq DOMAIN page'.tabs,
             \A t \in DOMAIN page.tabs :
               /\ page'.tabs[t].grant = page.tabs[t].grant
               /\ \/ page'.tabs[t].dirty
                  \/ page'.tabs[t].text = page.tabs[t].text /\ page'.tabs[t].dirty = page.tabs[t].dirty
      PROVE  SaveKnows'
  <2>1. (Saving <=> Saving') /\ \A stages : InSave(stages) <=> InSave(stages)'
    BY <1>3 DEF Saving, InSave
  <2>2. CASE ~Saving
    BY <2>1, <2>2 DEF SaveKnows, InSave
  <2>3. CASE Saving
    <3>1. /\ command.tab \in DOMAIN page.tabs /\ command.text # Absent
          /\ page.tabs[command.tab].text = command.text \/ page.tabs[command.tab].dirty
          /\ command.kind = "save" =>
               command.grant # Absent /\ page.tabs[command.tab].grant = command.grant
          /\ command.stage # "check" => command.tab \in registered /\ command.file # Absent
          /\ command.stage = "reply" =>
               command.grant \in DOMAIN grants /\ grants[command.grant].seen = command.text
      BY <1>1, <2>3 DEF SaveKnows
    <3>2. \A g \in DOMAIN grants : g \in DOMAIN grants' /\ grants'[g] = grants[g]
      BY <1>3 DEF GrantsGrow
    <3>3. InSave({"compare"}) \/ InSave({"write", "rename"})
            => InSave({"compare", "write", "rename", "stamp"})
      BY DEF InSave
    <3>4. QED
      BY <1>1, <1>3, <2>1, <3>1, <3>2, <3>3 DEF SaveKnows
  <2>4. QED
    BY <2>2, <2>3
<1>4. ASSUME UNCHANGED <<command, disk, registered, grants>>, page'.tabs = page.tabs
      PROVE  SaveKnows'
  BY <1>3, <1>4, Unchanged
<1>5. ASSUME At({"save"}, "check") \/ At({"save as"}, "check") \/ At({"save"}, "compare")
             \/ At({"save", "save as"}, "write") \/ At({"save", "save as"}, "rename")
      PROVE  /\ command \in Action /\ command.kind \in {"save", "save as"}
             /\ command.tab \in DOMAIN page.tabs /\ command.text # Absent
             /\ page.tabs[command.tab].text = command.text \/ page.tabs[command.tab].dirty
             /\ command.kind = "save" =>
                  command.grant # Absent /\ page.tabs[command.tab].grant = command.grant
             /\ command.stage # "check" => command.tab \in registered /\ command.file # Absent
             /\ command.stage # "check" /\ command.kind = "save" =>
                  command.grant \in DOMAIN grants /\ grants[command.grant].file = command.file
  <2>1. Saving /\ command.kind # "bootstrap" /\ command # Absent
    BY <1>5 DEF At, Saving
  <2>2. command \in Action
    BY <1>1, <2>1, Acting
  <2>3. command.stage # "check" /\ command.kind = "save" =>
          InSave({"compare", "write", "rename", "stamp"})
    BY <1>5, <2>1 DEF At, InSave
  <2>4. QED
    BY <1>1, <2>1, <2>2, <2>3 DEF SaveKnows, Saving
<1>6. CASE CommandStep
  <2>1. /\ UNCHANGED <<registered, grants, page>>
        /\ Typed
    BY <1>1, <1>6, CommandSteps
  <2>2. ASSUME NEW f \in File, PickRead(f) PROVE SaveKnows'
    BY <1>2, <2>2 DEF PickRead, Doing
  <2>3. ASSUME NEW t \in Tab, SaveFile(t) PROVE SaveKnows'
    <3>1. /\ t \in DOMAIN page.tabs
          /\ command' \in Action /\ command'.stage = "check" /\ command'.tab = t
          /\ command'.text = page.tabs[t].text
          /\ \/ command'.kind = "save" /\ command'.grant = page.tabs[t].grant
                /\ command'.grant # Absent
             \/ command'.kind = "save as"
      BY <1>1, <2>3, Requests
    <3>2. page.tabs[t].text # Absent
      <4>1. page.tabs[t] \in PageTab
        BY <1>1, <3>1, FunFacts
      <4>2. page.tabs[t].text \in Text
        BY <4>1 DEF PageTab
      <4>3. QED
        BY <4>2, LocalFilesAssumption
    <3>3. QED
      BY <2>1, <3>1, <3>2 DEF SaveKnows, InSave
  <2>4. ASSUME CheckSource PROVE SaveKnows'
    <3>1. /\ UNCHANGED disk /\ At({"save"}, "check")
          /\ command' = Absent \/
             /\ command.tab \in registered
             /\ command.grant \in DOMAIN grants /\ disk[grants[command.grant].file] # Absent
             /\ command' = [command EXCEPT !.stage = "compare", !.file = grants[command.grant].file,
                             !.expected = grants[command.grant].stamp,
                             !.read = disk[grants[command.grant].file]]
      BY <2>4 DEF CheckSource, resolve_granted, authorize_tab
    <3>2. CASE command' = Absent
      BY <1>2, <3>2
    <3>3. CASE command' # Absent
      <4> DEFINE r == grants[command.grant]
      <4>1. r \in Granted /\ r.file \in File /\ r.file # Absent
        BY <1>1, <3>1, <3>3, FunFacts, LocalFilesAssumption DEF Granted
      <4>2. command.kind = "save"
        BY <3>1 DEF At
      <4>3. /\ command'.stage = "compare" /\ command'.file = r.file /\ command'.expected = r.stamp
            /\ command'.read = disk[r.file] /\ command'.tab = command.tab
            /\ command'.text = command.text /\ command'.grant = command.grant
            /\ command'.kind = command.kind
        BY <1>5, <3>1, <3>3 DEF Action
      <4>4. QED
        BY <1>5, <2>1, <3>1, <3>3, <4>1, <4>2, <4>3 DEF SaveKnows, InSave
    <3>4. QED
      BY <3>2, <3>3
  <2>5. ASSUME CompareStamp PROVE SaveKnows'
    <3>1. /\ UNCHANGED disk /\ At({"save"}, "compare")
          /\ command' = Absent \/
             /\ sql_file_stamp(command.file, command.read) = command.expected
             /\ command' = [command EXCEPT !.stage = "write", !.overwrite = TRUE]
      BY <2>5 DEF CompareStamp
    <3>2. CASE command' = Absent
      BY <1>2, <3>2
    <3>3. CASE command' # Absent
      <4>1. InSave({"compare"}) /\ command.kind = "save" /\ command.stage = "compare"
        BY <3>1 DEF At, InSave, Saving
      <4>2. /\ command.expected = grants[command.grant].stamp
            /\ command.raced \/ disk[command.file] = command.read
        BY <1>1, <4>1 DEF SaveKnows
      <4>3. /\ command.grant \in DOMAIN grants /\ grants[command.grant] \in Granted
            /\ grants[command.grant].stamp = grants[command.grant].seen
            /\ grants[command.grant].stamp # Absent
        BY <1>1, <1>5, <3>1, <4>1, FunFacts, LocalFilesAssumption DEF Books, Granted
      <4>4. command.raced \/ disk[command.file] = grants[command.grant].seen
        BY <3>1, <3>3, <4>2, <4>3 DEF sql_file_stamp
      <4>5. /\ command'.stage = "write" /\ command'.file = command.file
            /\ command'.tab = command.tab /\ command'.text = command.text
            /\ command'.grant = command.grant /\ command'.kind = command.kind
            /\ command'.raced = command.raced
        BY <1>5, <3>1, <3>3 DEF Action
      <4>6. QED
        BY <1>5, <2>1, <3>1, <4>1, <4>4, <4>5 DEF SaveKnows, InSave
    <3>4. QED
      BY <3>2, <3>3
  <2>6. ASSUME ChoosePath PROVE SaveKnows'
    <3>1. /\ At({"save as"}, "check")
          /\ command' = Absent \/
             (command.tab \in registered /\
              \E f \in File : command' = [command EXCEPT !.stage = "write", !.file = f,
                                                         !.overwrite = disk[f] # Absent])
      BY <2>6 DEF ChoosePath, authorize_tab
    <3>2. CASE command' = Absent
      BY <1>2, <3>2
    <3>3. CASE command' # Absent
      <4>1. PICK f \in File : command' = [command EXCEPT !.stage = "write", !.file = f,
                                                         !.overwrite = disk[f] # Absent]
        BY <3>1, <3>3
      <4>2. f # Absent /\ command.kind = "save as" /\ command.tab \in registered
        BY <3>1, <3>3, LocalFilesAssumption DEF At
      <4>3. /\ command'.stage = "write" /\ command'.file = f
            /\ command'.tab = command.tab /\ command'.text = command.text
            /\ command'.kind = command.kind
        BY <1>5, <3>1, <4>1 DEF Action
      <4>4. QED
        BY <1>5, <2>1, <3>1, <4>2, <4>3 DEF SaveKnows, InSave
    <3>4. QED
      BY <3>2, <3>3
  <2>7. ASSUME WriteTemporary PROVE SaveKnows'
    <3>1. /\ UNCHANGED disk /\ At({"save", "save as"}, "write")
          /\ command' = Absent \/ command' = [command EXCEPT !.stage = "rename"]
      BY <2>7 DEF WriteTemporary, Reach
    <3>2. CASE command' = Absent
      BY <1>2, <3>2
    <3>3. CASE command' # Absent
      <4>1. command.stage = "write" /\ (command.kind = "save" => InSave({"write", "rename"}))
        BY <3>1 DEF At, InSave, Saving
      <4>2. command.kind = "save" => command.raced \/ disk[command.file] = grants[command.grant].seen
        BY <1>1, <4>1 DEF SaveKnows
      <4>3. /\ command'.stage = "rename" /\ command'.file = command.file
            /\ command'.tab = command.tab /\ command'.text = command.text
            /\ command'.grant = command.grant /\ command'.kind = command.kind
            /\ command'.raced = command.raced
        BY <1>5, <3>1, <3>3 DEF Action
      <4>4. QED
        BY <1>5, <2>1, <3>1, <4>1, <4>2, <4>3 DEF SaveKnows, InSave
    <3>4. QED
      BY <3>2, <3>3
  <2>8. ASSUME Rename PROVE SaveKnows'
    <3>1. /\ At({"save", "save as"}, "rename")
          /\ command' = [command EXCEPT !.stage = "stamp"]
      BY <2>8 DEF Rename, Reach
    <3>2. command.stage = "rename"
      BY <3>1 DEF At
    <3>3. /\ command'.stage = "stamp" /\ command'.file = command.file
          /\ command'.tab = command.tab /\ command'.text = command.text
          /\ command'.grant = command.grant /\ command'.kind = command.kind
      BY <1>5, <3>1 DEF Action
    <3>4. /\ command.kind \in {"save", "save as"}
          /\ command.tab \in DOMAIN page.tabs /\ command.text # Absent
          /\ page.tabs[command.tab].text = command.text \/ page.tabs[command.tab].dirty
          /\ command.kind = "save" =>
               command.grant # Absent /\ page.tabs[command.tab].grant = command.grant
          /\ command.tab \in registered /\ command.file # Absent
          /\ command.kind = "save" =>
               command.grant \in DOMAIN grants /\ grants[command.grant].file = command.file
      BY <1>5, <3>1, <3>2
    <3>5. QED
      BY <2>1, <3>3, <3>4 DEF SaveKnows, InSave
  <2>9. ASSUME NEW f \in File, NEW text \in Text \cup {Absent}, OthersWrite(f, text) PROVE SaveKnows'
    <3> DEFINE hit == /\ command # Absent /\ command.kind = "save" /\ command.file = f
                      /\ command.stage \in {"compare", "write", "rename"}
    <3>1. /\ disk' = [disk EXCEPT ![f] = text]
          /\ command' = IF hit THEN [command EXCEPT !.raced = TRUE] ELSE command
      BY <2>9 DEF OthersWrite
    <3>2. CASE hit
      <4>1. command \in Action
        BY <1>1, <3>2, Acting
      <4>2. /\ command'.stage = command.stage /\ command'.file = command.file
            /\ command'.tab = command.tab /\ command'.text = command.text
            /\ command'.grant = command.grant /\ command'.kind = command.kind
            /\ command'.raced /\ command'.expected = command.expected
            /\ command'.read = command.read
        BY <3>1, <3>2, <4>1 DEF Action
      <4>3. command' # Absent
        <5>1. command' \in Action
          BY <3>1, <3>2, <4>1 DEF Action
        <5>2. QED
          BY <5>1, LocalFilesAssumption
      <4>4. Saving /\ InSave({"compare", "write", "rename", "stamp"})
        BY <3>2 DEF Saving, InSave
      <4>5. InSave({"compare"}) <=> command.stage = "compare"
        BY <3>2 DEF Saving, InSave
      <4>6. InSave({"compare"})' <=> command.stage = "compare"
        BY <3>2, <4>2, <4>3 DEF Saving, InSave
      <4>7. QED
        BY <1>1, <2>1, <3>2, <4>2, <4>4, <4>5, <4>6 DEF SaveKnows
    <3>3. CASE ~hit
      <4>1. command' = command
        BY <3>1, <3>3
      <4>2. (Saving <=> Saving') /\ \A stages : InSave(stages) <=> InSave(stages)'
        BY <4>1 DEF Saving, InSave
      <4>3. InSave({"compare"}) \/ InSave({"write", "rename"}) => disk'[command.file] = disk[command.file]
        <5>1. InSave({"compare"}) \/ InSave({"write", "rename"}) => command.file # f
          BY <3>3 DEF InSave, Saving
        <5>2. QED
          BY <1>1, <3>1, <5>1 DEF Typed
      <4>4. QED
        BY <1>1, <2>1, <4>1, <4>2, <4>3 DEF SaveKnows
    <3>4. QED
      BY <3>2, <3>3
  <2>10. QED
    BY <1>6, <2>2, <2>3, <2>4, <2>5, <2>6, <2>7, <2>8, <2>9 DEF CommandStep
<1>7. CASE AsideStep
  BY <1>1, <1>2, <1>4, <1>7, AsideSteps
<1>8. CASE ReplyStep
  BY <1>1, <1>2, <1>8, ReplySteps DEF Put
<1>9. CASE OpenStore
  BY <1>1, <1>2, <1>9, Starting DEF Resting
<1>10. CASE bootstrap_workspace
  BY <1>1, <1>2, <1>10, Recovers DEF Bootstrap
<1>11. CASE ApplyBootstrap
  BY <1>1, <1>2, <1>11, Loads
<1>12. CASE RouteQueue
  <2>1. /\ UNCHANGED <<command, disk>>
        /\ \/ UNCHANGED <<registered, grants, pending, page>>
           \/ /\ registered \subseteq registered' /\ GrantsGrow
              /\ page' = [page EXCEPT !.requested = page.up]
    BY <1>1, <1>12, Routes, GrantsGrows DEF Registered
  <2>2. page'.tabs = page.tabs
    BY <1>1, <2>1 DEF Typed, PageRow
  <2>3. QED
    BY <1>3, <2>1, <2>2, Unchanged
<1>13. CASE take_pending_sql_files
  BY <1>4, <1>13 DEF take_pending_sql_files
<1>14. CASE appendOpenedSqlFiles
  BY <1>1, <1>3, <1>14, Appends, Unchanged
<1>15. CASE PickGrant
  BY <1>1, <1>2, <1>15, Picks
<1>16. CASE create_offline_tab
  BY <1>1, <1>2, <1>16, Creates
<1>17. CASE \E t \in Tab : close_offline_tab(t)
  BY <1>2, <1>17 DEF close_offline_tab, Doing
<1>18. CASE Restamp
  <2>1. /\ UNCHANGED <<registered, page>> /\ command \in Action
        /\ command.kind \in {"save", "save as"} /\ command.stage = "stamp"
        /\ command' = Absent \/
           \E g \in Grant :
             /\ command.kind = "save" => g = command.grant
             /\ g \in DOMAIN grants' /\ grants'[g].seen = command.text
             /\ command' \in Action /\ command'.kind = command.kind /\ command'.stage = "reply"
             /\ command'.tab = command.tab /\ command'.grant = g
             /\ command'.text = command.text /\ command'.file = command.file
    <3>1. /\ UNCHANGED <<registered, page>> /\ command \in Action
          /\ command.kind \in {"save", "save as"} /\ command.stage = "stamp"
      BY <1>1, <1>18, Restamps
    <3>2. ASSUME command' # Absent
          PROVE  \E g \in Grant :
                   /\ command.kind = "save" => g = command.grant
                   /\ g \in DOMAIN grants'
                   /\ grants'[g] =
                        [file |-> command.file, stamp |-> command.text, seen |-> command.text]
                   /\ command' \in Action /\ command'.kind = command.kind /\ command'.stage = "reply"
                   /\ command'.tab = command.tab /\ command'.grant = g
                   /\ command'.text = command.text /\ command'.file = command.file
      BY <1>1, <1>18, <3>2, Restamps DEF Grants
    <3>3. \A g : grants'[g] = [file |-> command.file, stamp |-> command.text, seen |-> command.text]
                  => grants'[g].seen = command.text
      OBVIOUS
    <3>4. QED
      BY <3>1, <3>2, <3>3
  <2>2. Saving
    BY <2>1, LocalFilesAssumption DEF Saving
  <2>3. ASSUME NEW g \in Grant,
               command.kind = "save" => g = command.grant,
               g \in DOMAIN grants' /\ grants'[g].seen = command.text,
               command'.kind = command.kind /\ command'.stage = "reply",
               command'.tab = command.tab /\ command'.grant = g,
               command'.text = command.text /\ command'.file = command.file
        PROVE  SaveKnows'
    BY <1>1, <2>1, <2>2, <2>3 DEF SaveKnows, InSave
  <2>4. QED
    BY <1>2, <2>1, <2>3
<1>19. CASE \E t \in Tab, text \in Text : handleEditorChange(t, text)
  <2>1. /\ UNCHANGED <<registered, grants, command, disk>> /\ DOMAIN page'.tabs = DOMAIN page.tabs
        /\ \A t \in DOMAIN page.tabs :
             /\ page'.tabs[t].grant = page.tabs[t].grant
             /\ page'.tabs[t].dirty \/ page'.tabs[t] = page.tabs[t]
    BY <1>1, <1>19, Types
  <2>2. QED
    BY <1>3, <2>1, Unchanged
<1>20. CASE Die
  BY <1>2, <1>20 DEF Die
<1>21. QED
  BY <1>6, <1>7, <1>8, <1>9, <1>10, <1>11, <1>12, <1>13, <1>14, <1>15, <1>16, <1>17, <1>18, <1>19,
     <1>20, StepsAre

-----------------------------------------------------------------------------
(* One tab for each grant *)

LEMMA FreshUnheld ==
  ASSUME Typed, BootFit, NEW g, g \in Grant \ (DOMAIN grants \cup GrantsNamed), NEW t
  PROVE  ~Holds(t, g)
<1>1. g # Absent
  BY LocalFilesAssumption
<1>2. ASSUME Booting, NEW u \in DOMAIN command.tabs PROVE command.tabs[u].grant # g
  BY <1>1, <1>2, FreshIsUngranted DEF BootFit, GoodFor
<1>3. QED
  BY <1>2, FreshIsUngranted DEF Holds, At

LEMMA SoleKeeps ==
  ASSUME FilesInv, Next, Typed', Resting'
  PROVE  Sole'
<1>1. /\ Typed /\ Resting /\ Waiting /\ Books /\ SaveKnows /\ Sole
      /\ ShownFit /\ OpenedFit /\ BootFit /\ NewFit /\ AskedFit
  BY DEF FilesInv, Fit
<1>2. ASSUME \A g \in Grant, t \in Tab : Holds(t, g)' => Holds(t, g) PROVE Sole'
  <2> SUFFICES ASSUME NEW g \in Grant, NEW t \in Tab, NEW u \in Tab, Holds(t, g)', Holds(u, g)'
               PROVE  t = u
    BY DEF Sole
  <2>1. QED
    BY <1>1, <1>2 DEF Sole
<1>3. ASSUME NEW f, NEW s, f \in Grant \ (DOMAIN grants \cup GrantsNamed),
             \A g \in Grant, t \in Tab : Holds(t, g)' => Holds(t, g) \/ (t = s /\ g = f)
      PROVE  Sole'
  <2> SUFFICES ASSUME NEW g \in Grant, NEW t \in Tab, NEW u \in Tab, Holds(t, g)', Holds(u, g)'
               PROVE  t = u
    BY DEF Sole
  <2>1. \A v : ~Holds(v, f)
    BY <1>1, <1>3, FreshUnheld
  <2>2. QED
    BY <1>1, <1>3, <2>1 DEF Sole
<1>4. ASSUME page'.tabs = page.tabs, UNCHANGED <<pending, taken>>,
             \/ command' = command \/ command' = Absent
             \/ command'.kind # "bootstrap" /\ command'.stage # "reply"
      PROVE  \A g \in Grant, t \in Tab : Holds(t, g)' => Holds(t, g)
  BY <1>4 DEF Holds, Opened, Booting, At
<1>5. CASE CommandStep
  <2>1. /\ UNCHANGED <<page, pending, taken>>
        /\ command' = command \/ Midway'
    BY <1>1, <1>5, CommandSteps
  <2>2. command' \in Action => command'.kind # "bootstrap"
    BY DEF Action
  <2>3. QED
    BY <1>2, <1>4, <2>1, <2>2 DEF Midway
<1>6. CASE AsideStep
  BY <1>1, <1>2, <1>4, <1>6, AsideSteps
<1>7. ASSUME NEW tabs \in Partial(Tab, PageTab), Put(tabs), ReplyStill, command \in Action,
             \A g \in Grant, t \in DOMAIN tabs : ~tabs[t].early /\ tabs[t].grant = g => Holds(t, g)
      PROVE  Sole'
  <2>1. /\ page'.tabs = tabs /\ Opened' = Opened
        /\ command' = Absent \/ (command' \in Action /\ command'.stage = "saving")
    BY <1>7 DEF Put, ReplyStill, Opened
  <2>2. command' \in Action => command'.kind # "bootstrap"
    BY DEF Action
  <2>3. ASSUME NEW g \in Grant, NEW t \in Tab, Holds(t, g)' PROVE Holds(t, g)
    <3>1. \/ t \in DOMAIN page'.tabs /\ ~page'.tabs[t].early /\ page'.tabs[t].grant = g
          \/ \E o \in Opened' : ~o.early /\ o.tab = t /\ o.grant = g
      BY <2>1, <2>2, <2>3 DEF Holds, Booting, At
    <3>2. CASE t \in DOMAIN page'.tabs /\ ~page'.tabs[t].early /\ page'.tabs[t].grant = g
      BY <1>7, <2>1, <3>2
    <3>3. CASE \E o \in Opened' : ~o.early /\ o.tab = t /\ o.grant = g
      BY <2>1, <3>3 DEF Holds
    <3>4. QED
      BY <3>1, <3>2, <3>3
  <2>4. QED
    BY <1>2, <2>3
<1>8. CASE ApplyOpened
  <2>1. PICK tabs \in Partial(Tab, PageTab) :
          /\ Put(tabs) /\ DOMAIN tabs = DOMAIN page.tabs \cup {command.tab}
          /\ \A t \in DOMAIN page.tabs : t # command.tab => tabs[t] = page.tabs[t]
          /\ tabs[command.tab] =
               [grant |-> command.grant, text |-> command.text, dirty |-> FALSE,
                early |-> FALSE, excused |-> FALSE]
    BY <1>1, <1>8, Opens
  <2>2. /\ ReplyStill /\ command \in Action /\ At({"open", "save", "save as"}, "reply")
    BY <1>1, <1>8, Opens DEF ApplyOpened, At
  <2>3. ASSUME NEW g \in Grant, NEW t \in DOMAIN tabs, ~tabs[t].early /\ tabs[t].grant = g
        PROVE  Holds(t, g)
    <3>1. CASE t = command.tab
      <4>1. tabs[t].grant = command.grant
        BY <2>1, <3>1
      <4>2. QED
        BY <2>2, <2>3, <3>1, <4>1 DEF Holds
    <3>2. CASE t # command.tab
      BY <2>1, <2>3, <3>2 DEF Holds
    <3>3. QED
      BY <3>1, <3>2
  <2>4. QED
    BY <1>7, <2>1, <2>2, <2>3
<1>9. CASE ApplyClosed
  <2>1. /\ ReplyStill /\ command \in Action
        /\ \E tabs \in Partial(Tab, PageTab) :
             /\ Put(tabs) /\ DOMAIN tabs \subseteq DOMAIN page.tabs
             /\ \A t \in DOMAIN tabs : tabs[t] = page.tabs[t]
    BY <1>1, <1>9, Closes
  <2>2. QED
    BY <1>7, <2>1 DEF Holds
<1>10. CASE ApplySaved
  <2>1. PICK tabs \in Partial(Tab, PageTab) :
          /\ Put(tabs) /\ DOMAIN tabs = DOMAIN page.tabs
          /\ \A u \in DOMAIN page.tabs : u # command.tab => tabs[u] = page.tabs[u]
          /\ tabs[command.tab].grant = command.grant
    BY <1>1, <1>10, Marks
  <2>2. ReplyStill /\ command \in Action /\ At({"open", "save", "save as"}, "reply")
    BY <1>1, <1>10, Marks DEF ApplySaved, At
  <2>3. ASSUME NEW g \in Grant, NEW t \in DOMAIN tabs, ~tabs[t].early /\ tabs[t].grant = g
        PROVE  Holds(t, g)
    BY <2>1, <2>2, <2>3 DEF Holds
  <2>4. QED
    BY <1>7, <2>1, <2>2, <2>3
<1>11. CASE OpenStore
  BY <1>1, <1>2, <1>4, <1>11, Starting
<1>12. CASE bootstrap_workspace
  <2>1. /\ UNCHANGED <<page, taken>> /\ ~page.up /\ command' \in Bootstrap
        /\ DOMAIN command'.tabs = registered' /\ \A o \in ToSet(pending') : o.early
        /\ \A t, u \in registered' :
              command'.tabs[t].grant = command'.tabs[u].grant =>
                t = u \/ command'.tabs[t].grant = Absent
    BY <1>1, <1>12, Recovers DEF bootstrap_workspace
  <2>2. DOMAIN page'.tabs = {} /\ taken' = Absent
    BY <1>1, <2>1, NothingShown
  <2>3. \A o \in Opened' : o.early
    BY <2>1, <2>2 DEF Opened
  <2>4. \A g, t : Holds(t, g)' => t \in registered' /\ command'.tabs[t].grant = g
    BY <2>1, <2>2, <2>3 DEF Holds, At, Bootstrap
  <2>5. \A g \in Grant : g # Absent
    BY LocalFilesAssumption
  <2>6. QED
    BY <2>1, <2>4, <2>5 DEF Sole
<1>13. CASE ApplyBootstrap
  <2>1. /\ Booting /\ command' = Absent /\ page'.tabs = command.tabs /\ UNCHANGED <<pending, taken>>
    BY <1>1, <1>13, Loads
  <2>2. Opened' = Opened
    BY <2>1 DEF Opened
  <2>3. \A g \in Grant, t \in Tab : Holds(t, g)' => Holds(t, g)
    BY <2>1, <2>2 DEF Holds, Booting, At
  <2>4. QED
    BY <1>2, <2>3
<1>14. CASE RouteQueue
  <2>1. UNCHANGED <<command, taken>>
    BY <1>1, <1>14, Routes
  <2>2. CASE UNCHANGED <<registered, grants, pending, page>>
    BY <1>2, <1>4, <2>1, <2>2
  <2>3. ASSUME NEW t \in Tab, NEW g \in Grant, NEW f \in File, NEW text \in Text,
               Grants(g, f, text), page' = [page EXCEPT !.requested = page.up],
               ToSet(pending') = ToSet(pending) \cup
                 {[tab |-> t, grant |-> g, text |-> text, early |-> FALSE]}
        PROVE  Sole'
    <3> DEFINE o == [tab |-> t, grant |-> g, text |-> text, early |-> FALSE]
    <3>1. Opened' = Opened \cup {o} /\ o.tab = t /\ o.grant = g
      BY <2>1, <2>3 DEF Opened
    <3>2. page'.tabs = page.tabs
      BY <1>1, <2>3 DEF Typed, PageRow
    <3> HIDE DEF o
    <3>3. \A h \in Grant, u \in Tab : Holds(u, h)' => Holds(u, h) \/ (u = t /\ h = g)
      BY <2>1, <3>1, <3>2 DEF Holds, Booting, At
    <3>4. g \in Grant \ (DOMAIN grants \cup GrantsNamed)
      BY <2>3 DEF Grants
    <3>5. QED
      BY <1>3, <3>3, <3>4
  <2>4. QED
    BY <1>1, <1>14, <2>2, <2>3, Routes
<1>15. CASE take_pending_sql_files
  <2>1. taken = Absent /\ taken' = pending /\ pending' = <<>> /\ UNCHANGED <<page, command>>
    BY <1>15 DEF take_pending_sql_files
  <2>2. Opened' \subseteq Opened
    BY <2>1 DEF Opened, ToSet
  <2>3. \A g \in Grant, t \in Tab : Holds(t, g)' => Holds(t, g)
    BY <2>1, <2>2 DEF Holds, Booting, At
  <2>4. QED
    BY <1>2, <2>3
<1>16. CASE appendOpenedSqlFiles
  <2>1. /\ UNCHANGED <<command, pending>> /\ taken' = Absent
        /\ \A t \in DOMAIN page.tabs : page'.tabs[t] = page.tabs[t]
        /\ \A t \in DOMAIN page'.tabs \ DOMAIN page.tabs :
             \E o \in Taken : o.tab = t /\ page'.tabs[t] = OpenedTab(o)
    BY <1>1, <1>16, Appends
  <2>2. Opened' \subseteq Opened /\ Taken \subseteq Opened
    BY <2>1 DEF Opened, Taken
  <2>3. ASSUME NEW g \in Grant, NEW t \in DOMAIN page'.tabs,
               ~page'.tabs[t].early /\ page'.tabs[t].grant = g
        PROVE  Holds(t, g)
    <3>1. CASE t \in DOMAIN page.tabs
      BY <2>1, <2>3, <3>1 DEF Holds
    <3>2. CASE t \notin DOMAIN page.tabs
      <4>1. PICK o \in Opened : o.tab = t /\ page'.tabs[t] = OpenedTab(o)
        BY <2>1, <2>2, <2>3, <3>2
      <4>2. o.early = page'.tabs[t].early /\ o.grant = page'.tabs[t].grant
        BY <4>1 DEF OpenedTab
      <4>3. QED
        BY <2>3, <4>1, <4>2 DEF Holds
    <3>3. QED
      BY <3>1, <3>2
  <2>4. \A g \in Grant, t \in Tab : Holds(t, g)' => Holds(t, g)
    BY <2>1, <2>2, <2>3 DEF Holds, Booting, At
  <2>5. QED
    BY <1>2, <2>4
<1>17. CASE PickGrant
  <2>1. /\ UNCHANGED <<page, pending, taken>>
        /\ command' = Absent \/
           \E t \in Tab, g \in Grant :
             /\ g \in Grant \ (DOMAIN grants \cup GrantsNamed)
             /\ command'.kind = "open" /\ command'.tab = t /\ command'.grant = g
    BY <1>1, <1>17, Picks DEF Grants
  <2>2. ASSUME NEW t \in Tab, NEW g \in Grant, g \in Grant \ (DOMAIN grants \cup GrantsNamed),
               command'.kind = "open" /\ command'.tab = t /\ command'.grant = g
        PROVE  Sole'
    <3>1. \A h \in Grant, u \in Tab : Holds(u, h)' => Holds(u, h) \/ (u = t /\ h = g)
      BY <2>1, <2>2 DEF Holds, Opened, Booting, At
    <3>2. QED
      BY <1>3, <2>2, <3>1
  <2>3. QED
    BY <1>2, <1>4, <2>1, <2>2
<1>18. CASE create_offline_tab
  <2>1. /\ UNCHANGED <<page, pending, taken>> /\ command'.kind = "open" /\ command'.grant = Absent
        /\ \A g \in Grant : g # Absent
    BY <1>1, <1>18, Creates, LocalFilesAssumption
  <2>2. \A g \in Grant, t \in Tab : Holds(t, g)' => Holds(t, g)
    BY <2>1 DEF Holds, Opened, Booting, At
  <2>3. QED
    BY <1>2, <2>2
<1>19. CASE \E t \in Tab : close_offline_tab(t)
  <2>1. UNCHANGED <<page, pending, taken>> /\ command'.kind = "close"
    BY <1>19 DEF close_offline_tab, Doing
  <2>2. \A g \in Grant, t \in Tab : Holds(t, g)' => Holds(t, g)
    BY <2>1 DEF Holds, Opened, Booting, At
  <2>3. QED
    BY <1>2, <2>2
<1>20. CASE Restamp
  <2>1. /\ UNCHANGED <<page, pending, taken>> /\ command \in Action
        /\ command.kind \in {"save", "save as"} /\ command.stage = "stamp"
    BY <1>1, <1>20, Restamps
  <2>2. ASSUME command' # Absent
        PROVE  \E g \in Grant :
                 /\ \/ command.kind = "save" /\ g = command.grant
                    \/ g \in Grant \ (DOMAIN grants \cup GrantsNamed)
                 /\ command'.kind = command.kind
                 /\ command'.tab = command.tab /\ command'.grant = g
    BY <1>1, <1>20, <2>2, Restamps DEF Grants
  <2>3. ASSUME NEW g \in Grant, command'.kind = command.kind,
               command'.tab = command.tab /\ command'.grant = g
        PROVE  \A h \in Grant, u \in Tab : Holds(u, h)' => Holds(u, h) \/ (u = command.tab /\ h = g)
    BY <2>1, <2>3 DEF Holds, Opened, Booting, At
  <2>4. command.kind = "save" => Holds(command.tab, command.grant)
    <3>1. /\ command.tab \in DOMAIN page.tabs /\ command.tab \in registered
          /\ command.kind = "save" => page.tabs[command.tab].grant = command.grant
      BY <1>1, <2>1, SavedFrom
    <3>2. ~page.tabs[command.tab].early
      BY <1>1, <3>1 DEF ShownFit
    <3>3. QED
      BY <3>1, <3>2 DEF Holds
  <2>5. CASE command' = Absent
    BY <1>2, <1>4, <2>1, <2>5
  <2>6. CASE command' # Absent
    <3>1. PICK g \in Grant :
            /\ \/ command.kind = "save" /\ g = command.grant
               \/ g \in Grant \ (DOMAIN grants \cup GrantsNamed)
            /\ command'.kind = command.kind
            /\ command'.tab = command.tab /\ command'.grant = g
      BY <2>2, <2>6
    <3>2. \A h \in Grant, u \in Tab : Holds(u, h)' => Holds(u, h) \/ (u = command.tab /\ h = g)
      BY <2>3, <3>1
    <3>3. CASE command.kind = "save" /\ g = command.grant
      BY <1>2, <2>4, <3>2, <3>3
    <3>4. CASE g \in Grant \ (DOMAIN grants \cup GrantsNamed)
      BY <1>3, <3>2, <3>4
    <3>5. QED
      BY <3>1, <3>3, <3>4
  <2>7. QED
    BY <2>5, <2>6
<1>21. CASE \E t \in Tab, text \in Text : handleEditorChange(t, text)
  <2>1. /\ UNCHANGED <<command, pending, taken>> /\ DOMAIN page'.tabs = DOMAIN page.tabs
        /\ \A t \in DOMAIN page.tabs : /\ page'.tabs[t].grant = page.tabs[t].grant
                                       /\ page'.tabs[t].early = page.tabs[t].early
    BY <1>1, <1>21, Types
  <2>2. \A g \in Grant, t \in Tab : Holds(t, g)' => Holds(t, g)
    BY <2>1 DEF Holds, Opened, Booting, At
  <2>3. QED
    BY <1>2, <2>2
<1>22. CASE Die
  <2>1. page' = ClosedPage /\ command' = Absent /\ taken' = Absent /\ pending' = <<>>
    BY <1>22 DEF Die
  <2>2. DOMAIN page'.tabs = {} /\ Opened' = {}
    BY <2>1, NoTabsIs DEF ClosedPage, Opened, ToSet
  <2>3. \A g \in Grant, t \in Tab : ~Holds(t, g)'
    BY <2>1, <2>2 DEF Holds, Booting, At
  <2>4. QED
    BY <2>3 DEF Sole
<1>23. QED
  BY <1>5, <1>6, <1>8, <1>9, <1>10, <1>11, <1>12, <1>13, <1>14, <1>15, <1>16, <1>17, <1>18, <1>19,
     <1>20, <1>21, <1>22, StepsAre DEF ReplyStep

-----------------------------------------------------------------------------
(* A tab is in one place until the page shows it *)

ApartFrom(o) ==
  /\ o.tab \notin DOMAIN page.tabs
  /\ Booting => o.tab \notin DOMAIN command.tabs
  /\ At({"open"}, "reply") => o.tab # command.tab

Distinct == \A o \in ToSet(pending), q \in Taken : o.early \/ q.early \/ o.tab # q.tab

LEMMA ApartKeeps ==
  ASSUME FilesInv, Next, Typed', Resting'
  PROVE  Apart'
<1>1. /\ Typed /\ Resting /\ Waiting /\ Books /\ SaveKnows /\ Apart
      /\ ShownFit /\ OpenedFit /\ BootFit /\ NewFit /\ AskedFit
  BY DEF FilesInv, Fit
<1>2. /\ \A o \in Opened : ~o.early => ApartFrom(o)
      /\ Distinct
      /\ (\A o \in Opened' : ~o.early => ApartFrom(o)') /\ Distinct' => Apart'
  BY <1>1 DEF Apart, ApartFrom, Distinct
<1>3. ASSUME UNCHANGED <<pending, taken>>,
             \A o \in Opened : ~o.early /\ ApartFrom(o) => ApartFrom(o)'
      PROVE  Apart'
  <2>1. Opened' = Opened
    BY <1>3 DEF Opened
  <2>2. Distinct'
    BY <1>2, <1>3 DEF Distinct, Taken
  <2>3. QED
    BY <1>2, <1>3, <2>1, <2>2
<1>4. ASSUME \/ command' = command \/ command' = Absent
             \/ command'.kind # "bootstrap" /\ (command'.kind # "open" \/ command'.stage # "reply"),
             DOMAIN page'.tabs \subseteq DOMAIN page.tabs
      PROVE  \A o : ApartFrom(o) => ApartFrom(o)'
  BY <1>4 DEF ApartFrom, Booting, At
<1>5. command' \in Action => command'.kind # "bootstrap"
  BY DEF Action
<1>6. CASE CommandStep
  <2>1. /\ UNCHANGED <<page, pending, taken>>
        /\ command' = command \/ Midway'
    BY <1>1, <1>6, CommandSteps
  <2>2. QED
    BY <1>3, <1>4, <1>5, <2>1 DEF Midway
<1>7. CASE AsideStep
  BY <1>1, <1>3, <1>4, <1>7, AsideSteps
<1>8. CASE ApplyOpened
  <2>1. PICK tabs \in Partial(Tab, PageTab) :
          Put(tabs) /\ DOMAIN tabs = DOMAIN page.tabs \cup {command.tab}
    BY <1>1, <1>8, Opens
  <2>2. ReplyStill /\ At({"open"}, "reply")
    BY <1>1, <1>8, Opens DEF ApplyOpened
  <2>3. /\ page'.tabs = tabs /\ UNCHANGED <<pending, taken>>
        /\ command' = Absent \/ (command' \in Action /\ command'.stage = "saving")
    BY <2>1, <2>2 DEF Put, ReplyStill
  <2>4. ASSUME NEW o, ApartFrom(o) PROVE ApartFrom(o)'
    BY <1>5, <2>1, <2>2, <2>3, <2>4 DEF ApartFrom, Booting, At
  <2>5. QED
    BY <1>3, <2>3, <2>4
<1>9. CASE ApplyClosed \/ ApplySaved
  <2>1. /\ ReplyStill
        /\ \E tabs \in Partial(Tab, PageTab) : Put(tabs) /\ DOMAIN tabs \subseteq DOMAIN page.tabs
    BY <1>1, <1>9, Closes, Marks
  <2>2. /\ DOMAIN page'.tabs \subseteq DOMAIN page.tabs /\ UNCHANGED <<pending, taken>>
        /\ command' = Absent \/ (command' \in Action /\ command'.stage = "saving")
    BY <2>1 DEF Put, ReplyStill
  <2>3. QED
    BY <1>3, <1>4, <1>5, <2>2
<1>10. CASE OpenStore
  BY <1>1, <1>3, <1>4, <1>10, Starting
<1>11. CASE bootstrap_workspace
  <2>1. UNCHANGED taken /\ ~page.up /\ \A o \in ToSet(pending') : o.early
    BY <1>1, <1>11, Recovers DEF bootstrap_workspace
  <2>2. taken' = Absent
    BY <1>1, <2>1, NothingShown
  <2>3. (\A o \in Opened' : o.early) /\ Distinct'
    BY <2>1, <2>2 DEF Opened, Distinct
  <2>4. QED
    BY <1>2, <2>3
<1>12. CASE ApplyBootstrap
  <2>1. /\ Booting /\ command' = Absent /\ page'.tabs = command.tabs /\ UNCHANGED <<pending, taken>>
    BY <1>1, <1>12, Loads
  <2>2. ASSUME NEW o, ApartFrom(o) PROVE ApartFrom(o)'
    BY <2>1, <2>2 DEF ApartFrom, Booting, At
  <2>3. QED
    BY <1>3, <2>1, <2>2
<1>13. ASSUME NEW t, Registered(t)
       PROVE  /\ t \notin DOMAIN page.tabs
              /\ Booting => t \notin DOMAIN command.tabs
              /\ At({"open"}, "reply") => t # command.tab
  BY <1>1, <1>13, FreshIsNew DEF BootFit, At
<1>14. CASE RouteQueue
  <2>1. UNCHANGED <<command, taken>>
    BY <1>1, <1>14, Routes
  <2>2. CASE UNCHANGED <<registered, grants, pending, page>>
    BY <1>3, <1>4, <2>1, <2>2
  <2>3. ASSUME NEW t \in Tab, NEW g \in Grant, NEW text \in Text,
               Registered(t), page' = [page EXCEPT !.requested = page.up],
               ToSet(pending') = ToSet(pending) \cup
                 {[tab |-> t, grant |-> g, text |-> text, early |-> FALSE]}
        PROVE  Apart'
    <3> DEFINE o == [tab |-> t, grant |-> g, text |-> text, early |-> FALSE]
    <3>1. Opened' = Opened \cup {o} /\ o.tab = t /\ ToSet(pending') = ToSet(pending) \cup {o}
      BY <2>1, <2>3 DEF Opened
    <3>2. page'.tabs = page.tabs
      BY <1>1, <2>3 DEF Typed, PageRow
    <3> HIDE DEF o
    <3>3. ApartFrom(o)
      BY <1>13, <2>3, <3>1 DEF ApartFrom
    <3>4. \A q : ApartFrom(q) => ApartFrom(q)'
      BY <1>4, <2>1, <3>2
    <3>5. \A q \in Taken' : q \in Taken /\ q \in Opened /\ q.tab # o.tab
      BY <2>1, <2>3, <3>1, FreshIsNew DEF Taken, Opened
    <3>6. Distinct'
      BY <1>2, <3>1, <3>5 DEF Distinct
    <3>7. QED
      BY <1>2, <3>1, <3>3, <3>4, <3>6
  <2>4. QED
    BY <1>1, <1>14, <2>2, <2>3, Routes
<1>15. CASE take_pending_sql_files
  <2>1. taken = Absent /\ taken' = pending /\ pending' = <<>> /\ UNCHANGED <<page, command>>
    BY <1>15 DEF take_pending_sql_files
  <2>2. Opened' \subseteq Opened /\ ToSet(pending') = {}
    BY <2>1 DEF Opened, ToSet
  <2>3. \A o : ApartFrom(o) => ApartFrom(o)'
    BY <1>4, <2>1
  <2>4. Distinct'
    BY <2>2 DEF Distinct
  <2>5. QED
    BY <1>2, <2>2, <2>3, <2>4
<1>16. CASE appendOpenedSqlFiles
  <2>1. /\ UNCHANGED <<command, pending>> /\ taken # Absent /\ taken' = Absent
        /\ \A t \in DOMAIN page'.tabs \ DOMAIN page.tabs : \E q \in Taken : q.tab = t
    BY <1>1, <1>16, Appends
  <2>2. Opened' = ToSet(pending) /\ ToSet(pending) \subseteq Opened /\ Taken \subseteq Opened
        /\ Taken' = {}
    BY <2>1 DEF Opened, Taken
  <2>3. ASSUME NEW o \in Opened', ~o.early PROVE ApartFrom(o)'
    <3>1. ApartFrom(o) /\ o.tab \in registered
      BY <1>1, <1>2, <2>2, <2>3 DEF OpenedFit
    <3>2. ASSUME NEW q \in Taken PROVE q.tab # o.tab
      <4>1. CASE q.early
        BY <1>1, <2>2, <3>1, <3>2, <4>1 DEF OpenedFit
      <4>2. CASE ~q.early
        BY <1>2, <2>2, <2>3, <3>2, <4>2 DEF Distinct
      <4>3. QED
        BY <4>1, <4>2
    <3>3. o.tab \notin DOMAIN page'.tabs
      BY <2>1, <3>1, <3>2 DEF ApartFrom
    <3>4. QED
      BY <2>1, <3>1, <3>3 DEF ApartFrom, Booting, At
  <2>4. Distinct'
    BY <2>2 DEF Distinct
  <2>5. QED
    BY <1>2, <2>3, <2>4
<1>17. CASE PickGrant
  <2>1. /\ UNCHANGED <<page, pending, taken>>
        /\ command' = Absent \/
           \E t \in Tab : Registered(t) /\ command'.kind = "open" /\ command'.tab = t
    BY <1>1, <1>17, Picks
  <2>2. ASSUME NEW t \in Tab, Registered(t), command'.kind = "open" /\ command'.tab = t PROVE Apart'
    <3>1. ASSUME NEW o \in Opened, ApartFrom(o) PROVE ApartFrom(o)'
      <4>1. o.tab # t
        BY <2>2, <3>1, FreshIsNew
      <4>2. QED
        BY <2>1, <2>2, <3>1, <4>1 DEF ApartFrom, Booting, At
    <3>2. QED
      BY <1>3, <2>1, <3>1
  <2>3. QED
    BY <1>3, <1>4, <2>1, <2>2
<1>18. CASE create_offline_tab
  <2>1. UNCHANGED <<page, pending, taken>> /\ command'.kind = "open" /\ Registered(command'.tab)
    BY <1>1, <1>18, Creates
  <2>2. ASSUME NEW o \in Opened, ApartFrom(o) PROVE ApartFrom(o)'
    <3>1. o.tab # command'.tab
      BY <2>1, <2>2, FreshIsNew
    <3>2. QED
      BY <2>1, <2>2, <3>1 DEF ApartFrom, Booting, At
  <2>3. QED
    BY <1>3, <2>1, <2>2
<1>19. CASE \E t \in Tab : close_offline_tab(t)
  <2>1. UNCHANGED <<page, pending, taken>> /\ command'.kind = "close"
    BY <1>19 DEF close_offline_tab, Doing
  <2>2. QED
    BY <1>3, <1>4, <2>1
<1>20. CASE Restamp
  <2>1. /\ UNCHANGED <<page, pending, taken>>
        /\ command' = Absent \/ command'.kind \in {"save", "save as"}
    BY <1>1, <1>20, Restamps
  <2>2. QED
    BY <1>3, <1>4, <2>1
<1>21. CASE \E t \in Tab, text \in Text : handleEditorChange(t, text)
  BY <1>1, <1>3, <1>4, <1>21, Types
<1>22. CASE Die
  <2>1. taken' = Absent /\ pending' = <<>>
    BY <1>22 DEF Die
  <2>2. Opened' = {} /\ ToSet(pending') = {}
    BY <2>1 DEF Opened, ToSet
  <2>3. Distinct'
    BY <2>2 DEF Distinct
  <2>4. QED
    BY <1>2, <2>2, <2>3
<1>23. QED
  BY <1>6, <1>7, <1>8, <1>9, <1>10, <1>11, <1>12, <1>14, <1>15, <1>16, <1>17, <1>18, <1>19,
     <1>20, <1>21, <1>22, StepsAre DEF ReplyStep

-----------------------------------------------------------------------------
(* The invariant, and what follows from it *)

LEMMA FilesInitially == Init => FilesInv
<1> SUFFICES ASSUME Init PROVE FilesInv
  OBVIOUS
<1>1. /\ setting \in Settings /\ disk \in [File -> Text]
      /\ opening = Closed /\ health = "closed"
      /\ registered = {} /\ grants = NoTabs /\ pending = <<>> /\ routing = Absent
      /\ stored = NoTabs /\ page = ClosedPage /\ command = Absent /\ taken = Absent
      /\ saves = [by \in Caller |-> Absent]
  BY DEF Init, StoreInit
<1>2. /\ grants \in Partial(Grant, Granted) /\ DOMAIN grants = {}
      /\ stored \in Partial(Tab, StoredTab) /\ DOMAIN stored = {}
      /\ NoTabs \in Partial(Tab, PageTab)
  BY <1>1, NoTabsIs
<1>3. page.tabs = NoTabs /\ DOMAIN page.tabs = {} /\ ~page.up /\ page \in PageRow
  BY <1>1, <1>2, NoTabsIs DEF ClosedPage, PageRow
<1>4. ToSet(pending) = {} /\ Opened = {} /\ Taken = {} /\ pending \in Seq(Opening)
  BY <1>1 DEF ToSet, Opened, Taken
<1>5. disk \in [File -> Text \cup {Absent}] /\ setting \in Setting
  BY <1>1, LocalFilesAssumption
<1>6. \A by \in Caller : saves[by] = Absent
  BY <1>1
<1>7. saves \in [Caller -> Call \cup {Absent}]
  BY <1>1
<1>8. Typed
  BY <1>1, <1>2, <1>3, <1>4, <1>5, <1>7 DEF Typed
<1>9. Resting
  BY <1>1, <1>3, <1>4, <1>6 DEF Resting
<1>10. Waiting
  BY <1>6 DEF Waiting, Caller
<1>11. Books
  BY <1>2, <1>6 DEF Books, Storing
<1>12. Fit /\ SaveKnows
  BY <1>1, <1>3, <1>4, <1>6
     DEF Fit, ShownFit, OpenedFit, BootFit, NewFit, AskedFit, SaveKnows, Booting, At, Asking,
         Saving, InSave
<1>13. Sole /\ Apart
  BY <1>1, <1>3, <1>4 DEF Sole, Apart, Holds, Booting, At
<1>14. QED
  BY <1>8, <1>9, <1>10, <1>11, <1>12, <1>13 DEF FilesInv

LEMMA FilesStutter == FilesInv /\ UNCHANGED vars => FilesInv'
<1> SUFFICES ASSUME FilesInv, UNCHANGED vars PROVE FilesInv'
  OBVIOUS
<1>1. UNCHANGED <<opening, health, disk, registered, grants, pending, routing, stored, page,
                  command, taken, saves, setting>>
  BY DEF vars, moving, appVars, storeVars
<1>2. Typed'
  BY <1>1 DEF FilesInv, Typed
<1>3. Resting' /\ Waiting'
  BY <1>1 DEF FilesInv, Resting, Waiting
<1>4. Books'
  BY <1>1 DEF FilesInv, Books, Storing
<1>5. Fit'
  BY <1>1 DEF FilesInv, Fit, ShownFit, OpenedFit, BootFit, NewFit, AskedFit, Opened, Booting,
              Closing, At, Asking
<1>6. SaveKnows'
  BY <1>1 DEF FilesInv, SaveKnows, Saving, InSave
<1>7. \A t, g : Holds(t, g)' <=> Holds(t, g)
  BY <1>1 DEF Holds, Opened, Booting, At
<1>8. Sole' /\ Apart'
  BY <1>1, <1>7 DEF FilesInv, Sole, Apart, Taken, Opened, Booting, At
<1>9. QED
  BY <1>2, <1>3, <1>4, <1>5, <1>6, <1>8 DEF FilesInv

LEMMA FilesStep == FilesInv /\ Next => FilesInv'
<1> SUFFICES ASSUME FilesInv, Next PROVE FilesInv'
  OBVIOUS
<1>1. Typed /\ Resting /\ Waiting /\ Books /\ Fit /\ SaveKnows
  BY DEF FilesInv
<1>2. Typed'
  BY <1>1, TypedKeeps
<1>3. Resting'
  BY <1>1, <1>2, RestingKeeps
<1>4. Waiting' /\ Books'
  BY <1>1, <1>2, WaitingKeeps, BooksKeep
<1>5. ShownFit'
  BY <1>2, <1>3, ShownFitKeeps
<1>6. Fit'
  BY <1>2, <1>3, <1>5, OpenedFitKeeps, BootFitKeeps, NewFitKeeps, AskedFitKeeps DEF Fit
<1>7. SaveKnows' /\ Sole' /\ Apart'
  BY <1>2, <1>3, SaveKnowsKeeps, SoleKeeps, ApartKeeps
<1>8. QED
  BY <1>2, <1>3, <1>4, <1>6, <1>7 DEF FilesInv

LEMMA FilesInvHolds == Spec => []FilesInv
<1>1. FilesInv /\ [Next]_vars => FilesInv'
  BY FilesStep, FilesStutter
<1>2. QED
  BY <1>1, FilesInitially, PTL DEF Spec

(* Saving, closing and the recovery of the workspace go through: however    *)
(* routed files, replies, closes, saves and restarts interleave, a tab the  *)
(* page shows is in the ownership registry of the native side and its grant *)
(* in file_grants, unless its reply is on the way or its file was routed    *)
(* before the bootstrap that emptied both (bootstrap_workspace, phase1.rs). *)
THEOREM TabsAlwaysUsable == Spec => []TabsStayUsable
<1>1. FilesInv => TabsStayUsable
  BY DEF FilesInv, Fit, ShownFit, GoodFor, Closing, TabsStayUsable, authorize_tab, resolve_granted
<1>2. QED
  BY <1>1, FilesInvHolds, PTL

(* Closing a tab that is not marked dirty loses nothing: its text is what   *)
(* its grant says was read or written, through every save, workspace save   *)
(* and recovery (workspace_to_view, saveActiveSqlFile), but for the two     *)
(* races CleanMeansSaved names.                                             *)
THEOREM CleanIsSaved == Spec => []CleanMeansSaved
<1>1. FilesInv => CleanMeansSaved
  BY DEF FilesInv, Fit, ShownFit, GoodFor, CleanMeansSaved
<1>2. QED
  BY <1>1, FilesInvHolds, PTL

(* save_sql_file replaces what the tab was given or has written and nothing *)
(* else, except by a write of another program between the reading of the    *)
(* file for the comparison and the rename: what it compared, and what the   *)
(* stamp was of, are still in the file (phase1.rs:686).                     *)
THEOREM SavesOverwriteWhatWasSeen == Spec => NothingOverwrittenUnseen
<1>1. FilesInv =>
        (At({"save"}, "rename") /\ command' # Absent /\ command'.stage = "stamp"
           => command.raced \/ disk[command.file] = grants[command.grant].seen)
  <2> SUFFICES ASSUME FilesInv, At({"save"}, "rename")
               PROVE  command.raced \/ disk[command.file] = grants[command.grant].seen
    OBVIOUS
  <2>1. InSave({"write", "rename"})
    BY DEF At, InSave, Saving
  <2>2. QED
    BY <2>1 DEF FilesInv, SaveKnows
<1>2. QED
  BY <1>1, FilesInvHolds, PTL DEF NothingOverwrittenUnseen

-----------------------------------------------------------------------------
(* The store of the program: no step but its own open writes it, whatever   *)
(* the page and the other programs do, and with the process dying anywhere. *)
StoreStep == StoreNext \/ OpenFails \/ StoreDies

(* The store is written by its own open and by nothing else: every other    *)
(* step of the program leaves the file, the open and the health alone.      *)
LEMMA OnlyTheOpenWrites == [Next]_vars => [StoreStep]_storeVars
<1> SUFFICES ASSUME Next, ~ UNCHANGED storeVars
             PROVE  StoreStep
  BY DEF vars, moving
<1>1. CASE Native
  <2>1. UNCHANGED storeVars \/ OpenStore
    BY <1>1 DEF Native, bootstrap_workspace, RouteQueue, save_workspace, StoreWorkspace,
                take_pending_sql_files, PickGrant, CheckSource, CompareStamp, ChoosePath,
                WriteTemporary, Rename, Restamp
  <2>2. QED
    BY <2>1 DEF OpenStore, StoreStep
<1>2. CASE Page
  BY <1>2 DEF Page, ApplyBootstrap, TimerFires, Drain, appendOpenedSqlFiles,
              ApplyOpened, ApplyClosed, ApplySaved
<1>3. CASE User
  BY <1>3 DEF User, RouteRead, PickRead, create_offline_tab, clear_saved_workspace,
              close_offline_tab, SaveFile, handleEditorChange
<1>4. CASE Others
  BY <1>4 DEF Others, OthersWrite
<1>5. CASE Machine
  BY <1>5 DEF Machine, Die, StoreStep
<1>6. QED
  BY <1>1, <1>2, <1>3, <1>4, <1>5 DEF Next

-----------------------------------------------------------------------------
(* SchemaWhole is not inductive.  A commit is whole because it is made in   *)
(* the one stage in which a version to migrate to is left; "healthy" is     *)
(* right because every stage after the check has seen a sound file, and the *)
(* last one the current version; and only a file that was not there is      *)
(* created.                                                                 *)
Stages == {"closed", "check", "vacuum", "version", "statements", "pool"}

Db == [exists : BOOLEAN, sound : BOOLEAN, version : 0..(CurrentStoreVersion + 1),
       objects : SUBSET (Nat \X Nat), vacuum : BOOLEAN]

Open == [stage : Stages, existed : BOOLEAN, made : SUBSET (Nat \X Nat)]

StoreTyped == db \in Db /\ opening \in Open /\ IsFiniteSet(opening.made)

Whole == db.version <= CurrentStoreVersion => db.objects = Schema(db.version)

Migratable ==
  /\ opening.stage \in {"vacuum", "version", "statements", "pool"} => db.sound
  /\ opening.stage = "statements" => db.version < CurrentStoreVersion
  /\ opening.stage = "pool" => db.version = CurrentStoreVersion

NewIsEmpty ==
  /\ ~db.exists => db.sound /\ db.version = 0
  /\ opening.stage # "closed" => db.exists
  /\ opening.stage \in {"check", "vacuum"} /\ ~opening.existed => db.sound /\ db.version = 0
  /\ opening.stage = "vacuum" => ~opening.existed

StoreInv ==
  /\ StoreTyped /\ Whole /\ Migratable /\ NewIsEmpty
  /\ health = "healthy" => db.sound /\ db.version = CurrentStoreVersion

(* A version of the schema is the one before and its own statements.        *)
LEMMA SchemaGrows == ASSUME NEW v \in Nat
                     PROVE  Schema(v + 1) = Schema(v) \cup Statements(v + 1)
<1>1. 1..(v + 1) = 1..v \cup {v + 1}
  OBVIOUS
<1> HIDE DEF Statements
<1>2. QED
  BY <1>1 DEF Schema

LEMMA StatementsTyped == ASSUME NEW v \in 1..CurrentStoreVersion
                         PROVE  Statements(v) \subseteq Nat \X Nat
<1>1. Migrations[v] \in Nat /\ v \in Nat
  BY DEF Migrations, CurrentStoreVersion
<1>2. QED
  BY <1>1 DEF Statements

LEMMA SchemaTyped == ASSUME NEW v \in 0..CurrentStoreVersion
                     PROVE  Schema(v) \subseteq Nat \X Nat
<1>1. \A u \in 1..v : Statements(u) \subseteq Nat \X Nat
  BY StatementsTyped DEF CurrentStoreVersion
<1>2. QED
  BY <1>1 DEF Schema

LEMMA StoreInitially == StoreInit => StoreInv
<1> SUFFICES ASSUME StoreInit PROVE StoreInv
  OBVIOUS
<1> USE DEF CurrentStoreVersion
<1>1. opening = Closed /\ health = "closed"
  BY DEF StoreInit
<1>2. opening \in Open /\ IsFiniteSet(opening.made)
  BY <1>1, FS_EmptySet DEF Closed, Open, Stages
<1>3. Schema(0) = {}
  BY DEF Schema
<1>4. CASE db = NoFile
  BY <1>1, <1>2, <1>3, <1>4
     DEF StoreInv, StoreTyped, Db, Whole, Migratable, NewIsEmpty, NoFile, Closed
<1>5. ASSUME NEW v \in 1..(CurrentStoreVersion + 1), NEW sound \in BOOLEAN,
             db = [exists |-> TRUE, sound |-> sound, version |-> v, vacuum |-> TRUE,
                   objects |-> IF v <= CurrentStoreVersion THEN Schema(v) ELSE {<<v, 1>>}]
      PROVE  StoreInv
  <2>1. v <= CurrentStoreVersion => Schema(v) \subseteq Nat \X Nat
    BY SchemaTyped
  <2>2. db \in Db
    BY <1>5, <2>1 DEF Db
  <2>3. QED
    BY <1>1, <1>2, <1>5, <2>2 DEF StoreInv, StoreTyped, Whole, Migratable, NewIsEmpty, Closed
<1>6. CASE db = Damaged
  <2>1. db = [exists |-> TRUE, sound |-> FALSE, version |-> 1, vacuum |-> TRUE,
              objects |-> IF 1 <= CurrentStoreVersion THEN Schema(1) ELSE {<<1, 1>>}]
    BY <1>6 DEF Damaged
  <2>2. FALSE \in BOOLEAN /\ 1 \in 1..(CurrentStoreVersion + 1)
    OBVIOUS
  <2>3. QED
    BY <1>5, <2>1, <2>2
<1>7. QED
  BY <1>4, <1>5, <1>6, StoreAssumption DEF StoreInit, StoreOf

LEMMA StoreInductive == StoreInv /\ [StoreStep]_storeVars => StoreInv'
<1> SUFFICES ASSUME StoreInv, [StoreStep]_storeVars PROVE StoreInv'
  OBVIOUS
<1> USE DEF StoreInv, Whole, Migratable, NewIsEmpty, CurrentStoreVersion
<1> USE DEF StoreTyped, Db, Open, Stages
<1>1. CASE Connect
  BY <1>1, FS_EmptySet DEF Connect
<1>2. CASE QuickCheck
  <2>1. CASE db.sound
    <3>1. opening' = [opening EXCEPT !.stage = IF opening.existed THEN "version" ELSE "vacuum"]
      BY <1>2, <2>1 DEF QuickCheck, Stage
    <3>2. QED
      BY <1>2, <2>1, <3>1 DEF QuickCheck
  <2>2. CASE ~db.sound
    <3>1. db' = db /\ opening' = Closed /\ health' = "migration_failed"
      BY <1>2, <2>2 DEF QuickCheck, Report
    <3>2. QED
      BY <3>1, FS_EmptySet DEF Closed
  <2>3. QED
    BY <2>1, <2>2
<1>3. CASE SetAutoVacuum
  BY <1>3 DEF SetAutoVacuum, Stage
<1>4. CASE ReadVersion
  <2>1. CASE db.version > CurrentStoreVersion
    <3>1. db' = db /\ opening' = Closed /\ health' = "migration_failed"
      BY <1>4, <2>1 DEF ReadVersion, Report
    <3>2. QED
      BY <3>1, FS_EmptySet DEF Closed
  <2>2. CASE ~(db.version > CurrentStoreVersion)
    <3>1. opening' = [opening EXCEPT
                        !.stage = IF db.version = CurrentStoreVersion THEN "pool" ELSE "statements"]
      BY <1>4, <2>2 DEF ReadVersion, Stage
    <3>2. QED
      BY <1>4, <2>2, <3>1 DEF ReadVersion
  <2>3. QED
    BY <2>1, <2>2
<1>5. CASE RunStatement
  <2> DEFINE ran == <<db.version + 1, Cardinality(opening.made) + 1>>
  <2>1. ran \in Nat \X Nat
    BY FS_CardinalityType
  <2>2. IsFiniteSet(opening.made \cup {ran})
    BY FS_AddElement
  <2> HIDE DEF ran
  <2>3. opening' = [opening EXCEPT !.made = @ \cup {ran}] /\ UNCHANGED <<db, health>>
    BY <1>5 DEF RunStatement, ran
  <2>4. QED
    BY <2>1, <2>2, <2>3
<1>6. CASE CommitVersion
  <2>1. db' = [db EXCEPT !.version = @ + 1, !.objects = @ \cup opening.made]
    BY <1>6 DEF CommitVersion
  <2>2. db.version \in Nat /\ db.version < CurrentStoreVersion /\ db.sound
    BY <1>6 DEF CommitVersion
  <2>3. /\ db' \in Db /\ db'.version = db.version + 1
        /\ db'.sound = db.sound /\ db'.exists = db.exists
        /\ db'.objects = db.objects \cup opening.made
    <3>1. db.objects \cup opening.made \in SUBSET (Nat \X Nat)
      OBVIOUS
    <3>2. db.version + 1 \in 0..(CurrentStoreVersion + 1)
      BY <2>2
    <3>3. QED
      BY <2>1, <3>1, <3>2
  <2>4. db'.objects = Schema(db'.version)
    BY <1>6, <2>1, <2>2, <2>3, SchemaGrows DEF CommitVersion
  <2>5. opening' \in Open /\ opening'.made = {}
    BY <1>6 DEF CommitVersion
  <2>6. opening'.stage = IF db'.version = CurrentStoreVersion THEN "pool" ELSE "statements"
    BY <1>6, <2>3 DEF CommitVersion
  <2>7. db.exists
    BY <1>6, <2>2 DEF CommitVersion
  <2>8. QED
    BY <1>6, <2>2, <2>3, <2>4, <2>5, <2>6, <2>7, FS_EmptySet DEF CommitVersion
<1>7. CASE OpenPool
  BY <1>7, FS_EmptySet DEF OpenPool, Report, Closed
<1>8. CASE OpenFails
  <2>1. "healthy" \notin Failures(opening.stage)
    BY DEF Failures
  <2>2. db' = db /\ opening' = Closed /\ health' # "healthy"
    BY <1>8, <2>1 DEF OpenFails, Report
  <2>3. QED
    BY <2>2, FS_EmptySet DEF Closed
<1>9. CASE StoreDies
  BY <1>9, FS_EmptySet DEF StoreDies, Closed
<1>10. CASE UNCHANGED storeVars
  BY <1>10 DEF storeVars
<1>11. QED
  BY <1>1, <1>2, <1>3, <1>4, <1>5, <1>6, <1>7, <1>8, <1>9, <1>10 DEF StoreStep, StoreNext

LEMMA StoreInvHolds == Spec => []StoreInv
<1>1. Init => StoreInv
  BY StoreInitially DEF Init
<1>2. StoreInv /\ [Next]_vars => StoreInv'
  BY StoreInductive, OnlyTheOpenWrites
<1>3. QED
  BY <1>1, <1>2, PTL DEF Spec

(* Wherever a migration is interrupted or fails, the file holds exactly     *)
(* what the version it names has, and a process that was told "healthy"     *)
(* works on the whole current schema (migrate, store.rs).                   *)
THEOREM SchemaIsWhole == Spec => []SchemaWhole
<1>1. StoreInv => SchemaWhole
  BY DEF StoreInv, Whole, SchemaWhole
<1>2. QED
  BY <1>1, StoreInvHolds, PTL

(* No step of the program, however it is interrupted and started again,     *)
(* takes anything from a store, or touches one that is damaged or newer.    *)
THEOREM OldStoreIsKept == Spec => OldStoreKept
<1>1. StoreInv /\ [Next]_vars =>
        [/\ db.objects \subseteq db'.objects
         /\ (~db.sound \/ db.version > CurrentStoreVersion) => db' = db]_storeVars
  <2> SUFFICES ASSUME StoreInv, StoreStep
               PROVE  /\ db.objects \subseteq db'.objects
                      /\ (~db.sound \/ db.version > CurrentStoreVersion) => db' = db
    BY OnlyTheOpenWrites
  <2> USE DEF StoreInv, StoreTyped, Db, Open, Stages, Migratable, NewIsEmpty, CurrentStoreVersion
  <2>1. CASE Connect
    BY <2>1 DEF Connect
  <2>2. CASE SetAutoVacuum
    BY <2>2 DEF SetAutoVacuum
  <2>3. CASE CommitVersion
    BY <2>3 DEF CommitVersion
  <2>4. CASE UNCHANGED db
    BY <2>4
  <2>5. QED
    BY <2>1, <2>2, <2>3, <2>4 DEF StoreStep, StoreNext, QuickCheck, ReadVersion, RunStatement,
                                   OpenPool, OpenFails, StoreDies
<1>2. QED
  BY <1>1, StoreInvHolds, PTL DEF Spec, OldStoreKept

-----------------------------------------------------------------------------

(* A step that leaves the queue, its reply and the page's drain alone.      *)
QueueStill ==
  /\ UNCHANGED <<pending, taken>>
  /\ page'.up = page.up /\ page'.requested = page.requested /\ page'.draining = page.draining
  /\ saves["drain"] = Absent => saves'["drain"] = Absent

DrainAnswered ==
  /\ UNCHANGED <<pending, taken>> /\ saves["drain"] # Absent /\ saves'["drain"] = Absent
  /\ page' = [page EXCEPT !.draining = FALSE]

QueueStep ==
  \/ Drain \/ bootstrap_workspace \/ ApplyBootstrap \/ RouteQueue
  \/ take_pending_sql_files \/ appendOpenedSqlFiles \/ Die

LEMMA AnswersDrain ==
  ASSUME Typed, NEW by \in Caller, Answer(by), saves[by] # Absent, UNCHANGED <<pending, taken>>
  PROVE  QueueStill \/ DrainAnswered
<1>1. "drain" \in Caller /\ saves'["drain"] = IF by = "drain" THEN Absent ELSE saves["drain"]
  BY AnswerIs DEF Caller
<1>2. CASE by = "drain"
  BY <1>1, <1>2 DEF Answer, DrainAnswered
<1>3. CASE by # "drain"
  BY <1>1, <1>3 DEF Answer, QueueStill
<1>4. QED
  BY <1>2, <1>3

LEMMA QueueSteps ==
  ASSUME FilesInv, Next
  PROVE  QueueStill \/ DrainAnswered \/ QueueStep
<1> USE DEF FilesInv, Fit
<1>1. /\ "command" \in Caller /\ "timer" \in Caller /\ "drain" \in Caller
      /\ page \in PageRow
  BY DEF Caller, Typed
<1>2. ASSUME UNCHANGED <<pending, taken, page, saves>> PROVE QueueStill
  BY <1>2 DEF QueueStill
<1>3. CASE CommandStep
  BY <1>2, <1>3, CommandSteps
<1>4. CASE AsideStep
  <2>1. CASE (\E f \in File : RouteRead(f)) \/ clear_saved_workspace
    BY <1>2, <2>1 DEF RouteRead, clear_saved_workspace
  <2>2. CASE TimerFires
    <3>1. /\ UNCHANGED <<pending, taken>> /\ page' = [page EXCEPT !.timer = FALSE]
          /\ Save("timer", page.tabs) /\ page.tabs \in Partial(Tab, PageTab)
      BY <2>2, FunFacts DEF TimerFires
    <3>2. saves'["drain"] = saves["drain"]
      BY <1>1, <3>1, Asks
    <3>3. QED
      BY <1>1, <3>1, <3>2 DEF QueueStill, PageRow
  <2>3. CASE Drain
    BY <2>3 DEF QueueStep
  <2>4. CASE \E by \in Caller : save_workspace(by)
    <3>1. PICK by \in Caller : save_workspace(by)
      BY <2>4
    <3>2. /\ UNCHANGED <<pending, taken>> /\ saves[by] # Absent
          /\ \A x \in Caller : x # by => saves'[x] = saves[x]
          /\ Answer(by) \/ UNCHANGED page
      BY <3>1, Saves
    <3>3. CASE Answer(by)
      BY <3>2, <3>3, AnswersDrain
    <3>4. CASE UNCHANGED page
      BY <1>1, <3>2, <3>4 DEF QueueStill
    <3>5. QED
      BY <3>2, <3>3, <3>4
  <2>5. CASE \E by \in Caller : StoreWorkspace(by)
    BY <2>5, Stores, AnswersDrain
  <2>6. QED
    BY <1>4, <2>1, <2>2, <2>3, <2>4, <2>5 DEF AsideStep
<1>5. CASE ReplyStep
  <2>1. PICK tabs \in Partial(Tab, PageTab) : Put(tabs)
    BY <1>5, ReplySteps
  <2>2. saves'["drain"] = saves["drain"]
    BY <1>1, <2>1, Asks DEF Put
  <2>3. UNCHANGED <<pending, taken>>
    BY <1>5, ReplySteps DEF ReplyStill
  <2>4. page' = [page EXCEPT !.tabs = tabs]
    BY <2>1 DEF Put
  <2>5. QED
    BY <1>1, <2>2, <2>3, <2>4 DEF QueueStill, PageRow
<1>6. CASE OpenStore
  BY <1>2, <1>6, Starting
<1>7. CASE PickGrant \/ create_offline_tab
  BY <1>2, <1>7, Picks, Creates
<1>8. CASE \E t \in Tab : close_offline_tab(t)
  BY <1>2, <1>8 DEF close_offline_tab
<1>9. CASE Restamp
  <2>1. /\ UNCHANGED <<pending, page, taken>>
        /\ UNCHANGED saves \/ \E g \in Grant : Overtake(g, command.text)
    BY <1>9, Restamps
  <2>2. ASSUME NEW g \in Grant, Overtake(g, command.text), saves["drain"] = Absent
        PROVE  saves'["drain"] = Absent
    BY <1>1, <2>2, OvertakeIs DEF Asking
  <2>3. QED
    BY <2>1, <2>2 DEF QueueStill
<1>10. CASE \E t \in Tab, text \in Text : handleEditorChange(t, text)
  BY <1>1, <1>10 DEF handleEditorChange, QueueStill, PageRow
<1>11. CASE QueueStep
  BY <1>11
<1>12. QED
  BY <1>3, <1>4, <1>5, <1>6, <1>7, <1>8, <1>9, <1>10, <1>11, StepsAre DEF QueueStep

(* A drain is under way from its first look into the queue until its reply  *)
(* is shown and the workspace saved, one after the other.                   *)
DrainInv ==
  /\ page.draining \/ (taken = Absent /\ saves["drain"] = Absent)
  /\ taken = Absent \/ saves["drain"] = Absent
  /\ SignalKept

LEMMA DrainInductive == FilesInv /\ DrainInv /\ Next => DrainInv'
<1> SUFFICES ASSUME FilesInv, DrainInv, Next PROVE DrainInv'
  OBVIOUS
<1> USE DEF DrainInv, SignalKept
<1>1. page \in PageRow /\ saves \in [Caller -> Call \cup {Absent}] /\ "drain" \in Caller
  BY DEF FilesInv, Typed, Caller
<1>2. CASE QueueStill
  BY <1>2 DEF QueueStill
<1>3. CASE DrainAnswered
  BY <1>1, <1>3 DEF DrainAnswered, PageRow
<1>4. CASE Drain
  BY <1>1, <1>4 DEF Drain, PageRow
<1>5. CASE bootstrap_workspace
  BY <1>5 DEF bootstrap_workspace
<1>6. CASE ApplyBootstrap
  BY <1>1, <1>6 DEF ApplyBootstrap, PageRow
<1>7. CASE RouteQueue
  <2>1. /\ UNCHANGED <<taken, saves>>
        /\ UNCHANGED <<pending, page>> \/ page' = [page EXCEPT !.requested = page.up]
    BY <1>7, Routes DEF FilesInv
  <2>2. QED
    BY <1>1, <2>1 DEF PageRow
<1>8. CASE take_pending_sql_files
  BY <1>8 DEF take_pending_sql_files
<1>9. CASE appendOpenedSqlFiles
  <2>1. taken # Absent /\ taken' = Absent /\ UNCHANGED pending /\ saves["drain"] = Absent
    BY <1>9 DEF appendOpenedSqlFiles
  <2>2. CASE page' = [page EXCEPT !.draining = FALSE] /\ UNCHANGED saves
    BY <1>1, <2>1, <2>2 DEF PageRow
  <2>3. CASE \E tabs : page' = [page EXCEPT !.tabs = tabs, !.draining = Meets("restore")]
                       /\ Save("drain", tabs)
    <3>1. PICK tabs : page' = [page EXCEPT !.tabs = tabs, !.draining = Meets("restore")]
                      /\ Save("drain", tabs)
      BY <2>3
    <3>2. page'.draining = Meets("restore") /\ page'.up = page.up /\ page'.requested = page.requested
      BY <1>1, <3>1 DEF PageRow
    <3>3. ~Meets("restore") => saves'["drain"] = Absent
      BY <1>1, <3>1 DEF Save
    <3>4. QED
      BY <2>1, <3>2, <3>3
  <2>4. QED
    BY <1>9, <2>2, <2>3 DEF appendOpenedSqlFiles
<1>10. CASE Die
  BY <1>10 DEF Die, ClosedPage, Caller
<1>11. QED
  BY <1>2, <1>3, <1>4, <1>5, <1>6, <1>7, <1>8, <1>9, <1>10, QueueSteps DEF QueueStep

(* No signal is lost on a page that drains already, saves the workspace or  *)
(* is starting.                                                             *)
THEOREM SignalsAreKept == Spec => []SignalKept
<1>1. Init => DrainInv
  BY DEF Init, DrainInv, SignalKept, Caller
<1>2. FilesInv /\ DrainInv /\ [Next]_vars => DrainInv'
  <2>1. DrainInv /\ UNCHANGED vars => DrainInv'
    BY DEF vars, moving, appVars, DrainInv, SignalKept
  <2>2. QED
    BY <2>1, DrainInductive
<1>3. DrainInv => SignalKept
  BY DEF DrainInv
<1>4. QED
  BY <1>1, <1>2, <1>3, FilesInvHolds, PTL DEF Spec

Waits == {open.tab : open \in Opened}

(* A file that was routed stays in the queue, in the reply or on the page.  *)
THEOREM RoutedFilesAreKept == Spec => RoutedFilesStay
<1>1. FilesInv /\ [Next]_vars =>
        [Die \/ {open.tab : open \in Opened} \subseteq {open.tab : open \in Opened'} \cup DOMAIN page'.tabs]_vars
  <2> SUFFICES ASSUME FilesInv, Next, ~Die PROVE Waits \subseteq Waits' \cup DOMAIN page'.tabs
    BY DEF Waits
  <2>t. Typed
    BY DEF FilesInv
  <2>1. CASE QueueStill \/ DrainAnswered \/ Drain \/ ApplyBootstrap
    BY <2>1 DEF QueueStill, DrainAnswered, Drain, ApplyBootstrap, Waits, Opened
  <2>2. CASE bootstrap_workspace
    <3>1. /\ UNCHANGED taken
          /\ pending' = [i \in DOMAIN pending |-> [pending[i] EXCEPT !.early = TRUE]]
      BY <2>2 DEF bootstrap_workspace
    <3>2. \A i \in DOMAIN pending : pending[i] \in Opening
      BY <2>t DEF Typed
    <3>3. \A i \in DOMAIN pending : pending'[i].tab = pending[i].tab
      BY <3>1, <3>2 DEF Opening
    <3>4. QED
      BY <3>1, <3>3 DEF Waits, Opened, ToSet
  <2>3. CASE RouteQueue
    <3>1. UNCHANGED taken /\ ToSet(pending) \subseteq ToSet(pending')
      BY <2>3, <2>t, Routes
    <3>2. QED
      BY <3>1 DEF Waits, Opened
  <2>4. CASE take_pending_sql_files
    <3>1. taken = Absent /\ taken' = pending
      BY <2>4 DEF take_pending_sql_files
    <3>2. pending # Absent
      BY <2>t, LocalFilesAssumption DEF Typed, Opening
    <3>3. QED
      BY <3>1, <3>2 DEF Waits, Opened
  <2>5. CASE appendOpenedSqlFiles
    <3>1. UNCHANGED pending /\ taken # Absent /\ taken' = Absent
      BY <2>5 DEF appendOpenedSqlFiles
    <3>2. ToSet(<<>>) = {}
      BY DEF ToSet
    <3>3. \A o \in ToSet(taken) : o.tab \in DOMAIN page'.tabs
      <4>1. CASE taken = <<>>
        BY <3>2, <4>1
      <4>2. CASE taken # <<>>
        <5> DEFINE new == {open \in ToSet(taken) : open.tab \notin DOMAIN page.tabs}
                   tabs == [t \in DOMAIN page.tabs \cup {open.tab : open \in new} |->
                              IF t \in DOMAIN page.tabs THEN page.tabs[t]
                              ELSE OpenedTab(CHOOSE open \in new : open.tab = t)]
        <5>1. page' = [page EXCEPT !.tabs = tabs, !.draining = Meets("restore")]
          BY <2>5, <4>2 DEF appendOpenedSqlFiles
        <5>2. DOMAIN tabs = DOMAIN page.tabs \cup {open.tab : open \in new}
          OBVIOUS
        <5>3. \A o \in ToSet(taken) : o.tab \in DOMAIN tabs
          BY <5>2
        <5> HIDE DEF tabs
        <5>4. page'.tabs = tabs
          BY <2>t, <5>1 DEF Typed, PageRow
        <5>5. QED
          BY <5>3, <5>4
      <4>3. QED
        BY <4>1, <4>2
    <3>4. QED
      BY <3>1, <3>3 DEF Waits, Opened
  <2>6. QED
    BY <2>1, <2>2, <2>3, <2>4, <2>5, QueueSteps DEF QueueStep
<1>2. QED
  BY <1>1, FilesInvHolds, PTL DEF Spec, RoutedFilesStay

=============================================================================
