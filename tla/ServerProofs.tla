---------------------------- MODULE ServerProofs ----------------------------
(* What a connection gets, for any number of connections, pages, templates   *)
(* and resources.  The first part is about the templates alone: a request    *)
(* that loads the templates writes all of its page, and no page lacks its    *)
(* header. The second shows that the server uses them as LazyTemplates says, *)
(* and how many responses it writes.                                         *)
EXTENDS Server, TLAPS

(* ------------------------------------------------------------------------ *)
(* The templates.                                                            *)

First(p) == LoadOrder[p][1]

Order(r) == LoadOrder[page[r]]

(* What is known of a request by the place it is at.                         *)
Types ==
  /\ loaded \in [Pages -> SUBSET UNION {Templates(p) : p \in Pages}]
  /\ pc \in [Requests -> {"idle", "loading", "deciding", "writing", "done"}]
  /\ page \in [Requests -> Pages \cup {NoPage}]
  /\ layout \in [Requests -> {<<>>} \cup AllLayouts]
  /\ at \in [Requests -> Nat \ {0}]
  /\ shown \in [Requests -> SUBSET (Nat \ {0})]
  /\ loader \in [Requests -> BOOLEAN]

Idle(r) == pc[r] = "idle" => at[r] = 1 /\ shown[r] = {}

Started(r) ==
  /\ pc[r] # "idle" => page[r] \in Pages
  /\ pc[r] \in {"writing", "done"} => layout[r] \in Layouts[page[r]]

(* A loading request has loaded the templates before its next one.           *)
Loading(r) ==
  pc[r] = "loading" =>
    /\ at[r] \in DOMAIN Order(r) /\ shown[r] = {}
    /\ \A k \in 1..at[r] - 1 : Order(r)[k] \in loaded[page[r]]

(* A deciding request finds the first template, and a loader finds all.      *)
Deciding(r) ==
  pc[r] = "deciding" =>
    /\ at[r] = 1 /\ shown[r] = {}
    /\ First(page[r]) \in loaded[page[r]]
    /\ loader[r] => Templates(page[r]) \subseteq loaded[page[r]]

(* A writing request finds the first template, and a loader finds all.       *)
Writing(r) ==
  pc[r] \in {"writing", "done"} =>
    /\ First(page[r]) \in loaded[page[r]]
    /\ loader[r] => Templates(page[r]) \subseteq loaded[page[r]]
    /\ at[r] <= Len(layout[r]) + 1
    /\ shown[r] \subseteq 1..at[r] - 1
    /\ layout[r] # <<>> /\ at[r] > 1 => 1 \in shown[r]
    /\ loader[r] => shown[r] = 1..at[r] - 1
    /\ pc[r] = "done" => at[r] = Len(layout[r]) + 1

RInv(r) == Idle(r) /\ Started(r) /\ Loading(r) /\ Deciding(r) /\ Writing(r)

IInv == Types /\ \A r \in Requests : RInv(r)

(* What the assumption says of one page.                                     *)
LEMMA PageShape ==
  ASSUME NEW p \in Pages
  PROVE  /\ LoadOrder[p] \in Seq(Templates(p))
         /\ Len(LoadOrder[p]) \in Nat \ {0}
         /\ First(p) \in Templates(p)
         /\ \A l \in Layouts[p] : /\ l \in Seq(Templates(p)) /\ Len(l) \in Nat
                                  /\ l # <<>> => l[1] = First(p)
<1>1. LoadOrder[p] \in Seq(Templates(p)) /\ LoadOrder[p] # <<>>
  BY TemplatesAssumption
<1>2. Len(LoadOrder[p]) \in Nat \ {0} BY <1>1
<1>3. First(p) \in Templates(p) BY <1>1, <1>2 DEF First, Templates
<1> QED BY <1>1, <1>2, <1>3, TemplatesAssumption DEF First

(* The requests that a step leaves alone: templates are only ever added.     *)
LEMMA OthersKeep ==
  ASSUME IInv, NEW r \in Requests,
         pc'[r] = pc[r], page'[r] = page[r], layout'[r] = layout[r],
         at'[r] = at[r], shown'[r] = shown[r], loader'[r] = loader[r],
         \A p \in Pages : loaded[p] \subseteq loaded'[p]
  PROVE  RInv(r)'
<1>0. RInv(r) BY DEF IInv
<1>1. Idle(r)' /\ Started(r)' BY <1>0 DEF RInv, Idle, Started
<1>2. pc[r] # "idle" => page[r] \in Pages BY <1>0 DEF RInv, Started
<1>3. Loading(r)' BY <1>0, <1>2 DEF RInv, Loading, Order
<1>4. Writing(r)'
  <2>1. CASE pc[r] \in {"writing", "done"}
    <3>1. loaded[page[r]] \subseteq loaded'[page[r]] BY <1>2, <2>1
    <3> QED BY <1>0, <2>1, <3>1 DEF RInv, Writing, First, Templates
  <2>2. CASE pc[r] \notin {"writing", "done"} BY <2>2 DEF Writing
  <2> QED BY <2>1, <2>2
<1>5. Deciding(r)'
  <2>1. CASE pc[r] = "deciding"
    <3>1. loaded[page[r]] \subseteq loaded'[page[r]] BY <1>2, <2>1
    <3> QED BY <1>0, <2>1, <3>1 DEF RInv, Deciding, First, Templates
  <2>2. CASE pc[r] # "deciding" BY <2>2 DEF Deciding
  <2> QED BY <2>1, <2>2
<1> QED BY <1>1, <1>3, <1>4, <1>5 DEF RInv

(* The initial states.                                                       *)
LEMMA IInvInit == Init => IInv
  BY DEF Init, IInv, Types, RInv, Idle, Started, Loading, Deciding, Writing

(* A page function begins, for a new request or in place of another page.    *)
LEMMA EnterKeeps ==
  ASSUME IInv, NEW r \in Requests, NEW p \in Pages, Enter(r, p),
         at[r] = 1, shown[r] = {}
  PROVE  IInv'
<1>0. Types /\ RInv(r) BY DEF IInv
<1>2. /\ page'[r] = p /\ layout' = layout /\ loader'[r] = FirstIsNull(p)
      /\ at'[r] = 1 /\ shown'[r] = {} /\ loaded' = loaded
      /\ pc'[r] = IF FirstIsNull(p) THEN "loading" ELSE "deciding"
  BY <1>0 DEF Enter, MustLoad, Types
<1>3. Types' BY <1>0 DEF Enter, MustLoad, FirstIsNull, Types
<1>4. RInv(r)'
  <2>1. Idle(r)' /\ Started(r)' /\ Writing(r)' BY <1>2 DEF Idle, Started, Writing
  <2>2. 1 \in DOMAIN LoadOrder[p] BY PageShape
  <2>3. Loading(r)' BY <1>2, <2>2 DEF Loading, Order
  <2>4. Deciding(r)'
    <3>1. CASE FirstIsNull(p) BY <1>2, <3>1 DEF Deciding
    <3>2. CASE ~FirstIsNull(p)
      <4>1. /\ pc'[r] = "deciding" /\ loader'[r] = FALSE /\ at'[r] = 1 /\ shown'[r] = {}
            /\ page'[r] = p /\ First(p) \in loaded'[p]
        BY <1>2, <3>2 DEF First, FirstIsNull
      <4> QED BY <4>1 DEF Deciding, First
    <3> QED BY <3>1, <3>2
  <2> QED BY <2>1, <2>3, <2>4 DEF RInv
<1>5. ASSUME NEW q \in Requests \ {r} PROVE RInv(q)'
  BY <1>0, OthersKeep DEF Enter, Types
<1> QED BY <1>3, <1>4, <1>5 DEF IInv

(* A request begins.                                                         *)
LEMMA RequestKeeps ==
  ASSUME IInv, NEW r \in Requests, NEW p \in Pages, Request(r, p)
  PROVE  IInv'
<1>1. at[r] = 1 /\ shown[r] = {} BY DEF IInv, RInv, Idle, Request
<1> QED BY <1>1, EnterKeeps DEF Request

(* The error page takes the place of another.                                *)
LEMMA DivertKeeps ==
  ASSUME IInv, NEW r \in Requests, Divert(r)
  PROVE  IInv'
<1>1. at[r] = 1 /\ shown[r] = {} BY DEF IInv, RInv, Deciding, Divert
<1> QED BY <1>1, EnterKeeps, PagesAssumption DEF Divert

(* The layout is chosen.                                                     *)
LEMMA DecideKeeps ==
  ASSUME IInv, NEW r \in Requests, NEW l \in AllLayouts, Decide(r, l)
  PROVE  IInv'
<1>0. Types /\ RInv(r) BY DEF IInv
<1>1. page[r] \in Pages /\ l \in Layouts[page[r]] /\ l \in Seq(Templates(page[r]))
  BY <1>0, PageShape DEF Decide, RInv, Started
<1>2. /\ loaded' = loaded /\ pc'[r] = "writing" /\ page'[r] = page[r]
      /\ layout'[r] = l /\ at'[r] = 1 /\ shown'[r] = {} /\ loader'[r] = loader[r]
      /\ First(page[r]) \in loaded[page[r]]
      /\ loader[r] => Templates(page[r]) \subseteq loaded[page[r]]
  BY <1>0 DEF Decide, Types, RInv, Deciding
<1>3. Types' BY <1>0 DEF Decide, Types
<1>4. RInv(r)'
  <2>1. Idle(r)' /\ Started(r)' /\ Loading(r)' /\ Deciding(r)'
    BY <1>1, <1>2 DEF Idle, Started, Loading, Deciding
  <2>2. First(page[r])' \in loaded'[page'[r]] BY <1>2 DEF First
  <2>3. loader'[r] => Templates(page[r])' \subseteq loaded'[page'[r]]
    BY <1>2 DEF Templates
  <2>4. at'[r] <= Len(layout'[r]) + 1 /\ shown'[r] = 1..at'[r] - 1 /\ ~(at'[r] > 1)
    BY <1>1, <1>2
  <2>5. Writing(r)' BY <1>2, <2>2, <2>3, <2>4 DEF Writing
  <2> QED BY <2>1, <2>5 DEF RInv
<1>5. ASSUME NEW q \in Requests \ {r} PROVE RInv(q)'
  BY <1>0, OthersKeep DEF Decide, Types
<1> QED BY <1>3, <1>4, <1>5 DEF IInv

(* A template is loaded, the last one or another.                            *)
LEMMA LoadKeeps ==
  ASSUME IInv, NEW r \in Requests, LoadTemplate(r)
  PROVE  IInv'
<1> DEFINE p == page[r]
<1> DEFINE k == at[r]
<1>0. Types /\ RInv(r) BY DEF IInv
<1>1. p \in Pages /\ k \in DOMAIN LoadOrder[p] /\ LoadOrder[p] \in Seq(Templates(p))
  BY <1>0, PageShape DEF LoadTemplate, RInv, Started, Loading, Order
<1>2. loaded' = [loaded EXCEPT ![p] = @ \cup {LoadOrder[p][k]}] BY DEF LoadTemplate
<1>3. \A q \in Pages : loaded[q] \subseteq loaded'[q] BY <1>0, <1>2 DEF Types
<1>4. \A j \in 1..k : LoadOrder[p][j] \in loaded'[p]
  <2>1. \A j \in 1..k - 1 : LoadOrder[p][j] \in loaded[p]
    BY <1>0 DEF LoadTemplate, RInv, Loading, Order
  <2>2. LoadOrder[p][k] \in loaded'[p] BY <1>0, <1>1, <1>2 DEF Types
  <2> QED BY <1>1, <1>3, <2>1, <2>2
<1>5. Types'
  <2>1. LoadOrder[p][k] \in Templates(p) BY <1>1 DEF Templates
  <2>2. loaded' \in [Pages -> SUBSET UNION {Templates(q) : q \in Pages}]
    BY <1>0, <1>1, <1>2, <2>1 DEF Types
  <2>3. /\ pc' \in [Requests -> {"idle", "loading", "deciding", "writing", "done"}]
        /\ at' \in [Requests -> Nat \ {0}]
    <3>1. k + 1 \in Nat \ {0} BY <1>0 DEF Types
    <3>2. CASE LastToLoad(r)
      <4>1. pc' = [pc EXCEPT ![r] = "deciding"] /\ at' = [at EXCEPT ![r] = 1]
        BY <3>2 DEF LoadTemplate
      <4> QED BY <1>0, <4>1 DEF Types
    <3>3. CASE ~LastToLoad(r)
      <4>1. pc' = pc /\ at' = [at EXCEPT ![r] = k + 1] BY <3>3 DEF LoadTemplate
      <4> QED BY <1>0, <3>1, <4>1 DEF Types
    <3> QED BY <3>2, <3>3
  <2> QED BY <1>0, <2>2, <2>3 DEF LoadTemplate, Types
<1>6. /\ page'[r] = p /\ layout'[r] = layout[r] /\ shown'[r] = {}
      /\ loader'[r] = loader[r]
  BY <1>0 DEF LoadTemplate, RInv, Loading
<1>7. RInv(r)'
  <2>1. CASE LastToLoad(r)
    <3>1. pc'[r] = "deciding" /\ at'[r] = 1 BY <1>0, <2>1 DEF LoadTemplate, Types
    <3>2. k = Len(LoadOrder[p]) BY <2>1 DEF LastToLoad
    <3>3. Templates(p) \subseteq loaded'[p] BY <1>1, <1>4, <3>2 DEF Templates
    <3>4. First(p) \in loaded'[p] BY <1>1, <3>3, PageShape
    <3>5. Deciding(r)' BY <1>6, <3>1, <3>3, <3>4 DEF Deciding, First, Templates
    <3> QED BY <1>1, <1>6, <3>1, <3>5 DEF RInv, Idle, Started, Loading, Writing
  <2>2. CASE ~LastToLoad(r)
    <3>1. pc'[r] = "loading" /\ at'[r] = k + 1 BY <1>0, <2>2 DEF LoadTemplate, Types
    <3>2. k + 1 \in DOMAIN LoadOrder[p] BY <1>1, <2>2 DEF LastToLoad
    <3>3. \A j \in 1..k + 1 - 1 : LoadOrder[p][j] \in loaded'[p] BY <1>1, <1>4
    <3> QED BY <1>1, <1>6, <3>1, <3>2, <3>3
            DEF RInv, Idle, Started, Loading, Deciding, Writing, Order
  <2> QED BY <2>1, <2>2
<1>8. ASSUME NEW q \in Requests \ {r} PROVE RInv(q)'
  BY <1>0, <1>3, OthersKeep DEF LoadTemplate, Types
<1> QED BY <1>5, <1>7, <1>8 DEF IInv

(* A template is written, or left out because it is NULL.                    *)
LEMMA WriteKeeps ==
  ASSUME IInv, NEW r \in Requests, WriteTemplate(r)
  PROVE  IInv'
<1> DEFINE p == page[r]
<1> DEFINE k == at[r]
<1>0. Types /\ RInv(r) BY DEF IInv
<1>1. /\ p \in Pages /\ layout[r] \in Layouts[p] /\ layout[r] \in Seq(Templates(p))
      /\ k \in DOMAIN layout[r] /\ k \in Nat \ {0}
  BY <1>0, PageShape DEF WriteTemplate, RInv, Started, Types
<1>2. /\ loaded' = loaded /\ pc'[r] = "writing" /\ page'[r] = p
      /\ layout'[r] = layout[r] /\ at'[r] = k + 1 /\ loader'[r] = loader[r]
  BY <1>0 DEF WriteTemplate, Types
<1>3. shown'[r] = IF layout[r][k] \in loaded[p] THEN shown[r] \cup {k} ELSE shown[r]
  BY <1>0 DEF WriteTemplate, Types
<1>4. Types' BY <1>0, <1>1 DEF WriteTemplate, Types
<1>5. /\ First(p) \in loaded[p]
      /\ loader[r] => Templates(p) \subseteq loaded[p]
      /\ shown[r] \subseteq 1..k - 1
      /\ k > 1 => 1 \in shown[r]
      /\ loader[r] => shown[r] = 1..k - 1
  BY <1>0, <1>1 DEF WriteTemplate, RInv, Writing
<1>6. shown'[r] \subseteq 1..k /\ 1 \in shown'[r]
  <2>1. k = 1 => layout[r][k] = First(p) BY <1>1, PageShape
  <2>2. shown'[r] \subseteq shown[r] \cup {k} /\ shown[r] \subseteq shown'[r] BY <1>3
  <2>3. CASE k = 1
    <3>1. k \in shown'[r] BY <1>3, <1>5, <2>1, <2>3
    <3> QED BY <1>1, <1>5, <2>2, <2>3, <3>1
  <2>4. CASE k > 1 BY <1>1, <1>5, <2>2, <2>4
  <2> QED BY <1>1, <2>3, <2>4
<1>7. loader[r] => shown'[r] = 1..k
  <2>1. layout[r][k] \in Templates(p) BY <1>1
  <2>2. loader[r] => shown'[r] = shown[r] \cup {k} BY <1>3, <1>5, <2>1
  <2>3. (1..k - 1) \cup {k} = 1..k BY <1>1
  <2> QED BY <1>5, <2>2, <2>3
<1>8. RInv(r)'
  <2>1. k + 1 <= Len(layout[r]) + 1 /\ k + 1 # 1 BY <1>1
  <2>2. Idle(r)' /\ Started(r)' /\ Loading(r)' /\ Deciding(r)'
    BY <1>1, <1>2 DEF Idle, Started, Loading, Deciding
  <2>3. Writing(r)'
    <3>1. First(page[r])' \in loaded'[page'[r]] BY <1>2, <1>5 DEF First
    <3>2. loader'[r] => Templates(page[r])' \subseteq loaded'[page'[r]]
      BY <1>2, <1>5 DEF Templates
    <3>0. at'[r] - 1 = k BY <1>1, <1>2
    <3>3. /\ at'[r] <= Len(layout'[r]) + 1 /\ 1 \in shown'[r]
          /\ shown'[r] \subseteq 1..at'[r] - 1
      BY <1>2, <1>6, <2>1, <3>0
    <3>4. loader'[r] => shown'[r] = 1..at'[r] - 1 BY <1>2, <1>7, <3>0
    <3> QED BY <1>2, <3>1, <3>2, <3>3, <3>4 DEF Writing
  <2> QED BY <2>2, <2>3 DEF RInv
<1>9. ASSUME NEW q \in Requests \ {r} PROVE RInv(q)'
  BY <1>0, OthersKeep DEF WriteTemplate, Types
<1> QED BY <1>4, <1>8, <1>9 DEF IInv

(* The handler returns.                                                      *)
LEMMA FinishKeeps ==
  ASSUME IInv, NEW r \in Requests, Finish(r)
  PROVE  IInv'
<1>0. Types /\ RInv(r) BY DEF IInv
<1>1. layout[r] \in Seq(Templates(page[r]))
  BY <1>0, PageShape DEF Finish, RInv, Started
<1>2. at[r] = Len(layout[r]) + 1
  BY <1>0, <1>1 DEF Finish, RInv, Writing, Types
<1>3. RInv(r)'
  BY <1>0, <1>2 DEF Finish, Types, RInv, Idle, Started, Loading, Deciding, Writing
<1>4. ASSUME NEW q \in Requests \ {r} PROVE RInv(q)'
  BY <1>0, OthersKeep DEF Finish, Types
<1> QED BY <1>0, <1>3, <1>4 DEF IInv, Finish, Types

(* Every step keeps the invariant.                                           *)
LEMMA IInvStep == IInv /\ [Next]_vars => IInv'
<1> SUFFICES ASSUME IInv, [Next]_vars PROVE IInv' OBVIOUS
<1>1. CASE Next
  BY <1>1, RequestKeeps, LoadKeeps, DivertKeeps, DecideKeeps, WriteKeeps, FinishKeeps
  DEF Next
<1>2. CASE UNCHANGED vars
  BY <1>2 DEF vars, IInv, Types, RInv, Idle, Started, Loading, Deciding, Writing, Order
<1> QED BY <1>1, <1>2

(* What the invariant says of a finished request.                            *)
LEMMA DoneIsWhole ==
  ASSUME IInv, NEW r \in Requests, pc[r] = "done"
  PROVE  /\ loader[r] => shown[r] = DOMAIN layout[r]
         /\ layout[r] # <<>> => 1 \in shown[r]
<1>1. RInv(r) BY DEF IInv
<1>2. layout[r] \in Seq(Templates(page[r])) BY <1>1, PageShape DEF RInv, Started
<1>3. at[r] = Len(layout[r]) + 1 /\ (layout[r] # <<>> => at[r] > 1)
  BY <1>1, <1>2 DEF RInv, Writing
<1> QED BY <1>1, <1>2, <1>3 DEF RInv, Writing

(* A request that finds the first template NULL writes a whole page, however *)
(* the loads and writes of others fall between its own.                      *)
THEOREM LoaderCorrect == Spec => []LoaderIsWhole
<1>1. IInv => LoaderIsWhole BY DoneIsWhole DEF LoaderIsWhole, Whole
<1> QED BY <1>1, IInvInit, IInvStep, PTL DEF Spec

(* The header is loaded before any request skips the loading, so no page     *)
(* lacks it.                                                                 *)
THEOREM HeaderCorrect == Spec => []HeaderIsShown
<1>1. IInv => HeaderIsShown BY DoneIsWhole DEF HeaderIsShown
<1> QED BY <1>1, IInvInit, IInvStep, PTL DEF Spec

(* ------------------------------------------------------------------------ *)
(* The server.                                                               *)

(* Every step of the server is one of LazyTemplates or leaves it alone.      *)
LEMMA StepIsTemplatesStep == [ServerNext]_allVars => [Next]_vars
<1> SUFFICES ASSUME ServerNext PROVE [Next]_vars
  BY DEF allVars, vars
<1>1. CASE \E u \in Surts : Crawl(u) \/ Import(u) \/ Age(u) BY <1>1 DEF Crawl, Import, Age, vars
<1>2. ASSUME NEW r \in Requests, Drop(r) \/ Refuse(r) PROVE [Next]_vars
  BY <1>2 DEF Drop, Refuse, vars
<1>3. ASSUME NEW r \in Requests, NEW h \in Handlers, Handle(r, h) PROVE [Next]_vars
  BY <1>3 DEF Handle, Reply, Enqueue, OpenPage, Next, vars
<1>4. ASSUME NEW r \in Requests, AddRequest(r) PROVE [Next]_vars
  BY <1>4 DEF AddRequest, vars
<1>5. ASSUME NEW r \in Requests,
             LoadPage(r) \/ DivertPage(r) \/ WritePage(r) \/ FinishPage(r)
      PROVE [Next]_vars
  BY <1>5 DEF LoadPage, DivertPage, WritePage, FinishPage, Next
<1>6. ASSUME NEW r \in Requests, NEW l \in AllLayouts, DecidePage(r, l)
      PROVE [Next]_vars
  BY <1>6 DEF DecidePage, Next
<1> QED BY <1>1, <1>2, <1>3, <1>4, <1>5, <1>6 DEF ServerNext

(* The server implements the templates, so a page it sends has its header,   *)
(* and is whole when its request loaded the templates.                       *)
THEOREM ServerImplementsTemplates == ServerSpec => Spec
<1>1. ServerInit => Init BY DEF ServerInit
<1> QED BY <1>1, StepIsTemplatesStep, PTL DEF ServerSpec, Spec

(* The types of what the server adds.                                        *)
Statuses == {"ok", "moved", "error"}

STypes ==
  /\ stage \in [Requests -> {"reading", "page", "closed"}]
  /\ answers \in [Requests -> Seq(Statuses)]
  /\ rc \in [Requests -> {"none", "ok", "exists", "failed"}]
  /\ overtaken \in [Requests -> BOOLEAN]
  /\ surt \in [Requests -> Surts \cup {NoSurt}]

(* What is known of a connection by the place it is at.                      *)
Reading(r) ==
  stage[r] = "reading" =>
    pc[r] = "idle" /\ page[r] = NoPage /\ answers[r] = <<>> /\ rc[r] = "none"

Preparing(r) ==
  pc[r] \in {"loading", "deciding"} =>
    stage[r] = "page" /\ answers[r] = <<>> /\ rc[r] = "none"

Showing(r) ==
  pc[r] = "writing" =>
    /\ stage[r] = "page"
    /\ at[r] = 1 => answers[r] = <<>> /\ rc[r] = "none"
    /\ at[r] > 1 => Len(answers[r]) = 1 /\ (page[r] # ErrorPage => answers[r][1] = "ok")
    /\ rc[r] # "none" => page[r] # ErrorPage
    /\ rc[r] = "none" /\ SaysOutdated(layout[r]) /\ surt[r] \in fresh => overtaken[r]

InTheirPlace(r) ==
  /\ stage[r] = "page" => pc[r] \in {"loading", "deciding", "writing"}
  /\ rc[r] = "exists" => overtaken[r]

Overtaken(r) ==
  /\ Len(answers[r]) = 2 /\ answers[r][1] = "ok"
  /\ rc[r] = "failed" \/ (rc[r] = "exists" /\ overtaken[r])

Closed(r) ==
  stage[r] = "closed" =>
    \/ page[r] = NoPage /\ Len(answers[r]) <= 1
    \/ Len(answers[r]) = 1 \/ Overtaken(r)

Local(r) == /\ Reading(r) /\ Preparing(r) /\ Showing(r)
            /\ InTheirPlace(r) /\ Closed(r)

SInv == STypes /\ \A r \in Requests : Local(r)

(* The connections that a step leaves alone.                                 *)
LEMMA OtherConnections ==
  ASSUME NEW r \in Requests, Local(r),
         pc'[r] = pc[r], page'[r] = page[r], layout'[r] = layout[r], at'[r] = at[r],
         stage'[r] = stage[r], answers'[r] = answers[r], surt'[r] = surt[r],
         rc'[r] = rc[r], overtaken'[r] = overtaken[r], fresh' \subseteq fresh
  PROVE  Local(r)'
<1>1. Reading(r)' /\ Preparing(r)' /\ InTheirPlace(r)'
  BY DEF Local, Reading, Preparing, InTheirPlace
<1>2. Showing(r)'
  <2>1. SaysOutdated(layout'[r]) <=> SaysOutdated(layout[r]) OBVIOUS
  <2> QED BY <2>1 DEF Local, Showing, SaysOutdated
<1>3. Closed(r)' BY DEF Local, Closed, Overtaken
<1> QED BY <1>1, <1>2, <1>3 DEF Local

(* A connection is answered without a page, or not at all.                   *)
LEMMA AnswerKeeps ==
  ASSUME SInv, NEW r \in Requests, stage[r] = "reading",
         Close(r), UNCHANGED <<vars, surt, rc, overtaken, fresh>>,
         \/ UNCHANGED answers
         \/ \E status \in Statuses : Answer(r, status)
  PROVE  SInv'
<1>0. STypes /\ Local(r) BY DEF SInv
<1>1. stage' = [stage EXCEPT ![r] = "closed"] BY DEF Close
<1>2. /\ answers' \in [Requests -> Seq(Statuses)] /\ Len(answers'[r]) <= 1
      /\ \A q \in Requests \ {r} : answers'[q] = answers[q]
  <2>1. answers[r] = <<>> BY <1>0 DEF Local, Reading
  <2>2. CASE UNCHANGED answers BY <1>0, <2>1, <2>2 DEF STypes
  <2>3. CASE \E status \in Statuses : Answer(r, status)
    <3>1. PICK status \in Statuses : answers' = [answers EXCEPT ![r] = Append(@, status)]
      BY <2>3 DEF Answer
    <3>2. Append(answers[r], status) \in Seq(Statuses) /\ Len(Append(answers[r], status)) = 1
      BY <2>1
    <3> QED BY <1>0, <3>1, <3>2 DEF STypes
  <2> QED BY <2>2, <2>3
<1>3. STypes' BY <1>0, <1>1, <1>2 DEF STypes
<1>4. Local(r)'
  <2>1. /\ pc'[r] = "idle" /\ page'[r] = NoPage /\ stage'[r] = "closed"
        /\ rc'[r] = "none"
    BY <1>0, <1>1 DEF Local, Reading, vars, STypes
  <2> QED BY <1>2, <2>1 DEF Local, Reading, Preparing, Showing, InTheirPlace, Closed
<1>5. ASSUME NEW q \in Requests \ {r} PROVE Local(q)'
  <2>1. Local(q) BY DEF SInv
  <2> QED BY <1>0, <1>1, <1>2, <2>1, OtherConnections DEF vars, STypes
<1> QED BY <1>3, <1>4, <1>5 DEF SInv

(* A page is opened.                                                         *)
LEMMA OpenKeeps ==
  ASSUME Types, SInv, NEW r \in Requests, NEW p \in Pages, OpenPage(r, p)
  PROVE  SInv'
<1>0. STypes /\ Local(r) BY DEF SInv
<1>1. /\ stage' = [stage EXCEPT ![r] = "page"]
      /\ UNCHANGED <<answers, rc, overtaken, fresh, layout, at>>
      /\ pc'[r] \in {"loading", "deciding"}
      /\ \A q \in Requests \ {r} : pc'[q] = pc[q] /\ page'[q] = page[q] /\ surt'[q] = surt[q]
  BY <1>0 DEF OpenPage, Request, Enter, archiveVars, Types, STypes
<1>2. surt' \in [Requests -> Surts \cup {NoSurt}] BY <1>0 DEF OpenPage, STypes
<1>3. STypes' BY <1>0, <1>1, <1>2 DEF STypes
<1>4. Local(r)'
  <2>1. answers'[r] = <<>> /\ rc'[r] = "none" /\ stage'[r] = "page"
    BY <1>0, <1>1 DEF OpenPage, Local, Reading, STypes
  <2> QED BY <1>1, <2>1 DEF Local, Reading, Preparing, Showing, InTheirPlace, Closed
<1>5. ASSUME NEW q \in Requests \ {r} PROVE Local(q)'
  <2>1. Local(q) BY DEF SInv
  <2> QED BY <1>0, <1>1, <2>1, OtherConnections DEF STypes
<1> QED BY <1>3, <1>4, <1>5 DEF SInv

(* A page is prepared: loaded, given up for the error page, laid out.        *)
LEMMA PrepareKeeps ==
  ASSUME IInv, SInv, NEW r \in Requests,
         \/ LoadPage(r) \/ DivertPage(r) \/ \E l \in AllLayouts : DecidePage(r, l)
  PROVE  SInv'
<1>0. Types /\ RInv(r) /\ STypes /\ Local(r) BY DEF SInv, IInv
<1>1. UNCHANGED serverVars BY DEF LoadPage, DivertPage, DecidePage
<1>2. STypes' BY <1>0, <1>1 DEF STypes, serverVars
<1>3. /\ stage[r] = "page" /\ answers[r] = <<>> /\ rc[r] = "none"
      /\ pc'[r] \in {"loading", "deciding", "writing"}
      /\ pc[r] \in {"loading", "deciding"}
  <2>1. CASE LoadPage(r)
    BY <1>0, <2>1 DEF LoadPage, LoadTemplate, Local, Preparing, Types
  <2>2. CASE DivertPage(r)
    BY <1>0, <2>2 DEF DivertPage, Divert, Enter, Local, Preparing, Types
  <2>3. CASE \E l \in AllLayouts : DecidePage(r, l)
    BY <1>0, <2>3 DEF DecidePage, Decide, Local, Preparing, Types
  <2> QED BY <2>1, <2>2, <2>3
<1>4. ASSUME pc'[r] = "writing"
      PROVE  /\ at'[r] = 1
             /\ SaysOutdated(layout'[r]) => surt[r] \notin fresh
  <2>1. CASE LoadPage(r)
    BY <1>0, <1>4, <2>1 DEF LoadPage, LoadTemplate, Types
  <2>2. CASE DivertPage(r) BY <1>0, <1>4, <2>2 DEF DivertPage, Divert, Enter, Types
  <2>3. CASE \E l \in AllLayouts : DecidePage(r, l)
    <3>1. PICK l \in AllLayouts : DecidePage(r, l) BY <2>3
    <3>2. /\ layout'[r] = l /\ at'[r] = at[r] /\ pc[r] = "deciding"
          /\ l \in Layouts[page[r]] /\ Fits(r, l)
      BY <1>0, <3>1 DEF DecidePage, Decide, Types
    <3>3. at[r] = 1 /\ page[r] \in Pages BY <1>0, <3>2 DEF RInv, Deciding, Started
    <3>4. CASE page[r] = "history"
      <4>1. l = <<>> => ~SaysOutdated(l) BY DEF SaysOutdated
      <4> QED BY <3>2, <3>3, <3>4, <4>1 DEF Fits
    <3>5. CASE page[r] # "history"
      BY <3>2, <3>3, <3>5, ServerAssumption
    <3> QED BY <3>4, <3>5
  <2> QED BY <2>1, <2>2, <2>3
<1>5. Local(r)'
  <2>1. /\ stage'[r] = "page" /\ answers'[r] = <<>> /\ rc'[r] = "none"
        /\ surt'[r] = surt[r] /\ fresh' = fresh
    BY <1>1, <1>3 DEF serverVars, archiveVars
  <2>2. Reading(r)' /\ Preparing(r)' /\ InTheirPlace(r)' /\ Closed(r)'
    BY <1>3, <2>1 DEF Reading, Preparing, InTheirPlace, Closed
  <2>3. Showing(r)' BY <1>4, <2>1 DEF Showing, SaysOutdated
  <2> QED BY <2>2, <2>3 DEF Local
<1>6. ASSUME NEW q \in Requests \ {r} PROVE Local(q)'
  <2>1. Local(q) BY DEF SInv
  <2>2. /\ pc'[q] = pc[q] /\ page'[q] = page[q] /\ layout'[q] = layout[q]
        /\ at'[q] = at[q]
    <3>1. CASE LoadPage(r) BY <1>0, <3>1 DEF LoadPage, LoadTemplate, Types
    <3>2. CASE DivertPage(r) BY <1>0, <3>2 DEF DivertPage, Divert, Enter, Types
    <3>3. CASE \E l \in AllLayouts : DecidePage(r, l)
      BY <1>0, <3>3 DEF DecidePage, Decide, Types
    <3> QED BY <3>1, <3>2, <3>3
  <2> QED BY <1>1, <2>1, <2>2, OtherConnections DEF serverVars, archiveVars
<1> QED BY <1>2, <1>5, <1>6 DEF SInv

(* A template of a page is written, the first with the status line.          *)
LEMMA WritePageKeeps ==
  ASSUME IInv, SInv, NEW r \in Requests, WritePage(r)
  PROVE  SInv'
<1>0. Types /\ RInv(r) /\ STypes /\ Local(r) BY DEF SInv, IInv
<1>1. /\ pc[r] = "writing" /\ pc' = pc /\ page' = page /\ layout' = layout
      /\ at' = [at EXCEPT ![r] = @ + 1]
      /\ UNCHANGED <<stage, surt, rc, overtaken, fresh>>
  BY DEF WritePage, WriteTemplate, archiveVars
<1>2. at[r] \in Nat \ {0} /\ at'[r] = at[r] + 1 BY <1>0, <1>1 DEF Types
<1>3. /\ answers' \in [Requests -> Seq(Statuses)]
      /\ \A q \in Requests \ {r} : answers'[q] = answers[q]
      /\ Len(answers'[r]) = 1 /\ (page[r] # ErrorPage => answers'[r][1] = "ok")
  <2>1. CASE at[r] = 1
    <3> DEFINE status == IF page[r] = ErrorPage THEN "error" ELSE "ok"
    <3>1. answers' = [answers EXCEPT ![r] = Append(@, status)]
      BY <2>1 DEF WritePage, Answer
    <3>2. answers[r] = <<>> BY <1>0, <1>1, <2>1 DEF Local, Showing
    <3>3. /\ Append(answers[r], status) \in Seq(Statuses)
          /\ Len(Append(answers[r], status)) = 1 /\ Append(answers[r], status)[1] = status
      BY <3>2 DEF Statuses
    <3> QED BY <1>0, <3>1, <3>3 DEF STypes
  <2>2. CASE at[r] # 1
    <3>1. answers' = answers BY <2>2 DEF WritePage
    <3>2. at[r] > 1 BY <1>2, <2>2
    <3> QED BY <1>0, <1>1, <3>1, <3>2 DEF STypes, Local, Showing
  <2> QED BY <2>1, <2>2
<1>4. STypes' BY <1>0, <1>1, <1>3 DEF STypes
<1>5. Local(r)'
  <2>1. Reading(r)' /\ Preparing(r)' /\ InTheirPlace(r)' /\ Closed(r)'
    BY <1>0, <1>1 DEF Local, Reading, Preparing, Showing, InTheirPlace, Closed
  <2>2. Showing(r)'
    <3>1. at'[r] > 1 BY <1>2
    <3>2. /\ stage[r] = "page" /\ (rc[r] # "none" => page[r] # ErrorPage)
          /\ rc[r] = "none" /\ SaysOutdated(layout[r]) /\ surt[r] \in fresh => overtaken[r]
      BY <1>0, <1>1 DEF Local, Showing
    <3> QED BY <1>1, <1>3, <3>1, <3>2 DEF Showing, SaysOutdated
  <2> QED BY <2>1, <2>2 DEF Local
<1>6. ASSUME NEW q \in Requests \ {r} PROVE Local(q)'
  <2>1. Local(q) BY DEF SInv
  <2> QED BY <1>0, <1>1, <1>3, <2>1, OtherConnections DEF Types
<1> QED BY <1>4, <1>5, <1>6 DEF SInv

(* The URL of an outdated page is added to the queue, or refused.            *)
LEMMA AddKeeps ==
  ASSUME IInv, SInv, NEW r \in Requests, AddRequest(r)
  PROVE  SInv'
<1>0. Types /\ RInv(r) /\ STypes /\ Local(r) BY DEF SInv, IInv
<1>1. /\ pc[r] = "writing" /\ rc[r] = "none"
      /\ at[r] - 1 \in DOMAIN layout[r] /\ layout[r][at[r] - 1] = "outdated"
      /\ UNCHANGED <<vars, stage, answers, surt, overtaken, fresh>>
  BY DEF AddRequest, MustAdd
<1>2. PICK x \in {"ok", "exists", "failed"} :
        /\ rc' = [rc EXCEPT ![r] = x] /\ (x = "exists" => surt[r] \in fresh)
  BY DEF AddRequest, Added
<1>3. SaysOutdated(layout[r]) BY <1>1 DEF SaysOutdated
<1>4. page[r] # ErrorPage /\ at[r] > 1
  <2>1. page[r] \in Pages /\ layout[r] \in Layouts[page[r]]
    BY <1>0, <1>1 DEF RInv, Started
  <2>2. page[r] = "history" BY <1>3, <2>1, ServerAssumption
  <2>3. layout[r] \in Seq(Templates(page[r])) BY <2>1, PageShape
  <2>4. at[r] - 1 \in 1..Len(layout[r]) /\ at[r] \in Nat BY <1>0, <1>1, <2>3 DEF Types
  <2> QED BY <2>2, <2>4, ServerAssumption
<1>5. STypes' BY <1>0, <1>1, <1>2 DEF STypes
<1>6. Local(r)'
  <2>1. rc'[r] = x BY <1>0, <1>2 DEF STypes
  <2>2. x = "exists" => overtaken[r] BY <1>0, <1>1, <1>2, <1>3 DEF Local, Showing
  <2>3. /\ stage[r] = "page" /\ Len(answers[r]) = 1
        /\ page[r] # ErrorPage => answers[r][1] = "ok"
    BY <1>0, <1>1, <1>4 DEF Local, Showing
  <2> QED BY <1>1, <1>4, <2>1, <2>2, <2>3
      DEF vars, Local, Reading, Preparing, Showing, InTheirPlace, Closed
<1>7. ASSUME NEW q \in Requests \ {r} PROVE Local(q)'
  <2>1. Local(q) BY DEF SInv
  <2> QED BY <1>0, <1>1, <1>2, <2>1, OtherConnections DEF vars, STypes
<1> QED BY <1>5, <1>6, <1>7 DEF SInv

(* The handler returns to the listener.                                      *)
LEMMA FinishPageKeeps ==
  ASSUME IInv, SInv, NEW r \in Requests, FinishPage(r)
  PROVE  SInv'
<1>0. Types /\ RInv(r) /\ STypes /\ Local(r) BY DEF SInv, IInv
<1>1. /\ pc[r] = "writing" /\ at[r] \notin DOMAIN layout[r]
      /\ pc' = [pc EXCEPT ![r] = "done"]
      /\ stage' = [stage EXCEPT ![r] = "closed"]
      /\ UNCHANGED <<page, layout, at, surt, rc, overtaken, fresh>>
  BY DEF FinishPage, Finish, Close, archiveVars
<1>2. /\ layout[r] # <<>> => at[r] > 1
      /\ layout[r] = <<>> => at[r] = 1
  <2>1. layout[r] \in Seq(Templates(page[r]))
    BY <1>0, <1>1, PageShape DEF RInv, Started
  <2>2. at[r] <= Len(layout[r]) + 1 BY <1>0, <1>1 DEF RInv, Writing
  <2> QED BY <1>0, <1>1, <2>1, <2>2 DEF Types
<1>3. /\ answers' \in [Requests -> Seq(Statuses)]
      /\ \A q \in Requests \ {r} : answers'[q] = answers[q]
      /\ Len(answers'[r]) = 1 \/ Overtaken(r)'
  <2>1. CASE Fails(r)
    <3>1. answers' = [answers EXCEPT ![r] = Append(@, "error")]
      BY <2>1 DEF FinishPage, Answer
    <3>2. answers[r] \in Seq(Statuses) /\ "error" \in Statuses
      BY <1>0 DEF STypes, Statuses
    <3>3. answers'[r] = Append(answers[r], "error")
      BY <1>0, <3>1 DEF STypes
    <3>4. CASE layout[r] = <<>>
      <4>1. answers[r] = <<>> BY <1>0, <1>1, <1>2, <3>4 DEF Local, Showing
      <4> QED BY <1>0, <3>1, <3>2, <3>3, <4>1 DEF STypes
    <3>5. CASE layout[r] # <<>>
      <4>1. rc[r] \in {"exists", "failed"} BY <2>1, <3>5 DEF Fails
      <4>2. Len(answers[r]) = 1 /\ answers[r][1] = "ok"
        BY <1>0, <1>1, <1>2, <3>5, <4>1 DEF Local, Showing
      <4>3. Len(answers'[r]) = 2 /\ answers'[r][1] = "ok" BY <3>2, <3>3, <4>2
      <4>4. rc[r] = "exists" => overtaken[r] BY <1>0 DEF Local, InTheirPlace
      <4>5. Overtaken(r)' BY <1>1, <4>1, <4>3, <4>4 DEF Overtaken
      <4> QED BY <1>0, <3>1, <3>2, <4>5 DEF STypes
    <3> QED BY <3>4, <3>5
  <2>2. CASE ~Fails(r)
    <3>1. answers' = answers BY <2>2 DEF FinishPage
    <3>2. Len(answers[r]) = 1 BY <1>0, <1>1, <1>2, <2>2 DEF Fails, Local, Showing
    <3> QED BY <1>0, <3>1, <3>2 DEF STypes
  <2> QED BY <2>1, <2>2
<1>4. STypes' BY <1>0, <1>1, <1>3 DEF STypes
<1>5. Local(r)'
  <2>1. pc'[r] = "done" /\ stage'[r] = "closed" BY <1>0, <1>1 DEF Types, STypes
  <2> QED BY <1>0, <1>1, <1>3, <2>1
      DEF Local, Reading, Preparing, Showing, InTheirPlace, Closed
<1>6. ASSUME NEW q \in Requests \ {r} PROVE Local(q)'
  <2>1. Local(q) BY DEF SInv
  <2> QED BY <1>0, <1>1, <1>3, <2>1, OtherConnections DEF Types, STypes
<1> QED BY <1>4, <1>5, <1>6 DEF SInv

(* A worker, an import or the clock changes what is fresh.                   *)
LEMMA ArchiveKeeps ==
  ASSUME SInv, NEW u \in Surts, Crawl(u) \/ Import(u) \/ Age(u)
  PROVE  SInv'
<1>0. STypes BY DEF SInv
<1>1. UNCHANGED <<vars, stage, answers, surt, rc>> BY DEF Crawl, Import, Age
<1>2. CASE Age(u)
  <2>1. overtaken' = overtaken /\ fresh' \subseteq fresh BY <1>2 DEF Age
  <2>2. STypes' BY <1>0, <1>1, <2>1 DEF STypes
  <2>3. ASSUME NEW q \in Requests PROVE Local(q)'
    <3>1. Local(q) BY DEF SInv
    <3> QED BY <1>1, <2>1, <3>1, OtherConnections DEF vars
  <2> QED BY <2>2, <2>3 DEF SInv
<1>3. CASE Crawl(u) \/ Import(u)
  <2>1. /\ overtaken' = [q \in Requests |-> overtaken[q] \/ HasLooked(q, u)]
        /\ fresh' = fresh \cup {u}
    BY <1>3 DEF Crawl, Import, Store
  <2>2. STypes' BY <1>0, <1>1, <2>1 DEF STypes
  <2>3. ASSUME NEW q \in Requests PROVE Local(q)'
    <3>1. Local(q) BY DEF SInv
    <3>2. overtaken[q] => overtaken'[q] BY <2>1
    <3>3. HasLooked(q, u) => overtaken'[q] BY <2>1
    <3>4. Reading(q)' /\ Preparing(q)' /\ InTheirPlace(q)' /\ Closed(q)'
      BY <1>1, <3>1, <3>2
      DEF vars, Local, Reading, Preparing, InTheirPlace, Closed, Overtaken
    <3>5. Showing(q)'
      <4>1. SaysOutdated(layout'[q]) <=> SaysOutdated(layout[q]) BY <1>1 DEF vars
      <4>2. surt[q] \in fresh' => surt[q] \in fresh \/ surt[q] = u BY <2>1
      <4> QED BY <1>1, <3>1, <3>2, <3>3, <4>1, <4>2
          DEF vars, Local, Showing, SaysOutdated, HasLooked
    <3> QED BY <3>4, <3>5 DEF Local
  <2> QED BY <2>2, <2>3 DEF SInv
<1> QED BY <1>2, <1>3

(* Every step keeps the invariant.                                           *)
LEMMA SInvStep == IInv /\ SInv /\ [ServerNext]_allVars => SInv'
<1> SUFFICES ASSUME IInv, SInv, [ServerNext]_allVars PROVE SInv' OBVIOUS
<1>0. Types /\ STypes BY DEF IInv, SInv
<1>1. ASSUME NEW r \in Requests, Drop(r) \/ Refuse(r) PROVE SInv'
  <2>1. "error" \in Statuses BY DEF Statuses
  <2> QED BY <1>1, <2>1, AnswerKeeps DEF Drop, Refuse, archiveVars
<1>2. ASSUME NEW r \in Requests, NEW h \in Handlers, Handle(r, h) PROVE SInv'
  <2>1. Replies(h) \subseteq Statuses BY DEF Replies, Statuses
  <2>2. CASE Reply(r, h) BY <2>1, <2>2, AnswerKeeps DEF Reply, archiveVars
  <2>3. ASSUME NEW u \in Surts, Enqueue(r, u) PROVE SInv'
    <3>1. "ok" \in Statuses BY DEF Statuses
    <3> QED BY <2>3, <3>1, AnswerKeeps DEF Enqueue
  <2>4. CASE PageOf(h) \in Pages /\ OpenPage(r, PageOf(h)) BY <1>0, <2>4, OpenKeeps
  <2> QED BY <1>2, <2>2, <2>3, <2>4 DEF Handle
<1>3. ASSUME NEW r \in Requests,
             \/ LoadPage(r) \/ DivertPage(r) \/ \E l \in AllLayouts : DecidePage(r, l)
      PROVE SInv'
  BY <1>3, PrepareKeeps
<1>4. CASE UNCHANGED allVars
  <2>1. STypes' BY <1>0, <1>4 DEF STypes, allVars, serverVars
  <2>2. ASSUME NEW q \in Requests PROVE Local(q)'
    <3>1. Local(q) BY DEF SInv
    <3> QED BY <1>4, <3>1, OtherConnections DEF allVars, serverVars, archiveVars, vars
  <2> QED BY <2>1, <2>2 DEF SInv
<1> QED BY <1>1, <1>2, <1>3, <1>4, WritePageKeeps, AddKeeps, FinishPageKeeps, ArchiveKeeps
    DEF ServerNext

LEMMA SInvInit == ServerInit => SInv
<1> SUFFICES ASSUME ServerInit PROVE SInv OBVIOUS
<1>1. STypes BY DEF ServerInit, STypes
<1>2. ASSUME NEW r \in Requests PROVE Local(r)
  BY DEF ServerInit, Init, Local, Reading, Preparing, Showing, InTheirPlace, Closed
<1> QED BY <1>1, <1>2 DEF SInv

(* Both invariants hold of the server.                                       *)
LEMMA ServerInvariant == ServerSpec => [](IInv /\ SInv)
<1>1. ServerInit => IInv /\ SInv BY IInvInit, SInvInit DEF ServerInit
<1>2. IInv /\ SInv /\ [ServerNext]_allVars => (IInv /\ SInv)'
  BY SInvStep, IInvStep, StepIsTemplatesStep
<1> QED BY <1>1, <1>2, PTL DEF ServerSpec

(* A page is answered twice only when a response of its resource was stored  *)
(* between its look and its queue_add, or the database failed                *)
(* (page_history.c:155-163, queue.c:181-199).                                *)
THEOREM TwiceOnlyWhenOvertakenHolds == ServerSpec => []TwiceOnlyWhenOvertaken
<1>1. IInv /\ SInv => TwiceOnlyWhenOvertaken
  <2> SUFFICES ASSUME IInv, SInv, NEW r \in Requests, Len(answers[r]) > 1
               PROVE  Overtaken(r)
    BY DEF TwiceOnlyWhenOvertaken, Overtaken
  <2>1. Local(r) /\ STypes BY DEF SInv
  <2>2. Types BY DEF IInv
  <2>3. answers[r] # <<>> BY <2>1 DEF STypes
  <2>0. Len(answers[r]) \in Nat BY <2>1 DEF STypes
  <2>4. stage[r] = "closed"
    <3>1. stage[r] # "reading" BY <2>1, <2>3 DEF Local, Reading
    <3>2. ASSUME stage[r] = "page" PROVE FALSE
      <4>1. at[r] = 1 \/ at[r] > 1 BY <2>2 DEF Types
      <4>2. pc[r] = "writing" BY <2>1, <2>3, <3>2 DEF Local, Preparing, InTheirPlace
      <4>3. /\ at[r] = 1 => answers[r] = <<>>
            /\ at[r] > 1 => Len(answers[r]) = 1
        BY <2>1, <4>2 DEF Local, Showing
      <4>4. ASSUME Len(answers[r]) = 1 PROVE FALSE BY <2>0, <4>4
      <4> QED BY <2>3, <4>1, <4>3, <4>4
    <3>3. stage[r] \in {"reading", "page", "closed"} BY <2>1 DEF STypes
    <3> QED BY <3>1, <3>2, <3>3
  <2>5. \/ page[r] = NoPage /\ Len(answers[r]) <= 1
        \/ Len(answers[r]) = 1 \/ Overtaken(r)
    BY <2>1, <2>4 DEF Local, Closed
  <2>6. ~(Len(answers[r]) <= 1) BY <2>0
  <2>7. ASSUME Len(answers[r]) = 1 PROVE FALSE BY <2>0, <2>7
  <2> QED BY <2>5, <2>6, <2>7
<1> QED BY <1>1, ServerInvariant, PTL

(* Every request for a page is answered.                                     *)
THEOREM ReadIsAnsweredHolds == ServerSpec => []ReadIsAnswered
<1>1. IInv /\ SInv => ReadIsAnswered
  <2> SUFFICES ASSUME SInv, NEW r \in Requests, stage[r] = "closed", page[r] # NoPage
               PROVE  answers[r] # <<>>
    BY DEF ReadIsAnswered
  <2>1. Len(answers[r]) = 1 \/ Len(answers[r]) = 2
    BY DEF SInv, Local, Closed, Overtaken
  <2> QED BY <2>1
<1> QED BY <1>1, ServerInvariant, PTL
=============================================================================
