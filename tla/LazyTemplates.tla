--------------------------- MODULE LazyTemplates ---------------------------
(* The templates of the pages (page_index.c, page_history.c, page_sources.c, *)
(* page_critical.c, parse_error in server.c): static pointers that the first *)
(* request loads from files one after the other, switching to other fibers   *)
(* at each, and that every request then writes (util/Template.c).            *)
EXTENDS Naturals, Sequences

CONSTANTS Requests, Pages,
          LoadOrder,  \* the template_load calls of each page, a sequence
          Layouts,    \* the sequences of templates each page may write, <<>>
                      \* when it answers with an error instead
          Diverting,  \* the pages that may turn out to be the error page
          ErrorPage   \* the page of parse_error

Templates(p) == {LoadOrder[p][k] : k \in DOMAIN LoadOrder[p]}

AllLayouts == UNION {Layouts[p] : p \in Pages}

(* Every page begins with the template it looks at first.                    *)
ASSUME TemplatesAssumption ==
  \A p \in Pages :
    /\ LoadOrder[p] \in Seq(Templates(p)) \ {<<>>}
    /\ Layouts[p] \subseteq Seq(Templates(p))
    /\ \A l \in Layouts[p] : l # <<>> => l[1] = LoadOrder[p][1]

ASSUME PagesAssumption == Diverting \subseteq Pages /\ ErrorPage \in Pages

VARIABLES
  loaded,  \* per page, the templates that are not NULL
  pc,      \* per request: "idle", "loading", "deciding", "writing", "done"
  page,    \* what it asks for
  layout,  \* what it will write
  at,      \* the next template to load or to write
  shown,   \* the places of the layout it has written
  loader   \* whether it found the first template NULL, for the properties

vars == <<loaded, pc, page, layout, at, shown, loader>>

NoPage == "no page"

Init ==
  /\ loaded = [p \in Pages |-> {}]
  /\ pc = [r \in Requests |-> "idle"]
  /\ page = [r \in Requests |-> NoPage]
  /\ layout = [r \in Requests |-> <<>>]
  /\ at = [r \in Requests |-> 1]
  /\ shown = [r \in Requests |-> {}]
  /\ loader = [r \in Requests |-> FALSE]

(* if(!header).                                                              *)
FirstIsNull(p) == LoadOrder[p][1] \notin loaded[p]

(* Mutant: the page is marked before its templates are loaded.               *)
MustLoadUnmarked(p) ==
  FirstIsNull(p) /\ \A r \in Requests : page[r] = p => pc[r] # "loading"

MustLoad(p) == FirstIsNull(p)

(* A page function begins, for a request or in place of another page.        *)
Enter(r, p) ==
  /\ pc' = [pc EXCEPT ![r] = IF MustLoad(p) THEN "loading" ELSE "deciding"]
  /\ loader' = [loader EXCEPT ![r] = MustLoad(p)]
  /\ page' = [page EXCEPT ![r] = p]
  /\ UNCHANGED <<loaded, layout, at, shown>>

Request(r, p) == pc[r] = "idle" /\ Enter(r, p)

(* Mutant: a template that is loaded already ends the loading.               *)
LastToLoadOnce(r) ==
  \/ at[r] = Len(LoadOrder[page[r]])
  \/ LoadOrder[page[r]][at[r] + 1] \in loaded[page[r]]

LastToLoad(r) == at[r] = Len(LoadOrder[page[r]])

(* template_load: the file has been read and the pointer is set; a pointer   *)
(* that another request has set meanwhile is replaced.                       *)
LoadTemplate(r) ==
  /\ pc[r] = "loading"
  /\ loaded' = [loaded EXCEPT ![page[r]] = @ \cup {LoadOrder[page[r]][at[r]]}]
  /\ IF LastToLoad(r)
     THEN pc' = [pc EXCEPT ![r] = "deciding"] /\ at' = [at EXCEPT ![r] = 1]
     ELSE at' = [at EXCEPT ![r] = @ + 1] /\ UNCHANGED pc
  /\ UNCHANGED <<page, layout, shown, loader>>

(* The query is parsed and the database read: what the page has to show.     *)
Decide(r, l) ==
  /\ pc[r] = "deciding" /\ l \in Layouts[page[r]]
  /\ layout' = [layout EXCEPT ![r] = l]
  /\ pc' = [pc EXCEPT ![r] = "writing"]
  /\ UNCHANGED <<loaded, page, at, shown, loader>>

(* The query is malformed: parse_error answers instead, from a template that *)
(* it loads in its turn (server.c:111, 120).                                 *)
Divert(r) ==
  /\ pc[r] = "deciding" /\ page[r] \in Diverting
  /\ Enter(r, ErrorPage)

(* TemplateWriteHTTPChunk: nothing is written of a NULL template, without an *)
(* error (Template.c:122).                                                   *)
WriteTemplate(r) ==
  /\ pc[r] = "writing" /\ at[r] \in DOMAIN layout[r]
  /\ shown' = IF layout[r][at[r]] \in loaded[page[r]]
              THEN [shown EXCEPT ![r] = @ \cup {at[r]}] ELSE shown
  /\ at' = [at EXCEPT ![r] = @ + 1]
  /\ UNCHANGED <<loaded, pc, page, layout, loader>>

(* The handler returns.                                                      *)
Finish(r) ==
  /\ pc[r] = "writing" /\ at[r] \notin DOMAIN layout[r]
  /\ pc' = [pc EXCEPT ![r] = "done"]
  /\ UNCHANGED <<loaded, page, layout, at, shown, loader>>

Next == \E r \in Requests : \/ \E p \in Pages : Request(r, p)
                            \/ LoadTemplate(r) \/ Divert(r)
                            \/ \E l \in AllLayouts : Decide(r, l)
                            \/ WriteTemplate(r) \/ Finish(r)

Spec == Init /\ [][Next]_vars

(* ------------------------------------------------------------------------ *)
(* Properties.                                                               *)

Whole(r) == pc[r] = "done" => shown[r] = DOMAIN layout[r]

(* A request that loads the templates writes a whole page, whatever requests *)
(* load and write beside it (the loads of page_history.c:104-110).           *)
LoaderIsWhole == \A r \in Requests : loader[r] => Whole(r)

(* Every page has its header, also while its other templates are loaded.     *)
HeaderIsShown ==
  \A r \in Requests : pc[r] = "done" /\ layout[r] # <<>> => 1 \in shown[r]
=============================================================================
