------------------------------ MODULE MCServer ------------------------------
(* The five pages with their templates and one resource.  Each page has one  *)
(* response to show: a longer one writes the same templates more often, and  *)
(* the one for a failed response takes the place of an entry.  The           *)
(* content of the page of critical URLs is set together with its footer,     *)
(* without a switch (page_critical.c).                                       *)
EXTENDS Server, TLC

CONSTANTS r1, r2, r3, s1

FivePages == {"index", "history", "sources", "critical", "error"}

Loads ==
  ("index" :> <<"index">>)
  @@ ("history" :> <<"header", "footer", "entry", "error", "outdated">>)
  @@ ("sources" :> <<"header", "footer", "entry", "notfound", "short", "weak">>)
  @@ ("critical" :> <<"header", "footer">>)
  @@ ("error" :> <<"parse error">>)

Written ==
  ("index" :> {<<"index">>})
  @@ ("history" :> {<<>>, <<"header", "entry", "footer">>,
                    <<"header", "outdated", "entry", "footer">>})
  @@ ("sources" :> {<<>>, <<"header", "entry", "footer">>})
  @@ ("critical" :> {<<"header", "footer">>})
  @@ ("error" :> {<<"parse error">>})

Parsed == {"history", "sources"}

Fibers == Permutations(Requests)
=============================================================================
