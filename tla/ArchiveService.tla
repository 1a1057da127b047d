--------------------------- MODULE ArchiveService ---------------------------
(* One archive, read by a dump while connections import into it and workers  *)
(* crawl (api.c, import.c and queue.c on the tables of db.c).                *)
EXTENDS Dump, Import

serviceVars == <<vars, dumpVars, importVars>>

ServiceInit == DumpInit /\ ImportInit

ServiceNext == \/ DumpStep /\ UNCHANGED importVars
               \/ ImportNext /\ UNCHANGED dumpVars

(* The handler's fiber runs on: batches follow one another.                  *)
ReadOn == ReadBatch /\ UNCHANGED importVars

ServiceSpec == ServiceInit /\ [][ServiceNext]_serviceVars

FairServiceSpec == ServiceSpec /\ WF_serviceVars(ReadOn)
=============================================================================
