-------------------------- MODULE TemplateRegistry --------------------------
(***************************************************************************)
(* The cache of document templates over the YAML files of one directory,   *)
(* and the routes with which an administrator changes both:                *)
(* src/app/services/template_registry.py under api/v1/templates.py.        *)
(*                                                                         *)
(* One process.  Its event loop runs one route at a time to the end, but   *)
(* extractions run in threads and use the same cache without a lock: every *)
(* step that touches the cache or a file is an action of its own.  The     *)
(* actor of a step is the loop or an extraction.  A file is written by     *)
(* truncating it and then writing it; a file read in between is skipped.   *)
(* A change is made in the cache first, and its file operation may then    *)
(* raise.  Files are also edited outside the routes: docs and code have    *)
(* such an edit followed by a reload or a restart (PLAN.md:1008-1031).     *)
(*                                                                         *)
(* The directory of the templates exists, as it is shipped.                *)
(* The name of a file is its type in lower case; types are taken to differ *)
(* in more than case, and each shipped file to have the type of its name.  *)
(* A template is its version.                                              *)
(***************************************************************************)
EXTENDS FiniteSets

CONSTANTS
    Types,       \* types of documents that have or may get a template
    Versions,    \* versions of a template
    Jobs,        \* the extractions
    Loop,        \* the event loop
    None

ASSUME RegistryAssumption ==
    /\ None \notin Types \union Versions \union {Loop, "torn"}
    /\ None \notin Jobs
    /\ Loop \notin Jobs
    /\ "torn" \notin Versions
    /\ "UNKNOWN" \notin Types

VARIABLES
    disk,      \* Types -> the version in the file, "torn", or None for no file
    cache,     \* _templates: Types -> a version or None
    loaded,    \* _loaded
    loader,    \* the load in progress of each actor
    handler,   \* the route that the event loop runs
    apart      \* history: the types that a thread stored after they had changed,
               \* or whose file was edited outside the routes or left by a failing
               \* one, and that no reload or change has brought together since

registry == <<disk, cache, loaded, loader, handler, apart>>

-----------------------------------------------------------------------------
Actors == {Loop} \union Jobs

\* todo: the files listed and not yet read.  type, version: the template read
\* and not yet stored.
Load ==
    [todo : SUBSET Types, type : Types \union {None}, version : Versions \union {None}]

\* None is not one of the records in whose place it stands.
ASSUME NullLoadAssumption == None \notin Load

FreeLoop == [op |-> "none"]

ReadHandler   == [op : {"read"}, step : {"check", "load", "look"}]
WriteHandler  ==
    [op : {"create", "update"}, step : {"check", "load", "look", "cache", "truncate", "write"},
     path : Types, type : Types, version : Versions]
DeleteHandler ==
    [op : {"delete"}, step : {"check", "load", "look", "cache", "unlink"}, path : Types]
ReloadHandler == [op : {"reload"}, step : {"clear", "unload", "load", "look"}]
TestHandler   == [op : {"test"}, job : Jobs]

RegistryTypeOK ==
    /\ disk \in [Types -> Versions \union {"torn", None}]
    /\ cache \in [Types -> Versions \union {None}]
    /\ loaded \in BOOLEAN
    /\ loader \in [Actors -> Load \union {None}]
    /\ handler \in {FreeLoop} \union ReadHandler \union WriteHandler \union DeleteHandler
                    \union ReloadHandler \union TestHandler
    /\ apart \subseteq Types

\* The first request finds no registry and loads it; that is taken as one that
\* is not loaded.
RegistryInit ==
    /\ disk \in [Types -> Versions \union {None}]
    /\ cache = [t \in Types |-> None]
    /\ loaded = FALSE
    /\ loader = [a \in Actors |-> None]
    /\ handler = FreeLoop
    /\ apart = {}

-----------------------------------------------------------------------------
(* load_from_disk, by any actor                                            *)

StartLoad(a) ==
    /\ loader' = [loader EXCEPT ![a] =
                     [todo |-> {t \in Types : disk[t] # None}, type |-> None, version |-> None]]
    /\ UNCHANGED <<disk, cache, loaded, apart>>

\* What a load has when it has read file t: one that is gone or torn is logged
\* and skipped.
AfterFile(load, t) ==
    IF disk[t] \in {"torn", None} THEN [load EXCEPT !.todo = @ \ {t}]
    ELSE [todo |-> load.todo \ {t}, type |-> t, version |-> disk[t]]

\* The next file.  The order of the names is left open.
ReadFile(a, t) ==
    /\ loader[a] # None
    /\ loader[a].type = None
    /\ t \in loader[a].todo
    /\ loader' = [loader EXCEPT ![a] = AfterFile(loader[a], t)]
    /\ UNCHANGED <<disk, cache, loaded, apart>>

\* A route has changed the cached template and not yet its file.
Changing(t) ==
    \/ handler.op \in {"create", "update"} /\ handler.step \in {"truncate", "write"} /\ handler.type = t
    \/ handler.op = "delete" /\ handler.step = "unlink" /\ handler.path = t

StoreTemplate(a) ==
    /\ loader[a] # None
    /\ loader[a].type # None
    /\ LET t == loader[a].type IN
       /\ cache' = [cache EXCEPT ![t] = loader[a].version]
       /\ apart' = IF Changing(t) \/ disk[t] # loader[a].version
                   THEN apart \union {t} ELSE apart \ {t}
    /\ loader' = [loader EXCEPT ![a].type = None, ![a].version = None]
    /\ UNCHANGED <<disk, loaded>>

FinishLoad(a) ==
    /\ loader[a] # None
    /\ loader[a].type = None
    /\ loader[a].todo = {}
    /\ loaded' = TRUE
    /\ loader' = [loader EXCEPT ![a] = None]
    /\ UNCHANGED <<disk, cache, apart>>

\* The second half of get
Cached(type) == IF type \in Types THEN cache[type] ELSE None

-----------------------------------------------------------------------------
(* The routes.  Each starts when the loop is free.                         *)

Begin(request) ==
    /\ handler = FreeLoop
    /\ handler' = request
    /\ UNCHANGED <<disk, cache, loaded, loader, apart>>

\* GET /templates and /templates/{doc_type}
ReadTemplates == Begin([op |-> "read", step |-> "check"])

\* POST /templates
CreateTemplate(t, v) ==
    Begin([op |-> "create", step |-> "check", path |-> t, type |-> t, version |-> v])

\* PUT /templates/{path}: the body names a type of its own.
UpdateTemplate(p, t, v) ==
    Begin([op |-> "update", step |-> "check", path |-> p, type |-> t, version |-> v])

\* DELETE /templates/{path}
DeleteTemplate(p) == Begin([op |-> "delete", step |-> "check", path |-> p])

\* POST /templates/reload
ReloadTemplates == Begin([op |-> "reload", step |-> "clear"])

At(step) == handler.op \notin {"none", "test"} /\ handler.step = step

\* The first half of get: an unloaded registry is loaded first.
HandlerCheck ==
    /\ At("check")
    /\ IF loaded
       THEN /\ handler' = [handler EXCEPT !.step = "look"]
            /\ UNCHANGED <<disk, cache, loaded, loader, apart>>
       ELSE handler' = [handler EXCEPT !.step = "load"] /\ StartLoad(Loop)

HandlerRead == \E t \in Types : ReadFile(Loop, t) /\ UNCHANGED handler

HandlerStore == StoreTemplate(Loop) /\ UNCHANGED handler

HandlerLoaded ==
    /\ FinishLoad(Loop)
    /\ handler' = [handler EXCEPT !.step = "look"]

\* The answer, 404 and 409, or on to the change.
HandlerLook ==
    /\ At("look")
    /\ handler' = IF \/ handler.op = "create" /\ cache[handler.path] = None
                     \/ handler.op \in {"update", "delete"} /\ cache[handler.path] # None
                  THEN [handler EXCEPT !.step = "cache"]
                  ELSE FreeLoop
    /\ UNCHANGED <<disk, cache, loaded, loader, apart>>

\* add_or_update and delete change the cache first
HandlerCache ==
    /\ At("cache")
    /\ IF handler.op = "delete"
       THEN /\ cache' = [cache EXCEPT ![handler.path] = None]
            /\ handler' = [handler EXCEPT !.step = "unlink"]
       ELSE /\ cache' = [cache EXCEPT ![handler.type] = handler.version]
            /\ handler' = [handler EXCEPT !.step = "truncate"]
    /\ apart' = apart \ {IF handler.op = "delete" THEN handler.path ELSE handler.type}
    /\ UNCHANGED <<disk, loaded, loader>>

\* and the file after it: open(..., "w"), then the dump.
HandlerTruncate ==
    /\ At("truncate")
    /\ disk' = [disk EXCEPT ![handler.type] = "torn"]
    /\ handler' = [handler EXCEPT !.step = "write"]
    /\ UNCHANGED <<cache, loaded, loader, apart>>

HandlerWrite ==
    /\ At("write")
    /\ disk' = [disk EXCEPT ![handler.type] = handler.version]
    /\ apart' = IF cache[handler.type] = handler.version THEN apart \ {handler.type} ELSE apart
    /\ handler' = FreeLoop
    /\ UNCHANGED <<cache, loaded, loader>>

\* Fault variant of HandlerUnlink: the file stays.
HandlerUnlinkNot ==
    /\ At("unlink")
    /\ handler' = FreeLoop
    /\ UNCHANGED <<disk, cache, loaded, loader, apart>>

HandlerUnlink ==
    /\ At("unlink")
    /\ disk' = [disk EXCEPT ![handler.path] = None]
    /\ apart' = IF cache[handler.path] = None THEN apart \ {handler.path} ELSE apart
    /\ handler' = FreeLoop
    /\ UNCHANGED <<cache, loaded, loader>>

\* The directory or the file cannot be opened, or not be removed: the exception
\* ends the route, and the cache keeps the change.
FileRefused(step, t) ==
    /\ At(step)
    /\ apart' = apart \union {t}
    /\ handler' = FreeLoop
    /\ UNCHANGED <<disk, cache, loaded, loader>>

HandlerOpenFails == FileRefused("truncate", handler.type)

HandlerUnlinkFails == FileRefused("unlink", handler.path)

\* The dump raises and leaves some of the file, or what was put in its place.
HandlerDumpFails(left) ==
    /\ At("write")
    /\ disk' = [disk EXCEPT ![handler.type] = left]
    /\ apart' = apart \union {handler.type}
    /\ handler' = FreeLoop
    /\ UNCHANGED <<cache, loaded, loader>>

\* reload: the cache is emptied while it still counts as loaded,
HandlerClear ==
    /\ At("clear")
    /\ cache' = [t \in Types |-> None]
    /\ apart' = {}
    /\ handler' = [handler EXCEPT !.step = "unload"]
    /\ UNCHANGED <<disk, loaded, loader>>

\* Fault variant of HandlerUnload: the next lookup is to load, but the mark is
\* forgotten.
HandlerUnloadNot ==
    /\ At("unload")
    /\ handler' = FreeLoop
    /\ UNCHANGED <<disk, cache, loaded, loader, apart>>

\* then marked as not loaded, and loaded.
HandlerUnload ==
    /\ At("unload")
    /\ loaded' = FALSE
    /\ loader' = [loader EXCEPT ![Loop] =
                     [todo |-> {t \in Types : disk[t] # None}, type |-> None, version |-> None]]
    /\ handler' = [handler EXCEPT !.step = "load"]
    /\ UNCHANGED <<disk, cache, apart>>

HandlerStep ==
    \/ HandlerCheck \/ HandlerRead \/ HandlerStore \/ HandlerLoaded \/ HandlerLook
    \/ HandlerCache \/ HandlerTruncate \/ HandlerWrite \/ HandlerUnlink
    \/ HandlerOpenFails \/ HandlerUnlinkFails
    \/ \E left \in Versions \union {"torn", None} : HandlerDumpFails(left)
    \/ HandlerClear \/ HandlerUnload

Requests ==
    \/ ReadTemplates
    \/ \E t \in Types, v \in Versions : CreateTemplate(t, v)
    \/ \E p, t \in Types, v \in Versions : UpdateTemplate(p, t, v)
    \/ \E p \in Types : DeleteTemplate(p)
    \/ ReloadTemplates

\* The process is killed and started again.
RegistryRestart ==
    /\ cache' = [t \in Types |-> None]
    /\ loaded' = FALSE
    /\ loader' = [a \in Actors |-> None]
    /\ handler' = FreeLoop
    /\ apart' = {}
    /\ UNCHANGED disk

\* A load has begun since the start of the process.
InUse == loaded \/ \E a \in Actors : loader[a] # None

\* A file is put in the directory, edited, half written or removed from outside.
EditFile(t, content) ==
    /\ disk' = [disk EXCEPT ![t] = content]
    /\ apart' = IF InUse THEN apart \union {t} ELSE apart
    /\ UNCHANGED <<cache, loaded, loader, handler>>
=============================================================================
