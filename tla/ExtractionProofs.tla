-------------------------- MODULE ExtractionProofs ---------------------------
(***************************************************************************)
(* Proofs about TemplateRegistry and Extraction, for every set of types,   *)
(* versions and extractions, every number of providers and attempts, every *)
(* template and everything that a provider may answer.                     *)
(***************************************************************************)
EXTENDS ExtractionProperties, TLAPS

-----------------------------------------------------------------------------
(* The inductive invariant: the registry.                                  *)

\* An actor loads exactly when its place in the code says so, and has read
\* something when it is to store it.
LoadsFit ==
    /\ loader[Loop] # None <=> At("load")
    /\ \A x \in Jobs : loader[x] # None <=> Step(x, "load")
    /\ \A a \in Actors :
        loader[a] # None /\ loader[a].type # None => loader[a].version # None

\* The loop is past the lookup, a thread before it, only after a load; for a
\* thread, a reload may have begun since.
LookupsFollowLoads ==
    /\ \A step \in {"look", "cache", "truncate", "write", "unlink"} : At(step) => loaded
    /\ \A x \in Jobs : Step(x, "fetch") => loaded \/ handler.op = "reload"

\* What is cached was read from the file, or is about to be written to it, or
\* one of the three causes has set the two apart.
CacheFits ==
    /\ \A t \in Types \ apart : cache[t] # None => Changing(t) \/ cache[t] = disk[t]
    /\ \A t \in Types \ apart : Changing(t) =>
        cache[t] = IF handler.op = "delete" THEN None ELSE handler.version

Found(t) == t \notin apart /\ Whole(t) => cache[t] # None

\* What a load has not stored yet it has still to store.
Covers(a) ==
    \A t \in Types : t \in loader[a].todo \/ loader[a].type = t \/ Found(t)

\* Before a first load has ended every load in progress covers all files; in a
\* reload the one of the loop does, and when it has ended nothing is missing.
LoadsCover ==
    /\ ~ loaded /\ handler.op # "reload" => \A a \in Actors : loader[a] # None => Covers(a)
    /\ handler.op = "reload" /\ handler.step = "load" => Covers(Loop)
    /\ handler.op = "reload" /\ handler.step = "look" => \A t \in Types : Found(t)

\* Nothing is cached before a load has begun: an edit goes unnoticed later only.
NothingEarly == ~ InUse => \A t \in Types : cache[t] = None

-----------------------------------------------------------------------------
(* The inductive invariant: the extractions.                               *)

\* A template is of the type asked for or detected, unless validation has sent
\* the job to another provider.
JobFits(j) ==
    /\ j.step \in {"queued", "encode", "call"} => j.answer = None
    /\ j.step = "call" \/ j.answer # None => j.prov > 0
    /\ j.template # None =>
        \/ j.template.type = j.asked
        \/ j.answer # None /\ j.template.type = j.answer.type
        \/ j.prov > 1
        \/ j.step = "done" /\ j.answer = None
    /\ j.step = "done" /\ j.answer # None /\ j.template # None /\ j.valid =>
           LET template == Layout[j.template.version] IN
           Satisfies(template, Delivered(template, j.answer.fields))

JobsFit == \A x \in Jobs : JobFits(job[x])

RegistryFits ==
    /\ LoadsFit
    /\ LookupsFollowLoads
    /\ CacheFits
    /\ LoadsCover
    /\ NothingEarly
    /\ TemplatesStayFound

IInv ==
    /\ TypeOK
    /\ RegistryFits
    /\ JobsFit

-----------------------------------------------------------------------------
(* The route that the loop runs.                                           *)

\* The places in the code of each route.
Place(op, step) ==
    \/ step \in {"load", "look"}
    \/ step = "check" /\ op # "reload"
    \/ step = "cache" /\ op \in {"create", "update", "delete"}
    \/ step \in {"truncate", "write"} /\ op \in {"create", "update"}
    \/ step = "unlink" /\ op = "delete"
    \/ step \in {"clear", "unload"} /\ op = "reload"

LEMMA HandlerFacts ==
    ASSUME RegistryTypeOK
    PROVE  /\ handler.op \in {"none", "read", "create", "update", "delete", "reload", "test"}
           /\ handler.op = "read" => handler \in ReadHandler
           /\ handler.op \in {"create", "update"} => handler \in WriteHandler
           /\ handler.op = "delete" => handler \in DeleteHandler
           /\ handler.op = "reload" => handler \in ReloadHandler
           /\ handler.op \in {"create", "update", "delete"} => handler.path \in Types
           /\ handler.op \in {"create", "update"} =>
                  handler.type \in Types /\ handler.version \in Versions
           /\ handler.op \notin {"none", "test"} => Place(handler.op, handler.step)
BY DEF RegistryTypeOK, FreeLoop, ReadHandler, WriteHandler, DeleteHandler, ReloadHandler,
       TestHandler, Place

\* A step of a route changes its place in the code and nothing else of it.
LEMMA Advance ==
    ASSUME RegistryTypeOK, RegistryTypeOK', NEW step,
           handler.op \notin {"none", "test"}, Place(handler.op, step),
           handler' = [handler EXCEPT !.step = step]
    PROVE  /\ handler'.op = handler.op
           /\ handler'.step = step
           /\ handler.op \in {"create", "update", "delete"} => handler'.path = handler.path
           /\ handler.op \in {"create", "update"} =>
                  handler'.type = handler.type /\ handler'.version = handler.version
BY HandlerFacts DEF ReadHandler, WriteHandler, DeleteHandler, ReloadHandler, Place

LEMMA AdvanceType ==
    ASSUME RegistryTypeOK, NEW step,
           handler.op \notin {"none", "test"}, Place(handler.op, step)
    PROVE  [handler EXCEPT !.step = step] \in
               ReadHandler \union WriteHandler \union DeleteHandler \union ReloadHandler
<1>1. CASE handler.op = "read"
  BY <1>1, HandlerFacts DEF ReadHandler, Place
<1>2. CASE handler.op \in {"create", "update"}
  BY <1>2, HandlerFacts DEF WriteHandler, Place
<1>3. CASE handler.op = "delete"
  BY <1>3, HandlerFacts DEF DeleteHandler, Place
<1>4. CASE handler.op = "reload"
  BY <1>4, HandlerFacts DEF ReloadHandler, Place
<1> QED
  BY <1>1, <1>2, <1>3, <1>4, HandlerFacts

LEMMA LoaderFacts ==
    ASSUME RegistryTypeOK, NEW a \in Actors, loader[a] # None
    PROVE  /\ loader[a] \in Load
           /\ loader[a].todo \subseteq Types
           /\ loader[a].type \in Types \union {None}
           /\ loader[a].version \in Versions \union {None}
BY DEF RegistryTypeOK, Load

-----------------------------------------------------------------------------
(* Loads, by the loop and by the threads.                                  *)

LEMMA ReadFileInv ==
    ASSUME TypeOK, RegistryFits, NEW a \in Actors, NEW t \in Types, ReadFile(a, t),
           UNCHANGED <<handler, job, batch>>
    PROVE  TypeOK' /\ RegistryFits'
<1>1. loader[a] \in Load /\ loader[a] # None /\ loader[a].type = None /\ t \in loader[a].todo
  BY LoaderFacts DEF ReadFile, TypeOK
<1>2. PICK w : w = AfterFile(loader[a], t)
  OBVIOUS
<1>3. disk[t] \in Versions \union {"torn", None}
  BY DEF TypeOK, RegistryTypeOK
<1>4. /\ w \in Load
      /\ w.todo = loader[a].todo \ {t}
      /\ Whole(t) => w.type = t
      /\ w.type # None => w.version # None
  BY <1>1, <1>2, <1>3 DEF AfterFile, Load, Whole
<1>5. w # None
  BY <1>4, NullLoadAssumption
<1>6. /\ loader' = [loader EXCEPT ![a] = w]
      /\ UNCHANGED <<disk, cache, loaded, apart, handler, job, batch>>
  BY <1>1, <1>2 DEF ReadFile, TypeOK, RegistryTypeOK
<1>7. loader'[a] = w /\ \A b \in Actors \ {a} : loader'[b] = loader[b]
  BY <1>6 DEF TypeOK, RegistryTypeOK
<1>8. TypeOK'
  BY <1>4, <1>6 DEF TypeOK, RegistryTypeOK
<1>9. LoadsFit'
  BY <1>1, <1>4, <1>5, <1>6, <1>7 DEF RegistryFits, LoadsFit, Actors, At, Step
<1>10. LookupsFollowLoads' /\ CacheFits' /\ TemplatesStayFound'
  BY <1>6 DEF RegistryFits, LookupsFollowLoads, CacheFits, TemplatesStayFound, At, Step,
              Changing, Removing, Whole
<1>11. LoadsCover'
  <2>1. ASSUME NEW b \in Actors, loader[b] # None, Covers(b)
        PROVE  Covers(b)'
    <3>1. CASE b = a
      BY <1>1, <1>4, <1>6, <1>7, <2>1, <3>1, RegistryAssumption DEF Covers, Found, Whole
    <3>2. CASE b # a
      BY <1>6, <1>7, <2>1, <3>2 DEF Covers, Found, Whole
    <3> QED
      BY <3>1, <3>2
  <2>2. handler.op = "reload" /\ handler.step = "load" => loader[Loop] # None
    BY DEF RegistryFits, LoadsFit, At
  <2>3. \A b \in Actors : loader'[b] # None => loader[b] # None
    BY <1>1, <1>7
  <2> QED
    BY <1>6, <2>1, <2>2, <2>3 DEF RegistryFits, LoadsCover, Found, Whole, Actors
<1>12. NothingEarly'
  BY <1>5, <1>7 DEF NothingEarly, InUse
<1> QED
  BY <1>8, <1>9, <1>10, <1>11, <1>12 DEF RegistryFits

LEMMA StoreTemplateInv ==
    ASSUME TypeOK, RegistryFits, NEW a \in Actors, StoreTemplate(a),
           UNCHANGED <<handler, job, batch>>
    PROVE  TypeOK' /\ RegistryFits'
<1>1. loader[a] \in Load /\ loader[a] # None /\ loader[a].type # None
  BY LoaderFacts DEF StoreTemplate, TypeOK
<1>2. PICK t \in Types, v \in Versions : t = loader[a].type /\ v = loader[a].version
  BY <1>1, LoaderFacts DEF TypeOK, RegistryFits, LoadsFit
<1>3. PICK w : w = [loader[a] EXCEPT !.type = None, !.version = None]
  OBVIOUS
<1>4. w \in Load /\ w.todo = loader[a].todo /\ w.type = None /\ w # None
  BY <1>1, <1>3, NullLoadAssumption DEF Load
<1>5. /\ loader' = [loader EXCEPT ![a] = w]
      /\ cache' = [cache EXCEPT ![t] = v]
      /\ apart' = IF Changing(t) \/ disk[t] # v THEN apart \union {t} ELSE apart \ {t}
      /\ UNCHANGED <<disk, loaded, handler, job, batch>>
  BY <1>1, <1>2, <1>3 DEF StoreTemplate, TypeOK, RegistryTypeOK
<1>6. loader'[a] = w /\ \A b \in Actors \ {a} : loader'[b] = loader[b]
  BY <1>5 DEF TypeOK, RegistryTypeOK
<1>7. v # None /\ cache'[t] = v /\ \A u \in Types \ {t} : cache'[u] = cache[u]
  BY <1>5, RegistryAssumption DEF TypeOK, RegistryTypeOK
<1>8. TypeOK'
  BY <1>4, <1>5 DEF TypeOK, RegistryTypeOK
<1>9. LoadsFit'
  BY <1>1, <1>4, <1>5, <1>6 DEF RegistryFits, LoadsFit, Actors, At, Step
<1>10. LookupsFollowLoads'
  BY <1>5 DEF RegistryFits, LookupsFollowLoads, At, Step
<1>11. \A u \in Types : Changing(u)' <=> Changing(u)
  BY <1>5 DEF Changing
<1>12. CacheFits'
  BY <1>5, <1>7, <1>11 DEF RegistryFits, CacheFits, TypeOK, RegistryTypeOK
<1>13. TemplatesStayFound'
  BY <1>5, <1>7 DEF RegistryFits, TemplatesStayFound, Whole, Removing
<1>14. LoadsCover'
  <2>1. \A u \in Types : Found(u) => Found(u)'
    BY <1>5, <1>7 DEF Found, Whole
  <2>2. Found(t)'
    BY <1>7 DEF Found
  <2>3. ASSUME NEW b \in Actors, Covers(b)
        PROVE  Covers(b)'
    <3>1. CASE b = a
      BY <1>2, <1>4, <1>6, <2>1, <2>2, <2>3, <3>1 DEF Covers
    <3>2. CASE b # a
      BY <1>6, <2>1, <2>3, <3>2 DEF Covers
    <3> QED
      BY <3>1, <3>2
  <2>4. \A b \in Actors : loader'[b] # None => loader[b] # None
    BY <1>1, <1>6
  <2> QED
    BY <1>5, <2>1, <2>3, <2>4 DEF RegistryFits, LoadsCover, Actors
<1>15. NothingEarly'
  BY <1>4, <1>6 DEF NothingEarly, InUse
<1> QED
  BY <1>8, <1>9, <1>10, <1>12, <1>13, <1>14, <1>15 DEF RegistryFits

\* A job whose place in the code moves.
LEMMA JobMoves ==
    ASSUME TypeOK, NEW x \in Jobs, NEW w \in Job, job' = [job EXCEPT ![x] = w]
    PROVE  /\ job' \in [Jobs -> Job]
           /\ job'[x] = w
           /\ \A y \in Jobs \ {x} : job'[y] = job[y]
BY DEF TypeOK

\* What a load has that begins.
AllFiles == [todo |-> {t \in Types : disk[t] # None}, type |-> None, version |-> None]

LEMMA AllFilesFacts ==
    /\ AllFiles \in Load
    /\ AllFiles # None
    /\ AllFiles.type = None
    /\ \A t \in Types : Whole(t) => t \in AllFiles.todo
BY NullLoadAssumption DEF AllFiles, Load, Whole

\* A thread finds the registry not loaded.
LEMMA ThreadStartsLoad ==
    ASSUME TypeOK, RegistryFits, NEW x \in Jobs, Step(x, "check"), ~ loaded, StartLoad(x),
           NEW w \in Job, w.step = "load", job' = [job EXCEPT ![x] = w],
           UNCHANGED <<handler, batch>>
    PROVE  TypeOK' /\ RegistryFits'
<1>1. x \in Actors /\ x # Loop
  BY RegistryAssumption DEF Actors
<1>2. loader' = [loader EXCEPT ![x] = AllFiles] /\ UNCHANGED <<disk, cache, loaded, apart>>
  BY DEF StartLoad, AllFiles
<1>3. loader'[x] = AllFiles /\ \A b \in Actors \ {x} : loader'[b] = loader[b]
  BY <1>1, <1>2 DEF TypeOK, RegistryTypeOK
<1>4. /\ job' \in [Jobs -> Job]
      /\ job'[x] = w
      /\ \A y \in Jobs \ {x} : job'[y] = job[y]
  BY JobMoves
<1>5. TypeOK'
  BY <1>2, <1>4, AllFilesFacts DEF TypeOK, RegistryTypeOK
<1>6. LoadsFit'
  BY <1>1, <1>3, <1>4, AllFilesFacts DEF RegistryFits, LoadsFit, Actors, At, Step
<1>7. LookupsFollowLoads'
  BY <1>2, <1>4 DEF RegistryFits, LookupsFollowLoads, At, Step
<1>8. CacheFits' /\ TemplatesStayFound'
  BY <1>2 DEF RegistryFits, CacheFits, TemplatesStayFound, Changing, Removing, Whole
<1>9. LoadsCover'
  <2>1. ASSUME NEW b \in Actors, b = x \/ Covers(b)
        PROVE  Covers(b)'
    BY <1>2, <1>3, <2>1, AllFilesFacts DEF Covers, Found, Whole
  <2> QED
    BY <1>1, <1>2, <1>3, <2>1 DEF RegistryFits, LoadsCover, Found, Whole, Actors
<1>10. NothingEarly'
  BY <1>1, <1>3, AllFilesFacts DEF NothingEarly, InUse
<1> QED
  BY <1>5, <1>6, <1>7, <1>8, <1>9, <1>10 DEF RegistryFits

\* When a load ends before the first has, or that of a reload, all is found.
LEMMA LoadEnds ==
    ASSUME TypeOK, RegistryFits, NEW a \in Actors, FinishLoad(a),
           (~ loaded /\ handler.op # "reload") \/ (handler.op = "reload" /\ a = Loop)
    PROVE  \A t \in Types : Found(t)
<1>1. Covers(a)
  BY DEF FinishLoad, RegistryFits, LoadsCover, LoadsFit, At
<1> QED
  BY <1>1, RegistryAssumption DEF FinishLoad, Covers

LEMMA ThreadEndsLoad ==
    ASSUME TypeOK, RegistryFits, NEW x \in Jobs, FinishLoad(x),
           NEW w \in Job, w.step = "fetch", job' = [job EXCEPT ![x] = w],
           UNCHANGED <<handler, batch>>
    PROVE  TypeOK' /\ RegistryFits'
<1>1. x \in Actors /\ x # Loop
  BY RegistryAssumption DEF Actors
<1>2. /\ loader' = [loader EXCEPT ![x] = None]
      /\ loaded' = TRUE
      /\ UNCHANGED <<disk, cache, apart, handler>>
  BY DEF FinishLoad
<1>3. loader'[x] = None /\ \A b \in Actors \ {x} : loader'[b] = loader[b]
  BY <1>1, <1>2 DEF TypeOK, RegistryTypeOK
<1>4. /\ job' \in [Jobs -> Job]
      /\ job'[x] = w
      /\ \A y \in Jobs \ {x} : job'[y] = job[y]
  BY JobMoves
<1>5. TypeOK'
  BY <1>2, <1>4 DEF TypeOK, RegistryTypeOK
<1>6. LoadsFit'
  BY <1>1, <1>2, <1>3, <1>4 DEF RegistryFits, LoadsFit, Actors, At, Step
<1>7. LookupsFollowLoads'
  BY <1>2 DEF LookupsFollowLoads
<1>8. CacheFits'
  BY <1>2 DEF RegistryFits, CacheFits, Changing
<1>9. TemplatesStayFound'
  <2>1. ~ loaded /\ handler.op # "reload" => \A t \in Types : Found(t)
    BY <1>1, LoadEnds
  <2> QED
    BY <1>2, <2>1 DEF RegistryFits, TemplatesStayFound, Removing, Whole, Found
<1>10. LoadsCover'
  <2>1. Covers(Loop) => Covers(Loop)'
    BY <1>1, <1>2, <1>3 DEF Covers, Found, Whole, Actors
  <2> QED
    BY <1>2, <2>1 DEF RegistryFits, LoadsCover, Found, Whole
<1>11. NothingEarly'
  BY <1>2 DEF NothingEarly, InUse
<1> QED
  BY <1>5, <1>6, <1>7, <1>8, <1>9, <1>10, <1>11 DEF RegistryFits

-----------------------------------------------------------------------------
(* Steps that leave the registry alone.                                    *)

\* Jobs move, and none begins or ends a load.
LEMMA JobsMove ==
    ASSUME TypeOK, RegistryFits, UNCHANGED registry,
           job' \in [Jobs -> Job], batch' \subseteq Jobs,
           \A x \in Jobs : Step(x, "load")' <=> Step(x, "load"),
           \A x \in Jobs : Step(x, "fetch")' => Step(x, "fetch") \/ loaded
    PROVE  TypeOK' /\ RegistryFits'
<1>1. TypeOK'
  BY DEF registry, TypeOK, RegistryTypeOK
<1>2. LoadsFit'
  BY DEF registry, RegistryFits, LoadsFit, At
<1>3. LookupsFollowLoads'
  BY DEF registry, RegistryFits, LookupsFollowLoads, At
<1>4. CacheFits' /\ LoadsCover' /\ TemplatesStayFound'
  BY DEF registry, RegistryFits, CacheFits, LoadsCover, TemplatesStayFound, Changing,
         Removing, Covers, Found, Whole
<1>5. NothingEarly'
  BY DEF registry, RegistryFits, NothingEarly, InUse
<1> QED
  BY <1>1, <1>2, <1>3, <1>4, <1>5 DEF RegistryFits

\* A route or a test begins, or a test ends.
LEMMA LoopMoves ==
    ASSUME TypeOK, RegistryFits, UNCHANGED <<disk, cache, loaded, loader, apart>>,
           job' \in [Jobs -> Job], batch' \subseteq Jobs,
           \A x \in Jobs : Step(x, "load")' <=> Step(x, "load"),
           \A x \in Jobs : Step(x, "fetch")' => Step(x, "fetch"),
           handler.op \in {"none", "test"},
           NEW request, handler' = request,
           request \in {FreeLoop} \union ReadHandler \union WriteHandler \union DeleteHandler
                       \union ReloadHandler \union TestHandler,
           request.op \in {"none", "test"} \/ request.step \in {"check", "clear"}
    PROVE  TypeOK' /\ RegistryFits'
<1>1. TypeOK'
  BY DEF TypeOK, RegistryTypeOK
<1>2. LoadsFit'
  BY DEF RegistryFits, LoadsFit, At
<1>3. LookupsFollowLoads'
  BY DEF RegistryFits, LookupsFollowLoads, At
<1>4. CacheFits'
  BY DEF RegistryFits, CacheFits, Changing
<1>5. LoadsCover'
  BY DEF RegistryFits, LoadsCover, Covers, Found, Whole
<1>6. TemplatesStayFound'
  BY DEF RegistryFits, TemplatesStayFound, Removing, Whole
<1>7. NothingEarly'
  BY DEF RegistryFits, NothingEarly, InUse
<1> QED
  BY <1>1, <1>2, <1>3, <1>4, <1>5, <1>6, <1>7 DEF RegistryFits

-----------------------------------------------------------------------------
(* Steps of the route that the loop runs.                                  *)

LEMMA HandlerLoadedInv ==
    ASSUME TypeOK, RegistryFits, HandlerLoaded, UNCHANGED <<job, batch>>
    PROVE  TypeOK' /\ RegistryFits'
<1>1. Loop \in Actors /\ \A x \in Jobs : x \in Actors /\ x # Loop
  BY RegistryAssumption DEF Actors
<1>2. handler.op \notin {"none", "test"} /\ handler.step = "load"
  BY DEF HandlerLoaded, FinishLoad, RegistryFits, LoadsFit, At
<1>3. handler' \in ReadHandler \union WriteHandler \union DeleteHandler \union ReloadHandler
  BY <1>2, AdvanceType DEF HandlerLoaded, Place, TypeOK
<1>4. /\ loader' = [loader EXCEPT ![Loop] = None]
      /\ loaded' = TRUE
      /\ UNCHANGED <<disk, cache, apart>>
  BY DEF HandlerLoaded, FinishLoad
<1>5. TypeOK'
  BY <1>3, <1>4 DEF TypeOK, RegistryTypeOK
<1>6. handler'.op = handler.op /\ handler'.step = "look"
  BY <1>2, <1>5, Advance DEF HandlerLoaded, Place, TypeOK
<1>7. loader'[Loop] = None /\ \A x \in Jobs : loader'[x] = loader[x]
  BY <1>1, <1>4 DEF TypeOK, RegistryTypeOK
<1>8. LoadsFit'
  BY <1>1, <1>6, <1>7 DEF RegistryFits, LoadsFit, Actors, At, Step
<1>9. LookupsFollowLoads'
  BY <1>4 DEF LookupsFollowLoads
<1>10. \A t \in Types : ~ Changing(t) /\ ~ Changing(t)'
  BY <1>2, <1>6 DEF Changing
<1>11. CacheFits'
  BY <1>4, <1>10 DEF RegistryFits, CacheFits
<1>12. ~ loaded \/ handler.op = "reload" => \A t \in Types : Found(t)
  BY <1>1, LoadEnds DEF HandlerLoaded
<1>13. TemplatesStayFound' /\ LoadsCover'
  BY <1>2, <1>4, <1>6, <1>12 DEF RegistryFits, TemplatesStayFound, LoadsCover, Removing,
                                 Whole, Found
<1>14. NothingEarly'
  BY <1>4 DEF NothingEarly, InUse
<1> QED
  BY <1>5, <1>8, <1>9, <1>11, <1>13, <1>14 DEF RegistryFits

LEMMA HandlerCheckInv ==
    ASSUME TypeOK, RegistryFits, HandlerCheck, UNCHANGED <<job, batch>>
    PROVE  TypeOK' /\ RegistryFits'
<1>1. Loop \in Actors /\ \A x \in Jobs : x \in Actors /\ x # Loop
  BY RegistryAssumption DEF Actors
<1>2. handler.op \notin {"none", "test"} /\ handler.step = "check" /\ handler.op # "reload"
  BY HandlerFacts DEF HandlerCheck, At, Place, TypeOK
<1>3. PICK step \in {"look", "load"} :
        /\ handler' = [handler EXCEPT !.step = step]
        /\ IF step = "look" THEN loaded /\ UNCHANGED <<disk, cache, loaded, loader, apart>>
           ELSE ~ loaded /\ StartLoad(Loop)
  BY DEF HandlerCheck
<1>4. handler' \in ReadHandler \union WriteHandler \union DeleteHandler \union ReloadHandler
  BY <1>2, <1>3, AdvanceType DEF Place, TypeOK
<1>5. UNCHANGED <<disk, cache, loaded, apart>>
  BY <1>3 DEF StartLoad
<1>6. /\ step = "look" => UNCHANGED loader
      /\ step = "load" => loader' = [loader EXCEPT ![Loop] = AllFiles]
  BY <1>3 DEF StartLoad, AllFiles
<1>7. TypeOK'
  BY <1>4, <1>5, <1>6, AllFilesFacts DEF TypeOK, RegistryTypeOK
<1>8. handler'.op = handler.op /\ handler'.step = step
  BY <1>2, <1>3, <1>7, Advance DEF Place, TypeOK
<1>9. /\ \A x \in Jobs : loader'[x] = loader[x]
      /\ loader'[Loop] = IF step = "load" THEN AllFiles ELSE loader[Loop]
  BY <1>1, <1>6 DEF TypeOK, RegistryTypeOK
<1>10. LoadsFit'
  BY <1>1, <1>2, <1>8, <1>9, AllFilesFacts DEF RegistryFits, LoadsFit, Actors, At, Step
<1>11. LookupsFollowLoads'
  BY <1>3, <1>5, <1>8 DEF RegistryFits, LookupsFollowLoads, At, Step
<1>12. \A t \in Types : ~ Changing(t) /\ ~ Changing(t)'
  BY <1>2, <1>8 DEF Changing
<1>13. CacheFits'
  BY <1>5, <1>12 DEF RegistryFits, CacheFits
<1>14. TemplatesStayFound'
  BY <1>2, <1>5, <1>8 DEF RegistryFits, TemplatesStayFound, Removing, Whole
<1>15. LoadsCover'
  <2>1. \A x \in Jobs : Covers(x) => Covers(x)'
    BY <1>5, <1>9 DEF Covers, Found, Whole
  <2>2. loader'[Loop] # None => Covers(Loop)'
    BY <1>2, <1>5, <1>9, AllFilesFacts DEF Covers, Found, Whole, RegistryFits, LoadsFit, At
  <2> QED
    BY <1>2, <1>5, <1>8, <1>9, <2>1, <2>2 DEF RegistryFits, LoadsCover, Actors
<1>16. NothingEarly'
  <2>1. CASE step = "look"
    BY <1>3, <2>1 DEF NothingEarly, InUse
  <2>2. CASE step = "load"
    BY <1>1, <1>9, <2>2, AllFilesFacts DEF NothingEarly, InUse
  <2> QED
    BY <2>1, <2>2
<1> QED
  BY <1>7, <1>10, <1>11, <1>13, <1>14, <1>15, <1>16 DEF RegistryFits

LEMMA HandlerLookInv ==
    ASSUME TypeOK, RegistryFits, HandlerLook, UNCHANGED <<job, batch>>
    PROVE  TypeOK' /\ RegistryFits'
<1>1. handler.op \notin {"none", "test"} /\ handler.step = "look" /\ loaded
  BY DEF HandlerLook, At, RegistryFits, LookupsFollowLoads
<1>2. UNCHANGED <<disk, cache, loaded, loader, apart>>
  BY DEF HandlerLook
<1>3. \/ handler' = FreeLoop
      \/ /\ handler' = [handler EXCEPT !.step = "cache"]
         /\ handler.op \in {"create", "update", "delete"}
  BY DEF HandlerLook
<1>4. TypeOK'
  BY <1>1, <1>2, <1>3, AdvanceType DEF Place, TypeOK, RegistryTypeOK
<1>5. handler'.op = "none" \/ (handler'.op = handler.op /\ handler'.op # "reload"
                               /\ handler'.step = "cache")
  BY <1>1, <1>3, <1>4, Advance DEF Place, TypeOK, FreeLoop
<1>6. LoadsFit' /\ LookupsFollowLoads'
  BY <1>1, <1>2, <1>5 DEF RegistryFits, LoadsFit, LookupsFollowLoads, At, Step
<1>7. \A t \in Types : ~ Changing(t) /\ ~ Changing(t)'
  BY <1>1, <1>5 DEF Changing
<1>8. CacheFits'
  BY <1>2, <1>7 DEF RegistryFits, CacheFits
<1>9. \A t \in Types : Found(t)
  BY <1>1 DEF RegistryFits, LoadsCover, TemplatesStayFound, Removing, Found
<1>10. TemplatesStayFound' /\ LoadsCover'
  BY <1>1, <1>2, <1>5, <1>9 DEF TemplatesStayFound, LoadsCover, Found, Whole
<1>11. NothingEarly'
  BY <1>1, <1>2 DEF NothingEarly, InUse
<1> QED
  BY <1>4, <1>6, <1>8, <1>10, <1>11 DEF RegistryFits

\* A change of the cache and the files: the registry is loaded, and stays so.
LEMMA ChangeInv ==
    ASSUME TypeOK, RegistryFits, UNCHANGED <<loaded, loader, job, batch>>,
           NEW step \in {"cache", "truncate", "write", "unlink"}, At(step),
           \/ handler' = FreeLoop
           \/ /\ handler'.op = handler.op /\ handler'.op # "none"
              /\ handler'.step \in {"truncate", "write", "unlink"},
           TypeOK', CacheFits', TemplatesStayFound'
    PROVE  TypeOK' /\ RegistryFits'
<1>1. handler.op \in {"create", "update", "delete"}
  BY HandlerFacts DEF At, Place, TypeOK
<1>2. loaded /\ handler.step # "load"
  BY DEF RegistryFits, LookupsFollowLoads, At
<1>3. LoadsFit'
  BY <1>1, <1>2 DEF RegistryFits, LoadsFit, At, Step, FreeLoop
<1>4. LookupsFollowLoads' /\ LoadsCover' /\ NothingEarly'
  BY <1>1, <1>2 DEF LookupsFollowLoads, LoadsCover, NothingEarly, InUse, FreeLoop
<1> QED
  BY <1>3, <1>4 DEF RegistryFits

LEMMA HandlerCacheInv ==
    ASSUME TypeOK, RegistryFits, HandlerCache, UNCHANGED <<job, batch>>
    PROVE  TypeOK' /\ RegistryFits'
<1>1. handler.op \in {"create", "update", "delete"} /\ handler.step = "cache"
  BY HandlerFacts DEF HandlerCache, At, Place, TypeOK
<1>2. PICK t \in Types, v \in Versions \union {None} :
        /\ t = IF handler.op = "delete" THEN handler.path ELSE handler.type
        /\ v = IF handler.op = "delete" THEN None ELSE handler.version
        /\ handler.op # "delete" => v # None
  BY <1>1, HandlerFacts, RegistryAssumption DEF TypeOK
<1>3. /\ cache' = [cache EXCEPT ![t] = v]
      /\ apart' = apart \ {t}
      /\ UNCHANGED <<disk, loaded, loader>>
  BY <1>2 DEF HandlerCache
<1>4. PICK step \in {"truncate", "unlink"} :
        /\ step = IF handler.op = "delete" THEN "unlink" ELSE "truncate"
        /\ handler' = [handler EXCEPT !.step = step]
  BY DEF HandlerCache
<1>5. handler' \in ReadHandler \union WriteHandler \union DeleteHandler \union ReloadHandler
  BY <1>1, <1>4, AdvanceType DEF Place, TypeOK
<1>6. TypeOK'
  BY <1>3, <1>5 DEF TypeOK, RegistryTypeOK
<1>7. /\ handler'.op = handler.op
      /\ handler'.step = step
      /\ handler'.path = handler.path
      /\ handler.op # "delete" =>
             handler'.type = handler.type /\ handler'.version = handler.version
  BY <1>1, <1>4, <1>6, Advance DEF Place, TypeOK
<1>8. \A u \in Types : ~ Changing(u) /\ (Changing(u)' <=> u = t)
  BY <1>1, <1>2, <1>4, <1>7 DEF Changing
<1>9. cache'[t] = v /\ \A u \in Types \ {t} : cache'[u] = cache[u]
  BY <1>3 DEF TypeOK, RegistryTypeOK
<1>10. CacheFits'
  BY <1>2, <1>3, <1>7, <1>8, <1>9 DEF RegistryFits, CacheFits, TypeOK, RegistryTypeOK
<1>11. TemplatesStayFound'
  BY <1>1, <1>2, <1>3, <1>4, <1>7, <1>9 DEF RegistryFits, TemplatesStayFound, Removing, Whole
<1> QED
  BY <1>1, <1>3, <1>4, <1>6, <1>7, <1>10, <1>11, ChangeInv DEF HandlerCache

LEMMA HandlerTruncateInv ==
    ASSUME TypeOK, RegistryFits, HandlerTruncate, UNCHANGED <<job, batch>>
    PROVE  TypeOK' /\ RegistryFits'
<1>1. handler.op \in {"create", "update"} /\ handler.step = "truncate"
  BY HandlerFacts DEF HandlerTruncate, At, Place, TypeOK
<1>2. PICK t \in Types : t = handler.type
  BY <1>1, HandlerFacts DEF TypeOK
<1>3. /\ disk' = [disk EXCEPT ![t] = "torn"]
      /\ UNCHANGED <<cache, loaded, loader, apart>>
      /\ handler' = [handler EXCEPT !.step = "write"]
  BY <1>2 DEF HandlerTruncate
<1>4. handler' \in ReadHandler \union WriteHandler \union DeleteHandler \union ReloadHandler
  BY <1>1, <1>3, AdvanceType DEF Place, TypeOK
<1>5. TypeOK'
  BY <1>3, <1>4 DEF TypeOK, RegistryTypeOK
<1>6. /\ handler'.op = handler.op
      /\ handler'.step = "write"
      /\ handler'.type = handler.type /\ handler'.version = handler.version
  BY <1>1, <1>3, <1>5, Advance DEF Place, TypeOK
<1>7. \A u \in Types : (Changing(u) <=> u = t) /\ (Changing(u)' <=> u = t)
  BY <1>1, <1>2, <1>6 DEF Changing
<1>8. disk'[t] = "torn" /\ \A u \in Types \ {t} : disk'[u] = disk[u]
  BY <1>3 DEF TypeOK, RegistryTypeOK
<1>9. CacheFits'
  BY <1>3, <1>6, <1>7, <1>8 DEF RegistryFits, CacheFits
<1>10. TemplatesStayFound'
  BY <1>1, <1>3, <1>6, <1>8 DEF RegistryFits, TemplatesStayFound, Removing, Whole
<1> QED
  BY <1>1, <1>3, <1>5, <1>6, <1>9, <1>10, ChangeInv DEF HandlerTruncate

LEMMA HandlerWriteInv ==
    ASSUME TypeOK, RegistryFits, HandlerWrite, UNCHANGED <<job, batch>>
    PROVE  TypeOK' /\ RegistryFits'
<1>1. handler.op \in {"create", "update"} /\ handler.step = "write"
  BY HandlerFacts DEF HandlerWrite, At, Place, TypeOK
<1>2. PICK t \in Types, v \in Versions : t = handler.type /\ v = handler.version
  BY <1>1, HandlerFacts DEF TypeOK
<1>3. /\ disk' = [disk EXCEPT ![t] = v]
      /\ handler' = FreeLoop
      /\ apart' = IF cache[t] = v THEN apart \ {t} ELSE apart
      /\ UNCHANGED <<cache, loaded, loader>>
  BY <1>2 DEF HandlerWrite
<1>4. TypeOK'
  BY <1>3 DEF TypeOK, RegistryTypeOK
<1>5. \A u \in Types : (Changing(u) <=> u = t) /\ ~ Changing(u)'
  BY <1>1, <1>2, <1>3 DEF Changing, FreeLoop
<1>6. disk'[t] = v /\ \A u \in Types \ {t} : disk'[u] = disk[u]
  BY <1>3 DEF TypeOK, RegistryTypeOK
<1>7. t \in apart \/ cache[t] = v
  BY <1>1, <1>2, <1>5 DEF RegistryFits, CacheFits
<1>8. CacheFits'
  BY <1>3, <1>5, <1>6, <1>7 DEF RegistryFits, CacheFits
<1>9. t \notin apart' => cache[t] # None
  BY <1>3, <1>7, RegistryAssumption
<1>10. TemplatesStayFound'
  BY <1>1, <1>3, <1>6, <1>9 DEF RegistryFits, TemplatesStayFound, Removing, Whole
<1> QED
  BY <1>1, <1>3, <1>4, <1>8, <1>10, ChangeInv DEF HandlerWrite

LEMMA HandlerUnlinkInv ==
    ASSUME TypeOK, RegistryFits, HandlerUnlink, UNCHANGED <<job, batch>>
    PROVE  TypeOK' /\ RegistryFits'
<1>1. handler.op = "delete" /\ handler.step = "unlink"
  BY HandlerFacts DEF HandlerUnlink, At, Place, TypeOK
<1>2. PICK t \in Types : t = handler.path
  BY <1>1, HandlerFacts DEF TypeOK
<1>3. /\ disk' = [disk EXCEPT ![t] = None]
      /\ handler' = FreeLoop
      /\ apart' = IF cache[t] = None THEN apart \ {t} ELSE apart
      /\ UNCHANGED <<cache, loaded, loader>>
  BY <1>2 DEF HandlerUnlink
<1>4. TypeOK'
  BY <1>3 DEF TypeOK, RegistryTypeOK
<1>5. \A u \in Types : (Changing(u) <=> u = t) /\ ~ Changing(u)'
  BY <1>1, <1>2, <1>3 DEF Changing, FreeLoop
<1>6. disk'[t] = None /\ \A u \in Types \ {t} : disk'[u] = disk[u]
  BY <1>3 DEF TypeOK, RegistryTypeOK
<1>7. t \in apart \/ cache[t] = None
  BY <1>1, <1>2, <1>5 DEF RegistryFits, CacheFits
<1>8. CacheFits'
  BY <1>3, <1>5, <1>6, <1>7 DEF RegistryFits, CacheFits
<1>9. TemplatesStayFound'
  BY <1>1, <1>2, <1>3, <1>6 DEF RegistryFits, TemplatesStayFound, Removing, Whole
<1> QED
  BY <1>1, <1>3, <1>4, <1>8, <1>9, ChangeInv DEF HandlerUnlink

\* A file operation that raises leaves the file as it was.
LEMMA FileRefusedInv ==
    ASSUME TypeOK, RegistryFits, NEW step \in {"truncate", "unlink"}, NEW t \in Types,
           FileRefused(step, t), Changing(t), UNCHANGED <<job, batch>>
    PROVE  TypeOK' /\ RegistryFits'
<1>1. /\ At(step)
      /\ handler' = FreeLoop
      /\ apart' = apart \union {t}
      /\ UNCHANGED <<disk, cache, loaded, loader>>
  BY DEF FileRefused
<1>2. TypeOK'
  BY <1>1 DEF TypeOK, RegistryTypeOK
<1>3. \A u \in Types \ {t} : ~ Changing(u) /\ ~ Changing(u)'
  BY <1>1, HandlerFacts DEF Changing, FreeLoop, At, TypeOK
<1>4. ~ Changing(t)'
  BY <1>1 DEF Changing, FreeLoop
<1>5. CacheFits'
  BY <1>1, <1>3, <1>4 DEF RegistryFits, CacheFits
<1>6. handler.op # "reload" /\ \A u \in Types \ {t} : ~ Removing(u)
  BY <1>1, <1>3, HandlerFacts DEF Removing, Changing, At, Place, TypeOK
<1>7. TemplatesStayFound'
  BY <1>1, <1>6 DEF RegistryFits, TemplatesStayFound, Whole
<1> QED
  BY <1>1, <1>2, <1>5, <1>7, ChangeInv

LEMMA HandlerRefusedInv ==
    ASSUME TypeOK, RegistryFits, HandlerOpenFails \/ HandlerUnlinkFails,
           UNCHANGED <<job, batch>>
    PROVE  TypeOK' /\ RegistryFits'
<1>1. CASE HandlerOpenFails
  <2>1. handler.op \in {"create", "update"} /\ handler.step = "truncate"
    BY <1>1, HandlerFacts DEF HandlerOpenFails, FileRefused, At, Place, TypeOK
  <2>2. PICK t \in Types : t = handler.type
    BY <2>1, HandlerFacts DEF TypeOK
  <2>3. FileRefused("truncate", t) /\ Changing(t)
    BY <1>1, <2>1, <2>2 DEF HandlerOpenFails, Changing
  <2> QED
    BY <2>3, FileRefusedInv
<1>2. CASE HandlerUnlinkFails
  <2>1. handler.op = "delete" /\ handler.step = "unlink"
    BY <1>2, HandlerFacts DEF HandlerUnlinkFails, FileRefused, At, Place, TypeOK
  <2>2. PICK t \in Types : t = handler.path
    BY <2>1, HandlerFacts DEF TypeOK
  <2>3. FileRefused("unlink", t) /\ Changing(t)
    BY <1>2, <2>1, <2>2 DEF HandlerUnlinkFails, Changing
  <2> QED
    BY <2>3, FileRefusedInv
<1> QED
  BY <1>1, <1>2

\* A dump that raises leaves anything in the file.
LEMMA HandlerDumpFailsInv ==
    ASSUME TypeOK, RegistryFits, NEW left \in Versions \union {"torn", None},
           HandlerDumpFails(left), UNCHANGED <<job, batch>>
    PROVE  TypeOK' /\ RegistryFits'
<1>1. handler.op \in {"create", "update"} /\ handler.step = "write"
  BY HandlerFacts DEF HandlerDumpFails, At, Place, TypeOK
<1>2. PICK t \in Types : t = handler.type
  BY <1>1, HandlerFacts DEF TypeOK
<1>3. /\ disk' = [disk EXCEPT ![t] = left]
      /\ apart' = apart \union {t}
      /\ handler' = FreeLoop
      /\ UNCHANGED <<cache, loaded, loader>>
  BY <1>2 DEF HandlerDumpFails
<1>4. TypeOK'
  BY <1>3 DEF TypeOK, RegistryTypeOK
<1>5. \A u \in Types : (Changing(u) <=> u = t) /\ ~ Changing(u)'
  BY <1>1, <1>2, <1>3 DEF Changing, FreeLoop
<1>6. \A u \in Types \ {t} : disk'[u] = disk[u]
  BY <1>3 DEF TypeOK, RegistryTypeOK
<1>7. CacheFits'
  BY <1>3, <1>5, <1>6 DEF RegistryFits, CacheFits
<1>8. TemplatesStayFound'
  BY <1>1, <1>3, <1>6 DEF RegistryFits, TemplatesStayFound, Removing, Whole
<1> QED
  BY <1>1, <1>3, <1>4, <1>7, <1>8, ChangeInv DEF HandlerDumpFails

\* The first half of a reload.
LEMMA HandlerClearInv ==
    ASSUME TypeOK, RegistryFits, HandlerClear, UNCHANGED <<job, batch>>
    PROVE  TypeOK' /\ RegistryFits'
<1>1. handler.op = "reload" /\ handler.step = "clear"
  BY HandlerFacts DEF HandlerClear, At, Place, TypeOK
<1>2. /\ cache' = [t \in Types |-> None]
      /\ apart' = {}
      /\ UNCHANGED <<disk, loaded, loader>>
  BY DEF HandlerClear
<1>3. handler' \in ReadHandler \union WriteHandler \union DeleteHandler \union ReloadHandler
  BY <1>1, AdvanceType DEF HandlerClear, Place, TypeOK
<1>4. TypeOK'
  BY <1>2, <1>3 DEF TypeOK, RegistryTypeOK
<1>5. handler'.op = "reload" /\ handler'.step = "unload"
  BY <1>1, <1>4, Advance DEF HandlerClear, Place, TypeOK
<1>6. LoadsFit' /\ LookupsFollowLoads'
  BY <1>1, <1>2, <1>5 DEF RegistryFits, LoadsFit, LookupsFollowLoads, At, Step
<1>7. CacheFits'
  BY <1>2, <1>5 DEF CacheFits, Changing
<1>8. LoadsCover' /\ TemplatesStayFound'
  BY <1>5 DEF LoadsCover, TemplatesStayFound, Removing
<1>9. NothingEarly'
  BY <1>2 DEF NothingEarly
<1> QED
  BY <1>4, <1>6, <1>7, <1>8, <1>9 DEF RegistryFits

\* The second half: the load of the loop is to cover all files.
LEMMA HandlerUnloadInv ==
    ASSUME TypeOK, RegistryFits, HandlerUnload, UNCHANGED <<job, batch>>
    PROVE  TypeOK' /\ RegistryFits'
<1>1. Loop \in Actors /\ \A x \in Jobs : x \in Actors /\ x # Loop
  BY RegistryAssumption DEF Actors
<1>2. handler.op = "reload" /\ handler.step = "unload"
  BY HandlerFacts DEF HandlerUnload, At, Place, TypeOK
<1>3. /\ loaded' = FALSE
      /\ loader' = [loader EXCEPT ![Loop] = AllFiles]
      /\ UNCHANGED <<disk, cache, apart>>
  BY DEF HandlerUnload, AllFiles
<1>4. handler' \in ReadHandler \union WriteHandler \union DeleteHandler \union ReloadHandler
  BY <1>2, AdvanceType DEF HandlerUnload, Place, TypeOK
<1>5. TypeOK'
  BY <1>3, <1>4, AllFilesFacts DEF TypeOK, RegistryTypeOK
<1>6. handler'.op = "reload" /\ handler'.step = "load"
  BY <1>2, <1>5, Advance DEF HandlerUnload, Place, TypeOK
<1>7. loader'[Loop] = AllFiles /\ \A x \in Jobs : loader'[x] = loader[x]
  BY <1>1, <1>3 DEF TypeOK, RegistryTypeOK
<1>8. LoadsFit'
  BY <1>1, <1>6, <1>7, AllFilesFacts DEF RegistryFits, LoadsFit, Actors, At, Step
<1>9. LookupsFollowLoads'
  BY <1>6 DEF LookupsFollowLoads, At
<1>10. CacheFits'
  BY <1>2, <1>3, <1>6 DEF RegistryFits, CacheFits, Changing
<1>11. Covers(Loop)'
  BY <1>3, <1>7, AllFilesFacts DEF Covers, Found, Whole
<1>12. LoadsCover' /\ TemplatesStayFound'
  BY <1>3, <1>6, <1>11 DEF LoadsCover, TemplatesStayFound
<1>13. NothingEarly'
  BY <1>1, <1>7, AllFilesFacts DEF NothingEarly, InUse
<1> QED
  BY <1>5, <1>8, <1>9, <1>10, <1>12, <1>13 DEF RegistryFits

LEMMA RestartInv ==
    ASSUME TypeOK, Restart
    PROVE  TypeOK' /\ RegistryFits'
<1>1. IdleJob \in Job /\ IdleJob.step = "idle"
  BY ExtractionAssumption DEF IdleJob, Job
<1>2. \A x \in Jobs : job'[x] = IdleJob
  BY DEF Restart
<1>3. TypeOK'
  BY <1>1 DEF Restart, RegistryRestart, TypeOK, RegistryTypeOK
<1>4. LoadsFit'
  BY <1>1, <1>2 DEF Restart, RegistryRestart, LoadsFit, Actors, At, Step, FreeLoop
<1>5. LookupsFollowLoads'
  BY <1>1, <1>2 DEF Restart, RegistryRestart, LookupsFollowLoads, At, Step, FreeLoop
<1>6. CacheFits' /\ TemplatesStayFound'
  BY DEF Restart, RegistryRestart, CacheFits, Changing, TemplatesStayFound, FreeLoop
<1>7. LoadsCover' /\ NothingEarly'
  BY DEF Restart, RegistryRestart, LoadsCover, NothingEarly, Actors, FreeLoop
<1> QED
  BY <1>3, <1>4, <1>5, <1>6, <1>7 DEF RegistryFits

\* An edit outside the routes.
LEMMA EditFileInv ==
    ASSUME TypeOK, RegistryFits, NEW t \in Types, NEW content \in Versions \union {"torn", None},
           EditFile(t, content), UNCHANGED <<job, batch>>
    PROVE  TypeOK' /\ RegistryFits'
<1>1. /\ disk' = [disk EXCEPT ![t] = content]
      /\ apart' = IF InUse THEN apart \union {t} ELSE apart
      /\ UNCHANGED <<cache, loaded, loader, handler>>
  BY DEF EditFile
<1>2. TypeOK'
  BY <1>1 DEF TypeOK, RegistryTypeOK
<1>3. \A u \in Types \ {t} : disk'[u] = disk[u]
  BY <1>1 DEF TypeOK, RegistryTypeOK
<1>4. LoadsFit' /\ LookupsFollowLoads' /\ NothingEarly'
  BY <1>1 DEF RegistryFits, LoadsFit, LookupsFollowLoads, NothingEarly, InUse, At, Step
<1>5. \A u \in Types : Changing(u)' <=> Changing(u)
  BY <1>1 DEF Changing
<1>6. CASE InUse
  <2>1. t \in apart' /\ \A u \in Types \ {t} : u \in apart' <=> u \in apart
    BY <1>1, <1>6
  <2>2. CacheFits'
    BY <1>1, <1>3, <1>5, <2>1 DEF RegistryFits, CacheFits
  <2>3. TemplatesStayFound'
    BY <1>1, <1>3, <2>1 DEF RegistryFits, TemplatesStayFound, Removing, Whole
  <2>4. \A u \in Types : Found(u) => Found(u)'
    BY <1>1, <1>3, <2>1 DEF Found, Whole
  <2>5. LoadsCover'
    BY <1>1, <2>4 DEF RegistryFits, LoadsCover, Covers
  <2> QED
    BY <1>2, <1>4, <2>2, <2>3, <2>5 DEF RegistryFits
<1>7. CASE ~ InUse
  <2>1. ~ loaded /\ \A a \in Actors : loader[a] = None
    BY <1>7 DEF InUse
  <2>2. \A u \in Types : cache[u] = None
    BY <1>7 DEF RegistryFits, NothingEarly
  <2>3. \A u \in Types : ~ Changing(u)
    BY <2>1, HandlerFacts DEF RegistryFits, LookupsFollowLoads, At, Changing, TypeOK
  <2>4. CacheFits'
    BY <1>1, <1>5, <2>2, <2>3 DEF CacheFits
  <2>5. ~ At("load") /\ ~ At("look")
    BY <2>1 DEF RegistryFits, LoadsFit, LookupsFollowLoads, Actors
  <2>6. LoadsCover' /\ TemplatesStayFound'
    BY <1>1, <2>1, <2>5 DEF LoadsCover, TemplatesStayFound, At
  <2> QED
    BY <1>2, <1>4, <2>4, <2>6 DEF RegistryFits
<1> QED
  BY <1>6, <1>7

-----------------------------------------------------------------------------
\* Every step of a route.
LEMMA HandlerStepInv ==
    ASSUME TypeOK, RegistryFits, HandlerStep, UNCHANGED <<job, batch>>
    PROVE  TypeOK' /\ RegistryFits'
<1>1. Loop \in Actors
  BY DEF Actors
<1>2. CASE HandlerRead
  BY <1>1, <1>2, ReadFileInv DEF HandlerRead
<1>3. CASE HandlerStore
  BY <1>1, <1>3, StoreTemplateInv DEF HandlerStore
<1> QED
  BY <1>2, <1>3, HandlerCheckInv, HandlerLoadedInv, HandlerLookInv, HandlerCacheInv,
     HandlerTruncateInv, HandlerWriteInv, HandlerUnlinkInv, HandlerRefusedInv,
     HandlerDumpFailsInv, HandlerClearInv, HandlerUnloadInv
     DEF HandlerStep

\* Every request of an administrator.
LEMMA RequestsInv ==
    ASSUME TypeOK, RegistryFits, Requests, UNCHANGED <<job, batch>>
    PROVE  TypeOK' /\ RegistryFits'
<1>1. PICK request \in ReadHandler \union WriteHandler \union DeleteHandler \union ReloadHandler :
        Begin(request) /\ request.step \in {"check", "clear"}
  <2>1. CASE ReadTemplates
    BY <2>1 DEF ReadTemplates, ReadHandler
  <2>2. ASSUME NEW t \in Types, NEW v \in Versions, CreateTemplate(t, v)
        PROVE  \E request \in WriteHandler : Begin(request) /\ request.step = "check"
    BY <2>2 DEF CreateTemplate, WriteHandler
  <2>3. ASSUME NEW p \in Types, NEW t \in Types, NEW v \in Versions, UpdateTemplate(p, t, v)
        PROVE  \E request \in WriteHandler : Begin(request) /\ request.step = "check"
    BY <2>3 DEF UpdateTemplate, WriteHandler
  <2>4. ASSUME NEW p \in Types, DeleteTemplate(p)
        PROVE  \E request \in DeleteHandler : Begin(request) /\ request.step = "check"
    BY <2>4 DEF DeleteTemplate, DeleteHandler
  <2>5. CASE ReloadTemplates
    BY <2>5 DEF ReloadTemplates, ReloadHandler
  <2> QED
    BY <2>1, <2>2, <2>3, <2>4, <2>5 DEF Requests
<1>2. job' \in [Jobs -> Job] /\ batch' \subseteq Jobs
  BY DEF TypeOK
<1>3. /\ handler.op = "none"
      /\ handler' = request
      /\ UNCHANGED <<disk, cache, loaded, loader, apart>>
  BY <1>1 DEF Begin, FreeLoop
<1>4. \A x \in Jobs, step \in {"load", "fetch"} : Step(x, step)' <=> Step(x, step)
  BY DEF Step
<1> QED
  BY <1>1, <1>2, <1>3, <1>4, LoopMoves

-----------------------------------------------------------------------------
(* Validation.                                                             *)

\* What a conversion makes of a value.
LEMMA ConvertedFacts ==
    ASSUME NEW def \in FieldDef, NEW v \in Value
    PROVE  /\ Converted(def, v) \in Value
           /\ (def.type = "number" => Converted(def, v).number) =>
                  Converted(def, v).kind \in KindsOf(def.type)
<1>1. CASE def.type = "string"
  BY <1>1 DEF Converted, As, Value, Kinds, KindsOf
<1>2. CASE def.type = "number" /\ v.number
  BY <1>2 DEF Converted, As, Value, Kinds, KindsOf
<1>3. CASE def.type = "number" /\ ~ v.number
  BY <1>3 DEF Converted, Value, Kinds, KindsOf
<1>4. CASE def.type = "boolean" /\ v.kind = "str"
  BY <1>4 DEF Converted, As, Value, Kinds, KindsOf
<1>5. CASE def.type = "boolean" /\ v.kind # "str"
  BY <1>5 DEF Converted, Value, Kinds, KindsOf
<1>6. CASE def.type = "list"
  BY <1>6 DEF Converted, As, Value, Kinds, KindsOf
<1>7. CASE def.type = "date"
  BY <1>7 DEF Converted, Value, Kinds, KindsOf
<1> QED
  BY <1>1, <1>2, <1>3, <1>4, <1>5, <1>6, <1>7 DEF FieldDef

(***************************************************************************)
(* For every template and all fields: when validate_extraction calls them  *)
(* valid, the fields that it leaves behind are of the kinds of their types *)
(* and satisfy pattern, not_expired, id_checksum, range and equals, where  *)
(* these are stated and mean something for the value; its tests see what   *)
(* the conversions make, as the caller does.  Nothing is said of regex and *)
(* custom, which it ignores (template_registry.py:231-359).                *)
(***************************************************************************)
THEOREM ValidSatisfies ==
    ASSUME NEW template, \A name \in DOMAIN template : template[name] \in FieldDef,
           NEW fields, \A name \in DOMAIN fields : fields[name] \in Value,
           Valid(template, fields)
    PROVE  Satisfies(template, Delivered(template, fields))
<1> DEFINE delivered == Delivered(template, fields)
<1>1. DOMAIN delivered = DOMAIN fields
  BY DEF Delivered
<1>2. ASSUME NEW name \in DOMAIN template
      PROVE  /\ template[name].required => name \in DOMAIN delivered
             /\ name \in DOMAIN delivered =>
                 LET v == delivered[name] IN
                 /\ v.kind \in KindsOf(template[name].type)
                 /\ \A rule \in Stated(template[name]) \intersect RulesFor(v) :
                        <<v.kind, rule>> \notin v.fails
  <2>1. PICK def \in FieldDef : def = template[name]
    OBVIOUS
  <2>2. Errors(def, name, fields) = {}
    BY <2>1 DEF Valid
  <2>3. def.required => name \in DOMAIN fields
    BY <2>2 DEF Errors
  <2>4. ASSUME name \in DOMAIN fields
        PROVE  LET v == delivered[name] IN
               /\ v.kind \in KindsOf(def.type)
               /\ \A rule \in Stated(def) \intersect RulesFor(v) : <<v.kind, rule>> \notin v.fails
    <3>1. PICK v : v = Converted(def, fields[name])
      OBVIOUS
    <3>2. delivered[name] = v
      BY <2>1, <2>4, <3>1 DEF Delivered
    <3>3. /\ v \in Value
          /\ (def.type = "number" => v.number) => v.kind \in KindsOf(def.type)
      BY <2>4, <3>1, ConvertedFacts
    <3>4. /\ {e \in {"invalid_type"} : def.type = "number" /\ ~ v.number} = {}
          /\ {e \in {"pattern"} : def.pattern /\ v.kind = "str" /\ <<"str", "pattern">> \in v.fails} = {}
          /\ {rule \in def.rules : Broken(rule, v)} = {}
      BY <2>2, <2>4, <3>1 DEF Errors
    <3>5. v.kind \in KindsOf(def.type)
      BY <3>3, <3>4
    <3>6. ASSUME NEW rule \in Stated(def) \intersect RulesFor(v)
          PROVE  <<v.kind, rule>> \notin v.fails
      <4>1. CASE rule = "pattern"
        <5>1. v.kind = "str"
          BY <3>6, <4>1 DEF RulesFor
        <5>2. def.pattern
          BY <3>6, <4>1 DEF Stated, FieldDef, Rules
        <5> QED
          BY <3>4, <4>1, <5>1, <5>2
      <4>2. CASE rule # "pattern"
        <5>1. rule \in def.rules /\ ~ Broken(rule, v)
          BY <3>4, <3>6, <4>2 DEF Stated
        <5> QED
          BY <3>6, <4>2, <5>1 DEF RulesFor, Broken
      <4> QED
        BY <4>1, <4>2
    <3> QED
      BY <3>2, <3>5, <3>6
  <2> QED
    BY <1>1, <2>1, <2>3, <2>4
<1> QED
  BY <1>2 DEF Satisfies

LEMMA AnswerFacts ==
    ASSUME NEW answer \in Answers
    PROVE  /\ answer.type \in Types \union {"UNKNOWN"}
           /\ answer.malformed \in BOOLEAN
           /\ ~ answer.malformed => \A name \in DOMAIN answer.fields : answer.fields[name] \in Value
<1>1. CASE answer \in Readings
  BY <1>1, ExtractionAssumption
<1>2. CASE answer = Garbage
  BY <1>2 DEF Garbage
<1> QED
  BY <1>1, <1>2 DEF Answers

-----------------------------------------------------------------------------
(* What a step makes of a job.                                             *)

LEMMA IdleJobFacts ==
    ASSUME NEW asked \in Types \union {None},
           NEW step \in {"idle", "queued", "check", "encode"}
    PROVE  LET w == [IdleJob EXCEPT !.step = step, !.asked = asked] IN
           w \in Job /\ JobFits(w) /\ w.step = step
<1>1. PICK w : w = [IdleJob EXCEPT !.step = step, !.asked = asked]
  OBVIOUS
<1>2. w = [step |-> step, asked |-> asked, template |-> None, prov |-> 0, attempt |-> 0,
           answer |-> None, valid |-> TRUE]
  BY <1>1 DEF IdleJob
<1>3. w \in Job
  BY <1>2, ExtractionAssumption DEF Job
<1>4. JobFits(w) /\ w.step = step
  BY <1>2 DEF JobFits
<1> QED
  BY <1>1, <1>3, <1>4

LEMMA BegunFacts ==
    ASSUME NEW asked \in Asked
    PROVE  LET w == [IdleJob EXCEPT !.step = Begun(asked), !.asked = asked] IN
           w \in Job /\ JobFits(w) /\ w.step \in {"check", "encode"}
BY IdleJobFacts, ExtractionAssumption DEF Begun

LEMMA IdleJobFits == IdleJob \in Job /\ JobFits(IdleJob) /\ IdleJob.step = "idle"
BY ExtractionAssumption DEF IdleJob, Job, JobFits

\* A job whose place alone changes.
LEMMA PlaceFacts ==
    ASSUME NEW j \in Job, JobFits(j), j.step # "done",
           NEW step \in {"check", "load", "fetch", "encode", "raised"},
           step = "encode" => j.answer = None
    PROVE  LET w == [j EXCEPT !.step = step] IN
           w \in Job /\ JobFits(w) /\ w.step = step
BY DEF Job, JobFits

LEMMA NextProviderFacts ==
    ASSUME NEW j \in Job,
           j.template # None => j.prov > 0 \/ j.template.type = j.asked
    PROVE  LET w == NextProvider(j) IN
           w \in Job /\ JobFits(w) /\ w.step \in {"call", "done"} /\ w.answer = None
<1>1. j.prov \in 0 .. ProviderCount /\ ProviderCount \in Nat /\ Attempts \in Nat \ {0}
  BY ExtractionAssumption DEF Job
<1>2. CASE j.prov < ProviderCount
  <2>1. NextProvider(j) =
          [j EXCEPT !.step = "call", !.prov = j.prov + 1, !.attempt = 1, !.answer = None]
    BY <1>2 DEF NextProvider
  <2>2. 1 \in 0 .. Attempts /\ j.prov + 1 \in 0 .. ProviderCount
    BY <1>1, <1>2
  <2>3. PICK w : w = NextProvider(j)
    OBVIOUS
  <2>4. w \in Job
    BY <2>1, <2>2, <2>3 DEF Job
  <2>5. /\ w.step = "call" /\ w.answer = None /\ w.prov = j.prov + 1
        /\ w.template = j.template /\ w.asked = j.asked
    BY <2>1, <2>3 DEF Job
  <2>6. w.template # None => w.prov > 1 \/ w.template.type = w.asked
    BY <1>1, <2>5
  <2>7. JobFits(w)
    BY <1>1, <2>5, <2>6 DEF JobFits
  <2> QED
    BY <2>3, <2>4, <2>5, <2>7
<1>3. CASE ~ (j.prov < ProviderCount)
  <2>1. NextProvider(j) = [j EXCEPT !.step = "done", !.attempt = 0, !.answer = None]
    BY <1>3 DEF NextProvider
  <2>2. 0 \in 0 .. Attempts
    BY <1>1
  <2>3. PICK w : w = NextProvider(j)
    OBVIOUS
  <2>4. w \in Job /\ w.step = "done" /\ w.answer = None
    BY <2>1, <2>2, <2>3 DEF Job
  <2> QED
    BY <2>3, <2>4 DEF JobFits
<1> QED
  BY <1>2, <1>3

LEMMA ConcludedFacts ==
    ASSUME NEW j \in Job, j.answer # None, j.prov > 0,
           j.template # None =>
               j.template.type \in {j.asked, j.answer.type} \/ j.prov > 1
    PROVE  LET w == Concluded(j) IN
           /\ w \in Job /\ JobFits(w) /\ w.step \in {"call", "done"}
           /\ w.step = "done" /\ w.answer # None => w.template = j.template /\ w.answer = j.answer
<1>1. j.answer \in Answers /\ j.template \in Template \union {None}
  BY DEF Job
<1>2. CASE j.template = None
  <2>1. Concluded(j) = [j EXCEPT !.step = "done"]
    BY <1>2 DEF Concluded
  <2> QED
    BY <1>2, <2>1 DEF Job, JobFits
<1>3. CASE j.template # None /\ j.answer.malformed
  <2>1. Concluded(j) = NextProvider(j)
    BY <1>3 DEF Concluded
  <2> QED
    BY <2>1, NextProviderFacts
<1>4. CASE j.template # None /\ ~ j.answer.malformed
  <2> DEFINE template == Layout[j.template.version]
             valid    == Valid(template, j.answer.fields)
  <2>1. Concluded(j) = [j EXCEPT !.step = "done", !.valid = valid]
    BY <1>4 DEF Concluded
  <2>2. j.template.version \in Versions
    BY <1>1, <1>4 DEF Template
  <2>3. \A name \in DOMAIN template : template[name] \in FieldDef
    BY <2>2, ExtractionAssumption
  <2>4. valid => Satisfies(template, Delivered(template, j.answer.fields))
    BY <1>1, <1>4, <2>3, AnswerFacts, ValidSatisfies
  <2>5. valid \in BOOLEAN
    BY DEF Valid
  <2> HIDE DEF valid
  <2> QED
    BY <1>4, <2>1, <2>4, <2>5 DEF Job, JobFits
<1> QED
  BY <1>2, <1>3, <1>4

-----------------------------------------------------------------------------
(* Steps of one job.                                                       *)

LEMMA OneJobFits ==
    ASSUME TypeOK, JobsFit, NEW x \in Jobs, NEW w \in Job, JobFits(w),
           job' = [job EXCEPT ![x] = w]
    PROVE  JobsFit'
BY JobMoves DEF JobsFit

\* A step of a job that leaves the registry alone.
LEMMA JobAlone ==
    ASSUME IInv, NEW x \in Jobs, NEW w \in Job, JobFits(w), job' = [job EXCEPT ![x] = w],
           UNCHANGED registry, batch' \subseteq Jobs,
           ~ Step(x, "load"), w.step # "load", w.step = "fetch" => loaded
    PROVE  IInv'
<1>1. /\ job' \in [Jobs -> Job]
      /\ job'[x] = w
      /\ \A y \in Jobs \ {x} : job'[y] = job[y]
  BY JobMoves DEF IInv
<1>2. \A y \in Jobs : Step(y, "load")' <=> Step(y, "load")
  BY <1>1 DEF Step
<1>3. \A y \in Jobs : Step(y, "fetch")' => Step(y, "fetch") \/ loaded
  BY <1>1 DEF Step
<1>4. TypeOK' /\ RegistryFits'
  BY <1>1, <1>2, <1>3, JobsMove DEF IInv
<1>5. JobsFit'
  BY OneJobFits DEF IInv
<1> QED
  BY <1>4, <1>5 DEF IInv

\* The same for a step in which a test begins or ends.
LEMMA TestAlone ==
    ASSUME IInv, NEW x \in Jobs, NEW w \in Job, JobFits(w), job' = [job EXCEPT ![x] = w],
           UNCHANGED <<disk, cache, loaded, loader, apart, batch>>,
           handler.op \in {"none", "test"}, handler' \in {FreeLoop} \union TestHandler,
           ~ Step(x, "load"), w.step \notin {"load", "fetch"}
    PROVE  IInv'
<1>1. /\ job' \in [Jobs -> Job]
      /\ job'[x] = w
      /\ \A y \in Jobs \ {x} : job'[y] = job[y]
  BY JobMoves DEF IInv
<1>2. \A y \in Jobs : Step(y, "load")' <=> Step(y, "load")
  BY <1>1 DEF Step
<1>3. \A y \in Jobs : Step(y, "fetch")' => Step(y, "fetch")
  BY <1>1 DEF Step
<1>4. PICK request \in {FreeLoop} \union TestHandler : handler' = request
  OBVIOUS
<1>5. request.op \in {"none", "test"}
  BY <1>4 DEF FreeLoop, TestHandler
<1>6. batch' \subseteq Jobs
  BY DEF IInv, TypeOK
<1>7. TypeOK' /\ RegistryFits'
  BY <1>1, <1>2, <1>3, <1>4, <1>5, <1>6, LoopMoves DEF IInv
<1>8. JobsFit'
  BY OneJobFits DEF IInv
<1> QED
  BY <1>7, <1>8 DEF IInv

LEMMA JobFacts ==
    ASSUME IInv, NEW x \in Jobs
    PROVE  job[x] \in Job /\ JobFits(job[x]) /\ batch \subseteq Jobs
BY DEF IInv, TypeOK, JobsFit

LEMMA CheckLoadedInv ==
    ASSUME IInv, NEW x \in Jobs, CheckLoaded(x)
    PROVE  IInv'
<1>1. job[x] \in Job /\ JobFits(job[x]) /\ job[x].step = "check"
  BY JobFacts DEF CheckLoaded, Step
<1>2. CASE loaded
  <2>1. PICK w : w = [job[x] EXCEPT !.step = "fetch"]
    OBVIOUS
  <2>2. w \in Job /\ JobFits(w) /\ w.step = "fetch"
    BY <1>1, <2>1, PlaceFacts
  <2>3. job' = [job EXCEPT ![x] = w] /\ UNCHANGED registry /\ UNCHANGED batch
    BY <1>2, <2>1 DEF CheckLoaded, MustLoad, registry
  <2> QED
    BY <1>1, <1>2, <2>2, <2>3, JobFacts, JobAlone DEF Step
<1>3. CASE ~ loaded
  <2>1. PICK w : w = [job[x] EXCEPT !.step = "load"]
    OBVIOUS
  <2>2. w \in Job /\ JobFits(w) /\ w.step = "load"
    BY <1>1, <2>1, PlaceFacts
  <2>3. /\ job' = [job EXCEPT ![x] = w]
        /\ StartLoad(x)
        /\ UNCHANGED <<handler, batch>>
    BY <1>3, <2>1 DEF CheckLoaded, MustLoad
  <2>4. TypeOK' /\ RegistryFits'
    BY <1>1, <1>3, <2>2, <2>3, ThreadStartsLoad DEF IInv, Step
  <2>5. JobsFit'
    BY <2>2, <2>3, OneJobFits DEF IInv
  <2> QED
    BY <2>4, <2>5 DEF IInv
<1> QED
  BY <1>2, <1>3

LEMMA LoadFileInv ==
    ASSUME IInv, NEW x \in Jobs, LoadFile(x)
    PROVE  IInv'
<1>1. x \in Actors
  BY DEF Actors
<1>2. TypeOK' /\ RegistryFits'
  BY <1>1, ReadFileInv, StoreTemplateInv DEF LoadFile, IInv
<1>3. JobsFit'
  BY DEF LoadFile, IInv, JobsFit
<1> QED
  BY <1>2, <1>3 DEF IInv

LEMMA LoadedInv ==
    ASSUME IInv, NEW x \in Jobs, Loaded(x)
    PROVE  IInv'
<1>1. PICK w : w = [job[x] EXCEPT !.step = "fetch"]
  OBVIOUS
<1>2. Step(x, "load")
  BY DEF Loaded, FinishLoad, IInv, RegistryFits, LoadsFit
<1>3. w \in Job /\ JobFits(w) /\ w.step = "fetch"
  BY <1>1, <1>2, JobFacts, PlaceFacts DEF Step
<1>4. job' = [job EXCEPT ![x] = w] /\ FinishLoad(x) /\ UNCHANGED <<handler, batch>>
  BY <1>1 DEF Loaded
<1>5. TypeOK' /\ RegistryFits'
  BY <1>3, <1>4, ThreadEndsLoad DEF IInv
<1>6. JobsFit'
  BY <1>3, <1>4, OneJobFits DEF IInv
<1> QED
  BY <1>5, <1>6 DEF IInv

\* What the second lookup finds is of the type that was looked up.
LEMMA FetchFacts ==
    ASSUME IInv, NEW x \in Jobs, FetchTemplate(x)
    PROVE  \E w \in Job :
             /\ JobFits(w) /\ w.step \in {"encode", "call", "done"}
             /\ job' = [job EXCEPT ![x] = w]
             /\ w.step = "done" /\ w.answer # None /\ w.template = None =>
                    Cached(w.answer.type) = None
<1> DEFINE j       == job[x]
           version == Cached(Wanted(j))
<1>1. j \in Job /\ JobFits(j) /\ j.step = "fetch"
  BY JobFacts DEF FetchTemplate, Step
<1>2. version \in Versions \union {None} /\ (version # None => Wanted(j) \in Types)
  BY DEF Cached, IInv, TypeOK, RegistryTypeOK
<1>3. PICK template : template = IF version = None THEN None
                                 ELSE [type |-> Wanted(j), version |-> version]
  OBVIOUS
<1>4. /\ template \in Template \union {None}
      /\ template = None <=> version = None
      /\ template # None => template.type = Wanted(j)
  <2>1. CASE version = None
    BY <1>3, <2>1
  <2>2. CASE version # None
    <3>1. template \in Template /\ template.type = Wanted(j)
      BY <1>2, <1>3, <2>2 DEF Template
    <3> QED
      BY <2>2, <3>1, NullExtractionAssumption
  <2> QED
    BY <2>1, <2>2
<1>5. PICK found : found = [j EXCEPT !.template = template]
  OBVIOUS
<1>6. /\ found \in Job /\ found.template = template
      /\ found.asked = j.asked /\ found.prov = j.prov /\ found.answer = j.answer
  BY <1>1, <1>4, <1>5 DEF Job
<1>7. job' = [job EXCEPT ![x] = IF j.answer = None THEN [found EXCEPT !.step = "encode"]
                                ELSE Concluded(found)]
  BY <1>3, <1>5 DEF FetchTemplate
<1>8. CASE j.answer = None
  <2>1. PICK w : w = [found EXCEPT !.step = "encode"]
    OBVIOUS
  <2>2. /\ w \in Job /\ w.step = "encode" /\ w.template = template
        /\ w.asked = j.asked /\ w.answer = None
    BY <1>6, <1>8, <2>1 DEF Job
  <2>3. JobFits(w)
    BY <1>4, <1>8, <2>2 DEF JobFits, Wanted
  <2> QED
    BY <1>7, <1>8, <2>1, <2>2, <2>3
<1>9. CASE j.answer # None
  <2>1. PICK w : w = Concluded(found)
    OBVIOUS
  <2>2. found.prov > 0
    BY <1>1, <1>6, <1>9 DEF JobFits
  <2>3. found.template # None => found.template.type = found.answer.type
    BY <1>4, <1>6, <1>9 DEF Wanted
  <2>4. /\ w \in Job /\ JobFits(w) /\ w.step \in {"call", "done"}
        /\ w.step = "done" /\ w.answer # None =>
               w.template = found.template /\ w.answer = found.answer
    BY <1>6, <1>9, <2>1, <2>2, <2>3, ConcludedFacts
  <2>5. w.step = "done" /\ w.answer # None /\ w.template = None => Cached(w.answer.type) = None
    BY <1>4, <1>6, <1>9, <2>4 DEF Wanted
  <2> QED
    BY <1>7, <1>9, <2>1, <2>4, <2>5
<1> QED
  BY <1>8, <1>9

LEMMA FetchTemplateInv ==
    ASSUME IInv, NEW x \in Jobs, FetchTemplate(x)
    PROVE  IInv'
<1>1. PICK w \in Job :
        JobFits(w) /\ w.step \in {"encode", "call", "done"} /\ job' = [job EXCEPT ![x] = w]
  BY FetchFacts
<1>2. ~ Step(x, "load") /\ UNCHANGED registry /\ batch' \subseteq Jobs
  BY JobFacts DEF FetchTemplate, Step
<1> QED
  BY <1>1, <1>2, JobAlone

LEMMA EncodeImageInv ==
    ASSUME IInv, NEW x \in Jobs, NEW fails \in BOOLEAN, EncodeImage(x, fails)
    PROVE  IInv'
<1>1. job[x] \in Job /\ JobFits(job[x]) /\ job[x].step = "encode"
  BY JobFacts DEF EncodeImage, Step
<1>2. PICK w : w = IF fails THEN [job[x] EXCEPT !.step = "raised"] ELSE NextProvider(job[x])
  OBVIOUS
<1>3. /\ job' = [job EXCEPT ![x] = w]
      /\ UNCHANGED registry /\ batch' \subseteq Jobs
  BY <1>2, JobFacts DEF EncodeImage
<1>4. w \in Job /\ JobFits(w) /\ w.step \in {"raised", "call", "done"}
  <2>1. CASE fails
    BY <1>1, <1>2, <2>1, PlaceFacts
  <2>2. CASE ~ fails
    <3>1. job[x].template # None => job[x].prov > 0 \/ job[x].template.type = job[x].asked
      BY <1>1 DEF JobFits, Job
    <3> QED
      BY <1>1, <1>2, <2>2, <3>1, NextProviderFacts
  <2> QED
    BY <2>1, <2>2
<1> QED
  BY <1>1, <1>3, <1>4, JobAlone DEF Step

LEMMA CallFailsInv ==
    ASSUME IInv, NEW x \in Jobs, NEW how \in {"busy", "refused"}, CallFails(x, how)
    PROVE  IInv'
<1>1. job[x] \in Job /\ JobFits(job[x]) /\ job[x].step = "call"
  BY JobFacts DEF CallFails, Step
<1>2. PICK w : w = IF how = "busy" THEN Retried(job[x]) ELSE NextProvider(job[x])
  OBVIOUS
<1>3. /\ job' = [job EXCEPT ![x] = w]
      /\ UNCHANGED registry /\ batch' \subseteq Jobs
  BY <1>2, JobFacts DEF CallFails
<1>4. w \in Job /\ JobFits(w) /\ w.step \in {"call", "done"}
  <2>1. CASE how = "busy" /\ job[x].attempt < Attempts
    <3>1. w = [job[x] EXCEPT !.attempt = job[x].attempt + 1]
      BY <1>2, <2>1 DEF Retried
    <3>2. job[x].attempt + 1 \in 0 .. Attempts
      BY <1>1, <2>1, ExtractionAssumption DEF Job
    <3> QED
      BY <1>1, <3>1, <3>2 DEF Job, JobFits
  <2>2. CASE w = NextProvider(job[x])
    <3>1. job[x].template # None => job[x].prov > 0 \/ job[x].template.type = job[x].asked
      BY <1>1 DEF JobFits
    <3> QED
      BY <1>1, <2>2, <3>1, NextProviderFacts
  <2> QED
    BY <1>2, <2>1, <2>2 DEF Retried
<1> QED
  BY <1>1, <1>3, <1>4, JobAlone DEF Step

\* The answer of a provider.
LEMMA AnswerStep ==
    ASSUME IInv, NEW x \in Jobs, NEW answer \in Answers, CallAnswers(x, answer)
    PROVE  \E w \in Job :
             /\ JobFits(w) /\ w.step \in {"check", "call", "done"}
             /\ job' = [job EXCEPT ![x] = w]
             /\ w.step = "done" /\ w.answer # None => w.template # None
<1>1. job[x] \in Job /\ JobFits(job[x]) /\ job[x].step = "call"
  BY JobFacts DEF CallAnswers, Step
<1>2. PICK answered : answered = [job[x] EXCEPT !.answer = answer, !.attempt = 0]
  OBVIOUS
<1>3. /\ answered \in Job /\ answered.answer = answer
      /\ answered.template = job[x].template
      /\ answered.asked = job[x].asked /\ answered.prov = job[x].prov
      /\ answered.step = "call"
  <2>1. 0 \in 0 .. Attempts
    BY ExtractionAssumption
  <2>2. answered \in Job
    BY <1>1, <1>2, <2>1 DEF Job
  <2> QED
    BY <1>1, <1>2, <2>2 DEF Job
<1>4. /\ job[x].prov > 0
      /\ job[x].template # None => job[x].template.type = job[x].asked \/ job[x].prov > 1
  BY <1>1 DEF JobFits
<1>5. CASE job[x].template = None
  <2>1. PICK w : w = [answered EXCEPT !.step = "check"]
    OBVIOUS
  <2>2. /\ w \in Job /\ w.step = "check" /\ w.template = None
        /\ w.prov = job[x].prov /\ w.answer = answer
    BY <1>3, <1>5, <2>1 DEF Job
  <2>3. JobFits(w)
    BY <1>4, <2>2 DEF JobFits
  <2>4. job' = [job EXCEPT ![x] = w]
    BY <1>2, <1>5, <2>1 DEF CallAnswers
  <2> QED
    BY <2>2, <2>3, <2>4
<1>6. CASE job[x].template # None /\ answer # None
  <2>1. PICK w : w = Concluded(answered)
    OBVIOUS
  <2>2. /\ w \in Job /\ JobFits(w) /\ w.step \in {"call", "done"}
        /\ w.step = "done" /\ w.answer # None => w.template = job[x].template
    BY <1>3, <1>4, <1>6, <2>1, ConcludedFacts
  <2>3. job' = [job EXCEPT ![x] = w]
    BY <1>2, <1>6, <2>1 DEF CallAnswers
  <2> QED
    BY <1>6, <2>2, <2>3
<1> QED
  BY <1>5, <1>6, NullExtractionAssumption

LEMMA CallAnswersInv ==
    ASSUME IInv, NEW x \in Jobs, NEW answer \in Answers, CallAnswers(x, answer)
    PROVE  IInv'
<1>1. PICK w \in Job :
        JobFits(w) /\ w.step \in {"check", "call", "done"} /\ job' = [job EXCEPT ![x] = w]
  BY AnswerStep
<1>2. ~ Step(x, "load") /\ UNCHANGED registry /\ batch' \subseteq Jobs
  BY JobFacts DEF CallAnswers, Step
<1> QED
  BY <1>1, <1>2, JobAlone

-----------------------------------------------------------------------------
(* Starting and collecting jobs.                                           *)

LEMMA StartBatchInv ==
    ASSUME IInv, NEW items \in SUBSET Jobs, NEW asked \in Asked, StartBatch(items, asked)
    PROVE  IInv'
<1>1. PICK w : w = [IdleJob EXCEPT !.step = "queued", !.asked = asked]
  OBVIOUS
<1>2. w \in Job /\ JobFits(w) /\ w.step = "queued"
  BY <1>1, IdleJobFacts, ExtractionAssumption
<1>3. /\ job' = [x \in Jobs |-> IF x \in items THEN w ELSE job[x]]
      /\ UNCHANGED registry
      /\ batch' \subseteq Jobs
  BY <1>1 DEF StartBatch
<1>4. \A x \in Jobs : job[x].step = "idle"
  BY DEF StartBatch, Step
<1>5. job' \in [Jobs -> Job] /\ JobsFit'
  BY <1>2, <1>3, JobFacts DEF JobsFit
<1>6. \A x \in Jobs : job'[x].step \in {"idle", "queued"}
  BY <1>2, <1>3, <1>4
<1>7. TypeOK' /\ RegistryFits'
  BY <1>3, <1>4, <1>5, <1>6, JobsMove DEF IInv, Step
<1> QED
  BY <1>5, <1>7 DEF IInv

LEMMA AdmitInv ==
    ASSUME IInv, NEW x \in Jobs, Admit(x)
    PROVE  IInv'
<1>1. job[x] \in Job /\ JobFits(job[x]) /\ job[x].step = "queued"
  BY JobFacts DEF Admit, Step
<1>2. PICK w : w = [job[x] EXCEPT !.step = Begun(job[x].asked)]
  OBVIOUS
<1>3. job' = [job EXCEPT ![x] = w] /\ UNCHANGED registry /\ batch' \subseteq Jobs
  BY <1>2, JobFacts DEF Admit
<1>4. w \in Job /\ JobFits(w) /\ w.step \in {"check", "encode"}
  <2>1. job[x].answer = None
    BY <1>1 DEF JobFits
  <2>2. PICK step \in {"check", "encode"} : step = Begun(job[x].asked)
    BY DEF Begun
  <2> QED
    BY <1>1, <1>2, <2>1, <2>2, PlaceFacts
<1> QED
  BY <1>1, <1>3, <1>4, JobAlone DEF Step

LEMMA TestExtractionInv ==
    ASSUME IInv, NEW x \in Jobs, NEW asked \in Asked, TestExtraction(x, asked)
    PROVE  IInv'
<1>1. PICK w : w = [IdleJob EXCEPT !.step = Begun(asked), !.asked = asked]
  OBVIOUS
<1>2. w \in Job /\ JobFits(w) /\ w.step \in {"check", "encode"}
  BY <1>1, BegunFacts
<1>3. /\ job' = [job EXCEPT ![x] = w]
      /\ handler.op = "none" /\ handler' \in TestHandler
      /\ UNCHANGED <<disk, cache, loaded, loader, apart, batch>>
  BY <1>1 DEF TestExtraction, Begin, FreeLoop, TestHandler
<1>4. ~ Step(x, "load")
  BY DEF TestExtraction, Step
<1> QED
  BY <1>2, <1>3, <1>4, TestAlone

LEMMA EndTestInv ==
    ASSUME IInv, NEW x \in Jobs, EndTest(x)
    PROVE  IInv'
<1>1. ~ Step(x, "load")
  BY DEF EndTest, Ended, Step
<1>2. handler.op = "test"
  BY DEF EndTest
<1> QED
  BY <1>1, <1>2, IdleJobFits, TestAlone DEF EndTest

LEMMA EndBatchInv ==
    ASSUME IInv, EndBatch
    PROVE  IInv'
<1>1. /\ job' = [x \in Jobs |-> IF x \in batch THEN IdleJob ELSE job[x]]
      /\ UNCHANGED registry
      /\ batch' \subseteq Jobs
      /\ \A x \in batch : job[x].step = "done"
  BY DEF EndBatch, Step
<1>2. job' \in [Jobs -> Job] /\ JobsFit'
  BY <1>1, IdleJobFits, JobFacts DEF JobsFit
<1>3. \A x \in Jobs : \/ job'[x] = job[x]
                      \/ job'[x].step = "idle" /\ job[x].step = "done"
  BY <1>1, IdleJobFits
<1>4. TypeOK' /\ RegistryFits'
  BY <1>1, <1>2, <1>3, JobsMove DEF IInv, Step
<1> QED
  BY <1>2, <1>4 DEF IInv

\* A job whose result nobody collects, or whose exception ends its batch.
LEMMA CollectInv ==
    ASSUME IInv, NEW x \in Jobs, FailBatch(x) \/ Discard(x)
    PROVE  IInv'
<1>1. /\ ~ Step(x, "load")
      /\ job' = [job EXCEPT ![x] = IdleJob]
      /\ UNCHANGED registry
      /\ batch' \subseteq Jobs
  BY JobFacts DEF FailBatch, Discard, Ended, Step
<1> QED
  BY <1>1, IdleJobFits, JobAlone

-----------------------------------------------------------------------------
LEMMA InitInv == Init => IInv
<1> SUFFICES ASSUME Init
             PROVE  IInv
  OBVIOUS
<1>1. /\ disk \in [Types -> Versions \union {None}]
      /\ cache = [t \in Types |-> None]
      /\ loaded = FALSE
      /\ loader = [a \in Actors |-> None]
      /\ handler = FreeLoop
      /\ apart = {}
      /\ job = [x \in Jobs |-> IdleJob]
      /\ batch = {}
  BY DEF Init, RegistryInit
<1>2. TypeOK
  BY <1>1, IdleJobFits DEF TypeOK, RegistryTypeOK
<1>3. LoadsFit /\ LookupsFollowLoads
  BY <1>1, IdleJobFits DEF LoadsFit, LookupsFollowLoads, Actors, At, Step, FreeLoop
<1>4. CacheFits /\ LoadsCover /\ NothingEarly /\ TemplatesStayFound
  BY <1>1 DEF CacheFits, Changing, LoadsCover, NothingEarly, TemplatesStayFound, FreeLoop
<1>5. JobsFit
  BY <1>1, IdleJobFits DEF JobsFit
<1> QED
  BY <1>2, <1>3, <1>4, <1>5 DEF IInv, RegistryFits

LEMMA NextInv == IInv /\ [Next]_vars => IInv'
<1> SUFFICES ASSUME IInv, [Next]_vars
             PROVE  IInv'
  OBVIOUS
<1>1. ASSUME UNCHANGED <<job, batch>>, TypeOK' /\ RegistryFits'
      PROVE  IInv'
  BY <1>1 DEF IInv, JobsFit
<1>2. CASE Requests /\ UNCHANGED <<job, batch>>
  BY <1>1, <1>2, RequestsInv DEF IInv
<1>3. CASE HandlerStep /\ UNCHANGED <<job, batch>>
  BY <1>1, <1>3, HandlerStepInv DEF IInv
<1>4. ASSUME NEW items \in Batches, NEW asked \in AskedInBatch, StartBatch(items, asked)
      PROVE  IInv'
  BY <1>4, StartBatchInv, ExtractionAssumption DEF Asked
<1>5. ASSUME NEW x \in Jobs, NEW asked \in AskedInTest, TestExtraction(x, asked)
      PROVE  IInv'
  BY <1>5, TestExtractionInv DEF Asked
<1>6. ASSUME NEW x \in Jobs, JobStep(x)
      PROVE  IInv'
  <2>1. ASSUME NEW fails \in BOOLEAN, EncodeImage(x, fails)
        PROVE  IInv'
    BY <2>1, EncodeImageInv
  <2>2. ASSUME NEW how \in {"busy", "refused"}, CallFails(x, how)
        PROVE  IInv'
    BY <2>2, CallFailsInv
  <2>3. ASSUME NEW answer \in Answers, CallAnswers(x, answer)
        PROVE  IInv'
    BY <2>3, CallAnswersInv
  <2> QED
    BY <1>6, <2>1, <2>2, <2>3, CheckLoadedInv, LoadFileInv, LoadedInv, FetchTemplateInv
       DEF JobStep
<1>7. ASSUME NEW x \in Jobs, EndTest(x) \/ LoopStep(x)
      PROVE  IInv'
  BY <1>7, EndTestInv, AdmitInv, CollectInv, EndBatchInv DEF LoopStep
<1>8. CASE Restart
  <2>1. TypeOK' /\ RegistryFits'
    BY <1>8, RestartInv DEF IInv
  <2>2. JobsFit'
    BY <1>8, IdleJobFits DEF Restart, JobsFit
  <2> QED
    BY <2>1, <2>2 DEF IInv
<1>9. CASE UNCHANGED vars
  <2>1. UNCHANGED registry /\ UNCHANGED <<job, batch>>
    BY <1>9 DEF vars, registry
  <2>2. job' \in [Jobs -> Job] /\ batch' \subseteq Jobs
    BY <2>1 DEF IInv, TypeOK
  <2>3. \A x \in Jobs, step \in {"load", "fetch"} : Step(x, step)' <=> Step(x, step)
    BY <2>1 DEF Step
  <2> QED
    BY <1>1, <2>1, <2>2, <2>3, JobsMove DEF IInv
<1>10. ASSUME NEW t \in Types, NEW content \in Versions \union {"torn", None},
              EditFile(t, content), UNCHANGED <<job, batch>>
       PROVE  IInv'
  BY <1>1, <1>10, EditFileInv DEF IInv
<1> QED
  BY <1>2, <1>3, <1>4, <1>5, <1>6, <1>7, <1>8, <1>9, <1>10 DEF Next

-----------------------------------------------------------------------------
(***************************************************************************)
(* Every reachable state satisfies the inductive invariant.                *)
(***************************************************************************)
THEOREM Invariance == Spec => []IInv
BY InitInv, NextInv, PTL DEF Spec

(***************************************************************************)
(* Registry, routes and jobs keep their types: no job makes more attempts  *)
(* or calls more providers than there are (llm_extractor.py:278-314).      *)
(***************************************************************************)
THEOREM TypeCorrect == Spec => []TypeOK
<1>1. IInv => TypeOK
  BY DEF IInv
<1> QED
  BY <1>1, Invariance, PTL

(***************************************************************************)
(* A loaded cache has every template with a whole file, however many       *)
(* threads load at once, but for a reload or its own removal in progress   *)
(* and the files that were edited outside the routes, or left by a failing *)
(* one, since the last reload (template_registry.py:71-97, 111-140).       *)
(***************************************************************************)
THEOREM TemplatesAreFound == Spec => []TemplatesStayFound
<1>1. IInv => TemplatesStayFound
  BY DEF IInv, RegistryFits
<1> QED
  BY <1>1, Invariance, PTL

(***************************************************************************)
(* Between routes the cache is what the files say, but for the templates   *)
(* that a thread stored late, whose file was edited outside the routes, or *)
(* on whose file a route failed after it had changed the cache             *)
(* (template_registry.py:80-91, 111-140).                                  *)
(***************************************************************************)
THEOREM CacheAgreesWithDisk == Spec => []CacheIsDisk
<1>1. IInv => CacheIsDisk
  <2> SUFFICES ASSUME IInv, loaded, handler.op \in {"none", "test"}, NEW t \in Types \ apart
               PROVE  cache[t] = IF Whole(t) THEN disk[t] ELSE None
    BY DEF CacheIsDisk
  <2>1. ~ Changing(t) /\ ~ Removing(t)
    BY DEF Changing, Removing
  <2>2. cache[t] # None => cache[t] = disk[t]
    BY <2>1 DEF IInv, RegistryFits, CacheFits
  <2>3. Whole(t) => cache[t] # None
    BY <2>1 DEF IInv, RegistryFits, TemplatesStayFound
  <2>4. cache[t] \in Versions \union {None}
    BY DEF IInv, TypeOK, RegistryTypeOK
  <2> QED
    BY <2>2, <2>3, <2>4, RegistryAssumption DEF Whole
<1> QED
  BY <1>1, Invariance, PTL

(***************************************************************************)
(* The fields of a valid result satisfy the template it carries, but for   *)
(* regex and custom, and that template is of the type asked for or         *)
(* detected, unless an earlier provider failed in validation               *)
(* (template_registry.py:231-359, llm_extractor.py:290-314).               *)
(***************************************************************************)
THEOREM ResultsFit == Spec => []ResultsFitTheirTemplate
<1>1. IInv => ResultsFitTheirTemplate
  <2> SUFFICES ASSUME IInv, NEW x \in Jobs, job[x].step = "done",
                      job[x].answer # None, job[x].template # None
               PROVE  /\ job[x].valid =>
                             LET template == Layout[job[x].template.version] IN
                             Satisfies(template, Delivered(template, job[x].answer.fields))
                      /\ \/ job[x].template.type \in {job[x].asked, job[x].answer.type}
                         \/ job[x].prov > 1
    BY DEF ResultsFitTheirTemplate
  <2>1. JobFits(job[x])
    BY JobFacts
  <2> QED
    BY <2>1 DEF JobFits
<1> QED
  BY <1>1, Invariance, PTL

-----------------------------------------------------------------------------
\* A job ends with an answer and no template in its second lookup only.
LEMMA UncheckedStep ==
    ASSUME IInv, Next, NEW x \in Jobs, ~ Ended(x), job'[x].step = "done",
           job'[x].answer # None, job'[x].template = None
    PROVE  FetchTemplate(x)
<1>1. job'[x] # job[x]
  BY DEF Ended
<1>2. ASSUME NEW y \in Jobs, NEW w \in Job, job' = [job EXCEPT ![y] = w]
      PROVE  x = y /\ w.step = "done" /\ w.answer # None /\ w.template = None
  BY <1>1, <1>2, JobMoves DEF IInv
<1>3. ASSUME NEW items \in Batches, NEW asked \in AskedInBatch, StartBatch(items, asked)
      PROVE  FALSE
  <2>1. job'[x] = [IdleJob EXCEPT !.step = "queued", !.asked = asked]
    BY <1>1, <1>3 DEF StartBatch
  <2> QED
    BY <2>1, IdleJobFacts, ExtractionAssumption DEF Asked
<1>4. ASSUME NEW y \in Jobs, NEW asked \in AskedInTest, TestExtraction(y, asked)
      PROVE  FALSE
  <2>1. PICK w : w = [IdleJob EXCEPT !.step = Begun(asked), !.asked = asked]
    OBVIOUS
  <2>2. w \in Job /\ w.step \in {"check", "encode"}
    BY <2>1, BegunFacts DEF Asked
  <2>3. job' = [job EXCEPT ![y] = w]
    BY <1>4, <2>1 DEF TestExtraction
  <2> QED
    BY <1>2, <2>2, <2>3
<1>5. ASSUME NEW y \in Jobs, CheckLoaded(y) \/ Loaded(y) \/ Admit(y)
      PROVE  FALSE
  <2>1. PICK step \in {"check", "load", "fetch", "encode"} :
          job' = [job EXCEPT ![y] = [job[y] EXCEPT !.step = step]]
    BY <1>5 DEF CheckLoaded, Loaded, Admit, Begun
  <2>2. PICK w : w = [job[y] EXCEPT !.step = step]
    OBVIOUS
  <2>3. w \in Job /\ w.step = step
    BY <2>2, JobFacts DEF Job
  <2> QED
    BY <1>2, <2>1, <2>2, <2>3
<1>6. ASSUME NEW y \in Jobs, FailBatch(y) \/ Discard(y) \/ EndTest(y)
      PROVE  FALSE
  BY <1>2, <1>6, IdleJobFits DEF FailBatch, Discard, EndTest
<1>7. ASSUME EndBatch \/ Restart
      PROVE  FALSE
  BY <1>1, <1>7, IdleJobFits DEF EndBatch, Restart
<1>8. ASSUME NEW y \in Jobs, NEW fails \in BOOLEAN, EncodeImage(y, fails)
      PROVE  FALSE
  <2>1. job[y] \in Job /\ JobFits(job[y]) /\ job[y].step = "encode"
    BY <1>8, JobFacts DEF EncodeImage, Step
  <2>2. job[y].template # None => job[y].prov > 0 \/ job[y].template.type = job[y].asked
    BY <2>1 DEF JobFits, Job
  <2>3. CASE fails
    <3>1. PICK w : w = [job[y] EXCEPT !.step = "raised"]
      OBVIOUS
    <3>2. w \in Job /\ w.step = "raised" /\ job' = [job EXCEPT ![y] = w]
      BY <1>8, <2>1, <2>3, <3>1 DEF EncodeImage, Job
    <3> QED
      BY <1>2, <3>2
  <2>4. CASE ~ fails
    <3>1. job' = [job EXCEPT ![y] = NextProvider(job[y])]
      BY <1>8, <2>4 DEF EncodeImage
    <3> QED
      BY <1>2, <2>1, <2>2, <3>1, NextProviderFacts
  <2> QED
    BY <2>3, <2>4
<1>9. ASSUME NEW y \in Jobs, NEW how \in {"busy", "refused"}, CallFails(y, how)
      PROVE  FALSE
  <2>1. PICK w \in Job : job' = [job EXCEPT ![y] = w] /\ w.answer = None
    <3>1. job[y] \in Job /\ JobFits(job[y]) /\ job[y].step = "call"
      BY <1>9, JobFacts DEF CallFails, Step
    <3>2. CASE how = "busy" /\ job[y].attempt < Attempts
      <4>1. PICK w : w = [job[y] EXCEPT !.attempt = job[y].attempt + 1]
        OBVIOUS
      <4>2. job[y].attempt + 1 \in 0 .. Attempts
        BY <3>1, <3>2, ExtractionAssumption DEF Job
      <4>3. w \in Job /\ w.answer = None
        BY <3>1, <4>1, <4>2 DEF Job, JobFits
      <4> QED
        BY <1>9, <3>2, <4>1, <4>3 DEF CallFails, Retried
    <3>3. CASE ~ (how = "busy" /\ job[y].attempt < Attempts)
      <4>1. job' = [job EXCEPT ![y] = NextProvider(job[y])]
        BY <1>9, <3>3 DEF CallFails, Retried
      <4>2. job[y].template # None => job[y].prov > 0 \/ job[y].template.type = job[y].asked
        BY <3>1 DEF JobFits
      <4> QED
        BY <3>1, <4>1, <4>2, NextProviderFacts
    <3> QED
      BY <3>2, <3>3
  <2> QED
    BY <1>2, <2>1
<1>10. ASSUME NEW y \in Jobs, NEW answer \in Answers, CallAnswers(y, answer)
       PROVE  FALSE
  BY <1>2, <1>10, AnswerStep
<1>11. ASSUME NEW y \in Jobs, FetchTemplate(y)
       PROVE  x = y
  BY <1>2, <1>11, FetchFacts
<1>12. ASSUME NEW y \in Jobs, JobStep(y)
       PROVE  x = y /\ FetchTemplate(y)
  BY <1>1, <1>5, <1>8, <1>9, <1>10, <1>11, <1>12 DEF JobStep, LoadFile
<1>13. ASSUME NEW y \in Jobs, LoopStep(y)
       PROVE  FALSE
  BY <1>5, <1>6, <1>7, <1>13 DEF LoopStep
<1> QED
  BY <1>1, <1>3, <1>4, <1>6, <1>7, <1>12, <1>13 DEF Next

(***************************************************************************)
(* A reading whose type has a template is passed on unchecked only while a *)
(* reload or a removal hides the template, or before the reload that an    *)
(* edit of its file, or a failed operation on it, calls for                *)
(* (llm_extractor.py:290-300, template_registry.py:93-97).                 *)
(***************************************************************************)
THEOREM TemplatesAreApplied == Spec => UncheckedOnlyIfUnknown
<1> DEFINE Explained(x) ==
        LET j == job'[x] IN
        ~ Ended(x) /\ j.step = "done" /\ j.answer # None /\ j.template = None =>
            \A t \in Types \ apart : j.answer.type = t => ~ Whole(t) \/ Removing(t)
<1>1. IInv /\ [Next]_vars => [\A x \in Jobs : Explained(x)]_vars
  <2> SUFFICES ASSUME IInv, Next, NEW x \in Jobs, ~ Ended(x), job'[x].step = "done",
                      job'[x].answer # None, job'[x].template = None,
                      NEW t \in Types \ apart, job'[x].answer.type = t, Whole(t)
               PROVE  Removing(t)
    OBVIOUS
  <2>1. FetchTemplate(x)
    BY UncheckedStep
  <2>2. PICK w \in Job :
          /\ job' = [job EXCEPT ![x] = w]
          /\ w.step = "done" /\ w.answer # None /\ w.template = None =>
                 Cached(w.answer.type) = None
    BY <2>1, FetchFacts
  <2>3. job'[x] = w
    BY <2>2, JobMoves DEF IInv
  <2>4. cache[t] = None
    BY <2>2, <2>3 DEF Cached
  <2>5. loaded \/ handler.op = "reload"
    BY <2>1 DEF FetchTemplate, IInv, RegistryFits, LookupsFollowLoads
  <2> QED
    BY <2>4, <2>5 DEF IInv, RegistryFits, TemplatesStayFound, Removing
<1> QED
  BY <1>1, Invariance, PTL DEF Spec, UncheckedOnlyIfUnknown
=============================================================================
