--------------------------- MODULE ApplicationProofs ---------------------------
(***************************************************************************)
(* The application for any number of requests, research threads, restarts  *)
(* and versions of the tools, and any even recursion limit.  None of its   *)
(* properties is inductive: each rests on where the other requests can be  *)
(* (nobody is served before the Postgres saver is in place, nobody is past *)
(* get_tools while the lock is held), and TranscriptsCanGoOn on the parity *)
(* of the steps.                                                           *)
(***************************************************************************)
EXTENDS Application, TLAPS

Resting == {"idle"} \union Ended

\* What is true of a request wherever it is.
RequestIsSound(r) ==
    /\ req[r].stage \notin Resting => life = "serving"
    /\ req[r].stage = "answered" /\ ~req[r].research => r \in durable
    /\ req[r].stage \in {"build", "load"} \union Looping => req[r].research
    /\ req[r].research => req[r].thread \in Threads
    /\ req[r].stage = "fetch" => lock = r
    /\ req[r].stage \in {"invoke"} \union Looping => req[r].bound = cache /\ cache # None
    /\ req[r].stage \in {"idle", "build", "load", "bind", "fetch"} => req[r].steps = 0
    /\ req[r].stage = "agent" => req[r].steps % 2 = 0
    /\ req[r].stage = "tools" => req[r].steps % 2 = 1
    /\ req[r].stage \in Looping /\ ~req[r].sound => req[r].thread \in shared

\* Open tool calls belong to a request that is about to answer them.
TranscriptIsSound(t) ==
    /\ thread[t] = "open" => \E q \in Requests : req[q].thread = t /\ req[q].stage = "tools"
    /\ thread[t] = "broken" => t \in shared

GlobalsAreSound == /\ life = "serving" => main.saver = "postgres"
                   /\ lock # None => cache = None

Inv == /\ TypeOK /\ GlobalsAreSound
       /\ \A r \in Requests : RequestIsSound(r)
       /\ \A t \in Threads : TranscriptIsSound(t)

\* What a step makes of the request r: every field, all others being as they were.
Becomes(r, stage, kind, tid, bound, sound, steps) ==
    /\ req' \in [Requests -> RequestState]
    /\ \A q \in Requests \ {r} : req'[q] = req[q]
    /\ req'[r].stage = stage /\ req'[r].research = kind /\ req'[r].thread = tid
    /\ req'[r].bound = bound /\ req'[r].sound = sound /\ req'[r].steps = steps

\* Replacing one record by another.
LEMMA Replaced ==
    ASSUME TypeOK, NEW r \in Requests, NEW rec \in RequestState, req' = [req EXCEPT ![r] = rec]
    PROVE  Becomes(r, rec.stage, rec.research, rec.thread, rec.bound, rec.sound, rec.steps)
  BY DEF TypeOK, Becomes

\* A step to another stage.
LEMMA GoToBecomes ==
    ASSUME TypeOK, NEW r \in Requests, NEW s \in Stages, GoTo(r, s)
    PROVE  Becomes(r, s, req[r].research, req[r].thread, req[r].bound, req[r].sound, req[r].steps)
  <1> DEFINE rec == [req[r] EXCEPT !.stage = s]
  <1>1. req[r] \in RequestState  BY DEF TypeOK
  <1>2. /\ rec \in RequestState /\ rec.stage = s /\ rec.research = req[r].research
        /\ rec.thread = req[r].thread /\ rec.bound = req[r].bound
        /\ rec.sound = req[r].sound /\ rec.steps = req[r].steps
    BY <1>1 DEF RequestState
  <1>3. req' = [req EXCEPT ![r] = rec]  BY DEF GoTo
  <1> HIDE DEF rec
  <1> QED  BY <1>2, <1>3, Replaced

\* The tools are bound and the graph starts.
LEMMA BindBecomes ==
    ASSUME TypeOK, NEW r \in Requests, NEW list \in Lists, Bind(r, list)
    PROVE  Becomes(r, IF req[r].research THEN "agent" ELSE "invoke", req[r].research,
                   req[r].thread, list,
                   req[r].research => thread[req[r].thread] \in {"absent", "closed"}, req[r].steps)
  <1> DEFINE s == IF req[r].research THEN "agent" ELSE "invoke"
             ok == req[r].research => thread[req[r].thread] \in {"absent", "closed"}
             rec == [req[r] EXCEPT !.bound = list, !.stage = s, !.sound = ok]
  <1>1. req[r] \in RequestState  BY DEF TypeOK
  <1>2. req' = [req EXCEPT ![r] = rec]  BY DEF Bind
  <1>3. s \in Stages /\ ok \in BOOLEAN  BY DEF Stages, Looping
  <1> HIDE DEF s, ok
  <1>4. /\ rec \in RequestState /\ rec.stage = s /\ rec.research = req[r].research
        /\ rec.thread = req[r].thread /\ rec.bound = list
        /\ rec.sound = ok /\ rec.steps = req[r].steps
    BY <1>1, <1>3 DEF RequestState
  <1> HIDE DEF rec
  <1>5. Becomes(r, s, req[r].research, req[r].thread, list, ok, req[r].steps)
    BY <1>2, <1>4, Replaced
  <1> QED  BY <1>5 DEF s, ok

\* One super-step of the research graph.
LEMMA SuperStepBecomes ==
    ASSUME TypeOK, NEW r \in Requests, NEW node, NEW next \in Stages, NEW end,
           SuperStep(r, node, next, end)
    PROVE  Becomes(r, next, req[r].research, req[r].thread, req[r].bound, req[r].sound,
                   req[r].steps + 1)
  <1> DEFINE rec == [req[r] EXCEPT !.stage = next, !.steps = @ + 1]
  <1>1. req[r] \in RequestState  BY DEF TypeOK
  <1>2. req' = [req EXCEPT ![r] = rec]  BY DEF SuperStep
  <1>3. RESEARCH_RECURSION_LIMIT \in Nat  BY ApplicationAssumption
  <1>4. req[r].steps \in 0..RESEARCH_RECURSION_LIMIT /\ req[r].steps # RESEARCH_RECURSION_LIMIT
    BY <1>1 DEF SuperStep, Spent, RequestState
  <1>5. req[r].steps + 1 \in 0..RESEARCH_RECURSION_LIMIT  BY <1>3, <1>4
  <1>6. /\ rec \in RequestState /\ rec.stage = next /\ rec.research = req[r].research
        /\ rec.thread = req[r].thread /\ rec.bound = req[r].bound
        /\ rec.sound = req[r].sound /\ rec.steps = req[r].steps + 1
    BY <1>1, <1>5 DEF RequestState
  <1> HIDE DEF rec
  <1> QED  BY <1>2, <1>6, Replaced

-----------------------------------------------------------------------------
(* What a step of one request leaves to the others.                        *)

\* The step keeps what the others rest on: the lock and the list in the cache are
\* taken, given back or filled only by who may.
LEMMA OthersGoOn ==
    ASSUME Inv, NEW r \in Requests, life' = life,
           \A q \in Requests \ {r} : req'[q] = req[q],
           cache' = cache \/ cache = None, lock' = lock \/ lock \in {None, r},
           shared \subseteq shared', durable \subseteq durable'
    PROVE  \A q \in Requests \ {r} : RequestIsSound(q)'
  <1> SUFFICES ASSUME NEW q \in Requests \ {r}  PROVE RequestIsSound(q)'
    OBVIOUS
  <1>1. RequestIsSound(q) /\ req'[q] = req[q]  BY DEF Inv
  <1>2. lock = q => lock' = lock  BY NoneIsNoVersion
  <1> QED  BY <1>1, <1>2 DEF RequestIsSound

\* A step that touches no transcript, of a request that owes none an answer.
LEMMA TranscriptsStay ==
    ASSUME Inv, NEW r \in Requests, thread' = thread, shared \subseteq shared',
           \A q \in Requests \ {r} : req'[q] = req[q], req[r].stage # "tools"
    PROVE  \A t \in Threads : TranscriptIsSound(t)'
  BY DEF Inv, TranscriptIsSound

\* A step of one request that leaves the transcripts alone.
LEMMA StepOfOne ==
    ASSUME Inv, NEW r \in Requests, req' \in [Requests -> RequestState],
           \A q \in Requests \ {r} : req'[q] = req[q], req[r].stage # "tools",
           UNCHANGED <<life, main, thread, world>>,
           cache' \in Lists, cache' = cache \/ cache = None,
           lock' \in {lock, r, None}, lock' = lock \/ lock \in {None, r}, lock' # None => cache' = None,
           research' \in [tools : Lists, app : BOOLEAN],
           shared \subseteq shared', shared' \subseteq Threads,
           durable \subseteq durable', durable' \subseteq Requests,
           RequestIsSound(r)'
    PROVE  Inv'
  <1>1. TypeOK'  BY DEF Inv, TypeOK
  <1>2. GlobalsAreSound'  BY DEF Inv, GlobalsAreSound
  <1>3. \A q \in Requests \ {r} : RequestIsSound(q)'  BY OthersGoOn
  <1>4. \A t \in Threads : TranscriptIsSound(t)'  BY TranscriptsStay
  <1> QED  BY <1>1, <1>2, <1>3, <1>4 DEF Inv

\* The facts about one request and the globals that the steps below use.
LEMMA Facts ==
    ASSUME Inv, NEW r \in Requests
    PROVE  /\ TypeOK /\ RequestIsSound(r) /\ req[r] \in RequestState
           /\ cache \in Lists /\ research \in [tools : Lists, app : BOOLEAN]
           /\ (lock # None => cache = None)
           /\ shared \subseteq Threads /\ durable \subseteq Requests
           /\ (life = "serving" => main.saver = "postgres")
  BY DEF Inv, TypeOK, GlobalsAreSound

-----------------------------------------------------------------------------
(* The requests.                                                           *)

LEMMA ArriveKeepsInv ==
    ASSUME Inv, NEW r \in Requests, run_agent(r) \/ \E t \in Threads : run_research(r, t)
    PROVE  Inv'
  <1> DEFINE one == [Idle EXCEPT !.stage = "bind"]
  <1>1. TypeOK /\ 0 \in 0..RESEARCH_RECURSION_LIMIT  BY Facts, ApplicationAssumption
  <1>2. ASSUME NEW rec \in RequestState, Arrive(r, rec), rec.stage \in {"bind", "build"},
               rec.research => rec.thread \in Threads, rec.steps = 0,
               rec.stage = "build" => rec.research
        PROVE  Inv'
    <2>1. req' = [req EXCEPT ![r] = rec] /\ life = "serving" /\ req[r].stage = "idle"
      BY <1>2 DEF Arrive
    <2>2. Becomes(r, rec.stage, rec.research, rec.thread, rec.bound, rec.sound, rec.steps)
      BY <1>1, <2>1, Replaced
    <2>3. UNCHANGED <<life, main, research, cache, lock, thread, shared, durable, world>>
      BY <1>2 DEF Arrive, lists
    <2>4. RequestIsSound(r)'
      BY <1>2, <2>1, <2>2, <2>3 DEF RequestIsSound, Becomes, Looping, Resting, Ended
    <2> QED  BY <2>1, <2>2, <2>3, <2>4, StepOfOne, Facts DEF Becomes
  <1>3. /\ one \in RequestState /\ one.stage = "bind" /\ one.research = FALSE /\ one.steps = 0
    BY <1>1 DEF Idle, RequestState, Stages, Lists
  <1>4. CASE run_agent(r)
    <2>1. Arrive(r, one)  BY <1>4 DEF run_agent
    <2> HIDE DEF one
    <2> QED  BY <1>2, <1>3, <2>1
  <1>5. ASSUME NEW t \in Threads, run_research(r, t)  PROVE Inv'
    <2> DEFINE rec == [Idle EXCEPT !.stage = "build", !.research = TRUE, !.thread = t]
    <2>1. Arrive(r, rec)  BY <1>5 DEF run_research
    <2>2. /\ rec \in RequestState /\ rec.stage = "build" /\ rec.research = TRUE
          /\ rec.steps = 0 /\ rec.thread = t
      BY <1>1 DEF Idle, RequestState, Stages, Lists
    <2> HIDE DEF rec
    <2> QED  BY <1>2, <2>1, <2>2
  <1> QED  BY <1>4, <1>5

LEMMA BuildKeepsInv ==
    ASSUME Inv, NEW r \in Requests, build_research_workflow(r) \/ CompileResearch(r)
    PROVE  Inv'
  <1>1. TypeOK /\ RequestIsSound(r)  BY Facts
  <1>2. /\ req[r].stage \in {"build", "load"}
        /\ UNCHANGED <<life, main, cache, lock, thread, shared, durable, world>>
    BY DEF build_research_workflow, CompileResearch, AddTools, lists
  <1>3. PICK s \in {"bind", "load"} : GoTo(r, s)
    BY DEF build_research_workflow, CompileResearch
  <1>4. Becomes(r, s, req[r].research, req[r].thread, req[r].bound, req[r].sound, req[r].steps)
    BY <1>1, <1>3, GoToBecomes DEF Stages
  <1>5. RequestIsSound(r)'
    BY <1>1, <1>2, <1>4 DEF RequestIsSound, Becomes, Looping, Resting, Ended
  <1>6. research' \in [tools : Lists, app : BOOLEAN]
    <2>1. CASE build_research_workflow(r)
      BY <2>1, Facts DEF build_research_workflow, lists
    <2>2. CASE CompileResearch(r)
      <3>1. world.tools \in Lists  BY <1>1 DEF TypeOK, Lists
      <3>2. research' = [tools |-> world.tools, app |-> TRUE]
        BY <2>2 DEF CompileResearch, AddTools
      <3> QED  BY <3>1, <3>2
    <2> QED  BY <2>1, <2>2
  <1> QED  BY <1>2, <1>4, <1>5, <1>6, StepOfOne, Facts DEF Becomes

\* A failure, an answer of the main graph, or the recursion limit: the request is over.
LEMMA EndKeepsInv ==
    ASSUME Inv, NEW r \in Requests, NEW s \in {"failed", "recursion"}, GoTo(r, s),
           req[r].stage \notin Resting \union {"tools"},
           UNCHANGED <<life, main, research, cache, thread, shared, durable, world>>,
           lock' = lock \/ (lock' = None /\ lock = r)
    PROVE  Inv'
  <1>1. TypeOK /\ RequestIsSound(r)  BY Facts
  <1>2. Becomes(r, s, req[r].research, req[r].thread, req[r].bound, req[r].sound, req[r].steps)
    BY <1>1, GoToBecomes DEF Stages, Ended
  <1>3. RequestIsSound(r)'
    BY <1>1, <1>2 DEF RequestIsSound, Becomes, Looping, Resting, Ended
  <1> QED  BY <1>2, <1>3, StepOfOne, Facts DEF Becomes

LEMMA FailKeepsInv ==
    ASSUME Inv, NEW r \in Requests, Raises(r) \/ LoadFails(r)
    PROVE  Inv'
  <1>1. RequestIsSound(r)  BY Facts
  <1>2. /\ GoTo(r, "failed") /\ req[r].stage \in {"load", "agent", "report", "invoke", "fetch"}
        /\ UNCHANGED <<life, main, research, cache, thread, shared, durable, world>>
    BY DEF Raises, LoadFails, Fail
  <1>3. lock' = lock \/ (lock' = None /\ lock = r)
    <2>1. CASE Raises(r)  BY <2>1 DEF Raises
    <2>2. CASE LoadFails(r)
      BY <1>1, <2>2 DEF LoadFails, Fail, LockAfterFailure, RequestIsSound
    <2> QED  BY <2>1, <2>2
  <1>4. req[r].stage \notin Resting \union {"tools"}  BY <1>2 DEF Resting, Ended
  <1> QED  BY <1>2, <1>3, <1>4, EndKeepsInv

\* The limit is even and is never met between tool calls and their answers.
LEMMA OutOfStepsKeepsInv ==
    ASSUME Inv, NEW r \in Requests, OutOfSteps(r)
    PROVE  Inv'
  <1>1. RequestIsSound(r)  BY Facts
  <1>2. /\ GoTo(r, "recursion") /\ req[r].stage \in Looping
        /\ req[r].steps = RESEARCH_RECURSION_LIMIT
        /\ UNCHANGED <<life, main, research, cache, lock, thread, shared, durable, world>>
    BY DEF OutOfSteps, Spent, lists
  <1>3. req[r].stage # "tools"
    BY <1>1, <1>2, ApplicationAssumption DEF RequestIsSound
  <1>4. req[r].stage \notin Resting \union {"tools"}
    BY <1>2, <1>3 DEF Resting, Ended, Looping
  <1> QED  BY <1>2, <1>4, EndKeepsInv

\* A main run is answered with its checkpoints in Postgres.
LEMMA InvokeKeepsInv ==
    ASSUME Inv, NEW r \in Requests, ainvoke(r)
    PROVE  Inv'
  <1>1. TypeOK /\ RequestIsSound(r)  BY Facts
  <1>2. /\ req[r].stage = "invoke" /\ GoTo(r, "answered")
        /\ UNCHANGED <<life, main, research, cache, lock, thread, shared, world>>
    BY DEF ainvoke, lists
  <1>3. main.saver = "postgres"
    BY <1>1, <1>2, Facts DEF RequestIsSound, Resting, Ended
  <1>4. durable' = durable \union {r}  BY <1>3 DEF ainvoke
  <1>5. Becomes(r, "answered", req[r].research, req[r].thread, req[r].bound, req[r].sound,
                req[r].steps)
    BY <1>1, <1>2, GoToBecomes DEF Stages, Ended
  <1>6. RequestIsSound(r)'
    BY <1>1, <1>2, <1>4, <1>5 DEF RequestIsSound, Becomes, Looping, Resting, Ended
  <1> QED  BY <1>2, <1>4, <1>5, <1>6, StepOfOne, Facts DEF Becomes

\* A list is bound: the one in the cache, or the one that is put there.
LEMMA BoundKeepsInv ==
    ASSUME Inv, NEW r \in Requests, NEW list \in Versions, Bind(r, list),
           req[r].stage \in {"bind", "fetch"}, cache' = list, cache' = cache \/ cache = None,
           lock' = None, lock \in {None, r}
    PROVE  Inv'
  <1>1. TypeOK /\ RequestIsSound(r)  BY Facts
  <1>2. list \in Lists /\ list # None
    BY NoneIsNoVersion, ApplicationAssumption DEF Lists, Versions
  <1>3. UNCHANGED <<life, main, research, thread, durable, world>>  BY DEF Bind
  <1> DEFINE t == req[r].thread
             s == IF req[r].research THEN "agent" ELSE "invoke"
             ok == req[r].research => thread[t] \in {"absent", "closed"}
  <1>4. Becomes(r, s, req[r].research, t, list, ok, req[r].steps)
    BY <1>1, <1>2, BindBecomes
  <1>5. req[r].research => t \in Threads  BY <1>1 DEF RequestIsSound
  <1>6. shared \subseteq shared' /\ shared' \subseteq Threads
    BY <1>5, Facts DEF Bind
  <1>7. ~ok => t \in shared'
    <2> SUFFICES ASSUME ~ok  PROVE t \in shared'
      OBVIOUS
    <2>1. t \in Threads /\ thread[t] \in {"open", "broken"} /\ req[r].research
      BY <1>1, <1>5 DEF TypeOK
    <2>2. TranscriptIsSound(t)  BY <2>1 DEF Inv
    <2>3. CASE thread[t] = "open"
      <3>1. InLoop(t) # {}  BY <2>2, <2>3 DEF TranscriptIsSound, InLoop, Looping
      <3> QED  BY <2>1, <3>1 DEF Bind
    <2>4. CASE thread[t] = "broken"
      BY <1>6, <2>2, <2>4 DEF TranscriptIsSound
    <2> QED  BY <2>1, <2>3, <2>4
  <1>8. life = "serving" /\ req[r].steps = 0
    BY <1>1 DEF RequestIsSound, Resting, Ended
  <1> HIDE DEF ok
  <1>9. RequestIsSound(r)'
    <2>1. s \in {"agent", "invoke"} /\ (s = "agent" <=> req[r].research)  OBVIOUS
    <2>2. 0 % 2 = 0  OBVIOUS
    <2> HIDE DEF s, t
    <2> QED
      BY <1>2, <1>3, <1>4, <1>5, <1>7, <1>8, <2>1, <2>2
         DEF RequestIsSound, Becomes, Looping, Resting, Ended
  <1> QED  BY <1>2, <1>3, <1>4, <1>6, <1>9, StepOfOne, Facts DEF Becomes

LEMMA GetKeepsInv ==
    ASSUME Inv, NEW r \in Requests, get_tools(r)
    PROVE  Inv'
  <1>1. TypeOK /\ RequestIsSound(r) /\ req[r].stage = "bind" /\ lock = None
    BY Facts DEF get_tools, Locked
  <1>2. CASE cache # None /\ Bind(r, cache) /\ UNCHANGED <<cache, lock>>
    <2>1. cache \in Versions  BY <1>2, Facts DEF Lists
    <2> QED  BY <1>1, <1>2, <2>1, BoundKeepsInv
  <1>3. CASE /\ cache = None /\ lock' = r /\ GoTo(r, "fetch")
             /\ UNCHANGED <<life, main, research, cache, thread, shared, durable, world>>
    <2>1. Becomes(r, "fetch", req[r].research, req[r].thread, req[r].bound, req[r].sound,
                  req[r].steps)
      BY <1>1, <1>3, GoToBecomes DEF Stages
    <2>2. RequestIsSound(r)'
      BY <1>1, <1>3, <2>1 DEF RequestIsSound, Becomes, Looping, Resting, Ended
    <2> QED  BY <1>1, <1>3, <2>1, <2>2, StepOfOne, Facts DEF Becomes
  <1> QED  BY <1>2, <1>3 DEF get_tools

LEMMA LoadKeepsInv ==
    ASSUME Inv, NEW r \in Requests, load_tools(r)
    PROVE  Inv'
  <1>1. TypeOK /\ RequestIsSound(r) /\ req[r].stage = "fetch"  BY Facts DEF load_tools
  <1>2. lock = r /\ r # None  BY <1>1, NoneIsNoVersion DEF RequestIsSound
  <1>3. cache = None  BY <1>2, Facts
  <1>4. world.tools \in Versions  BY <1>1 DEF TypeOK
  <1> QED  BY <1>1, <1>2, <1>3, <1>4, BoundKeepsInv DEF load_tools

\* A super-step writes the transcript it continues.
LEMMA SuperStepKeepsInv ==
    ASSUME Inv, NEW r \in Requests, NEW node \in Looping, NEW next \in Looping \union {"answered", "recursion"},
           NEW end \in {"open", "closed"}, SuperStep(r, node, next, end),
           next = "tools" => node = "agent", next = "agent" => node = "tools",
           end = "open" <=> next = "tools"
    PROVE  Inv'
  <1> DEFINE t == req[r].thread
  <1>1. TypeOK /\ RequestIsSound(r) /\ req[r] \in RequestState  BY Facts
  <1>2. /\ req[r].stage = node
        /\ UNCHANGED <<life, main, research, cache, lock, shared, durable, world>>
    BY DEF SuperStep, lists
  <1>3. Becomes(r, next, req[r].research, t, req[r].bound, req[r].sound, req[r].steps + 1)
    BY <1>1, SuperStepBecomes DEF Stages, Ended
  <1>4. req[r].research /\ t \in Threads /\ life = "serving"
    BY <1>1, <1>2 DEF RequestIsSound, Resting, Ended, Looping
  <1>5. thread' = [thread EXCEPT ![t] = IF req[r].sound THEN end ELSE "broken"]
    BY DEF SuperStep
  <1>6. TypeOK'
    <2>1. thread' \in [Threads -> {"absent", "closed", "open", "broken"}]
      BY <1>1, <1>5 DEF TypeOK
    <2> QED  BY <1>1, <1>2, <1>3, <2>1 DEF TypeOK, Becomes
  <1>7. GlobalsAreSound'  BY <1>2 DEF Inv, GlobalsAreSound
  <1>8. \A q \in Requests \ {r} : RequestIsSound(q)'
    BY <1>2, <1>3, OthersGoOn DEF Becomes
  <1>9. RequestIsSound(r)'
    <2>1. req[r].steps \in Nat
      BY <1>1, ApplicationAssumption DEF RequestState
    <2>2. /\ req[r].steps % 2 = 0 => (req[r].steps + 1) % 2 = 1
          /\ req[r].steps % 2 = 1 => (req[r].steps + 1) % 2 = 0
      BY <2>1
    <2>3. /\ next = "tools" => (req[r].steps + 1) % 2 = 1
          /\ next = "agent" => (req[r].steps + 1) % 2 = 0
      BY <1>1, <1>2, <2>2 DEF RequestIsSound
    <2>4. req[r].bound = cache /\ cache # None /\ (~req[r].sound => t \in shared)
      BY <1>1, <1>2 DEF RequestIsSound
    <2> HIDE DEF t
    <2> QED
      BY <1>2, <1>3, <1>4, <2>3, <2>4 DEF RequestIsSound, Becomes, Looping, Resting, Ended
  <1>10. ASSUME NEW x \in Threads  PROVE TranscriptIsSound(x)'
    <2>1. TranscriptIsSound(x)  BY DEF Inv
    <2>2. CASE x # t
      <3>1. thread'[x] = thread[x]  BY <1>1, <1>5, <2>2 DEF TypeOK
      <3>2. \A q \in Requests : req[q].thread = x => req'[q] = req[q]
        BY <1>3, <2>2 DEF Becomes
      <3> QED  BY <1>2, <2>1, <3>1, <3>2 DEF TranscriptIsSound
    <2>3. CASE x = t
      <3>1. thread'[x] = IF req[r].sound THEN end ELSE "broken"
        BY <1>1, <1>4, <1>5, <2>3 DEF TypeOK
      <3>2. ~req[r].sound => t \in shared'
        BY <1>1, <1>2 DEF RequestIsSound
      <3>3. end = "open" => req'[r].thread = t /\ req'[r].stage = "tools"
        BY <1>3 DEF Becomes
      <3> QED  BY <2>3, <3>1, <3>2, <3>3 DEF TranscriptIsSound
    <2> QED  BY <2>2, <2>3
  <1> QED  BY <1>6, <1>7, <1>8, <1>9, <1>10 DEF Inv

-----------------------------------------------------------------------------
(* The process.                                                            *)

\* A deploy, and the way to serving: nobody is being served yet.
LEMMA LifeKeepsInv ==
    ASSUME Inv, Deploy \/ build_workflow \/ Connect
    PROVE  Inv'
  <1>1. UNCHANGED <<research, cache, lock, thread, shared, durable, req>>
    BY DEF Deploy, build_workflow, Connect, lists
  <1>2. TypeOK /\ GlobalsAreSound  BY DEF Inv
  <1>3. MaxStarts \in Nat /\ MaxVersion \in Nat  BY ApplicationAssumption
  <1>4. /\ world.starts \in 0..MaxStarts /\ world.tools \in 0..MaxVersion
        /\ world \in [starts : 0..MaxStarts, tools : Versions]
        /\ main \in [tools : Lists, saver : {"memory", "postgres", None}]
    BY <1>2 DEF TypeOK, Versions
  <1>5. world' \in [starts : 0..MaxStarts, tools : Versions]
    BY <1>3, <1>4 DEF Deploy, build_workflow, Start, Connect, Versions
  <1>6. main' \in [tools : Lists, saver : {"memory", "postgres", None}]
    BY <1>4 DEF Deploy, build_workflow, Connect, Lists, Versions, lists
  <1>7. TypeOK'
    <2>1. life' \in {"down", "built", "serving"}
      BY <1>2 DEF TypeOK, Deploy, build_workflow, Connect
    <2> QED  BY <1>1, <1>2, <1>5, <1>6, <2>1 DEF TypeOK
  <1>8. GlobalsAreSound'
    <2>1. life' = "serving" => main'.saver = "postgres"
      BY <1>2, <1>4 DEF GlobalsAreSound, Deploy, build_workflow, Connect, lists
    <2> QED  BY <1>1, <1>2, <2>1 DEF GlobalsAreSound
  <1>9. ASSUME NEW r \in Requests  PROVE RequestIsSound(r)'
    <2>1. RequestIsSound(r)  BY DEF Inv
    <2>2. life = "serving" => life' = "serving"
      BY DEF Deploy, build_workflow, Start, Connect
    <2> QED  BY <1>1, <2>1, <2>2 DEF RequestIsSound
  <1>10. \A t \in Threads : TranscriptIsSound(t)'
    BY <1>1 DEF Inv, TranscriptIsSound
  <1> QED  BY <1>7, <1>8, <1>9, <1>10 DEF Inv

\* The process ends: nobody is served, and nothing is left but what Postgres holds.
LEMMA ExitKeepsInv ==
    ASSUME Inv, Exit, world' \in [starts : 0..MaxStarts, tools : Versions]
    PROVE  Inv'
  <1>1. /\ life' = "down" /\ main' = [tools |-> None, saver |-> None]
        /\ research' = [tools |-> None, app |-> FALSE] /\ cache' = None /\ lock' = None
        /\ thread' = [t \in Threads |-> "absent"] /\ shared' = {} /\ durable' = durable
    BY DEF Exit, Fresh
  <1>2. TypeOK  BY DEF Inv
  <1>3. ASSUME NEW r \in Requests
        PROVE  /\ req'[r] \in RequestState /\ req'[r].stage \in Resting
               /\ req'[r] = req[r] \/ req'[r].stage = "lost"
               /\ req'[r].research = req[r].research /\ req'[r].thread = req[r].thread
    <2> DEFINE rec == [req[r] EXCEPT !.stage = "lost"]
    <2>1. req[r] \in RequestState  BY <1>2 DEF TypeOK
    <2>2. /\ rec \in RequestState /\ rec.stage = "lost"
          /\ rec.research = req[r].research /\ rec.thread = req[r].thread
      BY <2>1 DEF RequestState, Stages, Ended
    <2>3. req'[r] = IF req[r].stage \in Resting THEN req[r] ELSE rec
      BY DEF Exit, Resting
    <2> HIDE DEF rec
    <2> QED  BY <2>1, <2>2, <2>3 DEF Resting, Ended
  <1>4. TypeOK'
    <2>1. req' \in [Requests -> RequestState]
      <3>1. req' = [r \in Requests |-> req'[r]]  BY DEF Exit
      <3> QED  BY <1>3, <3>1
    <2>2. /\ main' \in [tools : Lists, saver : {"memory", "postgres", None}]
          /\ research' \in [tools : Lists, app : BOOLEAN] /\ cache' \in Lists
      BY <1>1 DEF Lists
    <2> QED  BY <1>1, <1>2, <2>1, <2>2 DEF TypeOK
  <1>5. GlobalsAreSound'  BY <1>1 DEF GlobalsAreSound
  <1>6. ASSUME NEW r \in Requests  PROVE RequestIsSound(r)'
    <2>1. RequestIsSound(r)  BY DEF Inv
    <2> QED  BY <1>1, <1>3, <2>1 DEF RequestIsSound, Resting, Ended, Looping
  <1>7. \A t \in Threads : TranscriptIsSound(t)'
    BY <1>1 DEF TranscriptIsSound
  <1> QED  BY <1>4, <1>5, <1>6, <1>7 DEF Inv

\* Every step keeps the invariant.
LEMMA InvStep ==
    ASSUME Inv, [Next]_vars
    PROVE  Inv'
  <1>1. TypeOK  BY DEF Inv
  <1>2. CASE UNCHANGED vars
    <2>1. TypeOK' /\ GlobalsAreSound'
      BY <1>1, <1>2 DEF vars, lists, TypeOK, Inv, GlobalsAreSound
    <2>2. \A r \in Requests : RequestIsSound(r)'
      BY <1>2 DEF vars, lists, Inv, RequestIsSound
    <2>3. \A t \in Threads : TranscriptIsSound(t)'
      BY <1>2 DEF vars, lists, Inv, TranscriptIsSound
    <2> QED  BY <2>1, <2>2, <2>3 DEF Inv
  <1>3. CASE BuildFails \/ ConnectFails \/ Shutdown
    <2>1. world \in [starts : 0..MaxStarts, tools : Versions] /\ MaxStarts \in Nat
      BY <1>1, ApplicationAssumption DEF TypeOK
    <2>2. world' \in [starts : 0..MaxStarts, tools : Versions]
      BY <1>3, <2>1 DEF BuildFails, ConnectFails, Shutdown, Start
    <2> QED  BY <1>3, <2>2, ExitKeepsInv DEF BuildFails, ConnectFails, Shutdown
  <1>4. ASSUME NEW r \in Requests, researcher(r) \/ ToolNode(r) \/ generate_research_report(r)
        PROVE  Inv'
    <2>1. CASE SuperStep(r, "agent", "tools", "open")
      BY <2>1, SuperStepKeepsInv DEF Looping
    <2>2. CASE SuperStep(r, "agent", "report", "closed")
      BY <2>2, SuperStepKeepsInv DEF Looping
    <2>3. CASE SuperStep(r, "tools", "agent", "closed")
      BY <2>3, SuperStepKeepsInv DEF Looping
    <2>4. ASSUME NEW next \in {"answered", "recursion"}, SuperStep(r, "report", next, "closed")
          PROVE  Inv'
      BY <2>4, SuperStepKeepsInv DEF Looping
    <2>5. AfterReport(r) \in {"answered", "recursion"}  BY DEF AfterReport
    <2> QED  BY <1>4, <2>1, <2>2, <2>3, <2>4, <2>5 DEF researcher, ToolNode, generate_research_report
  <1>5. ASSUME NEW r \in Requests, Step(r)  PROVE Inv'
    BY <1>4, <1>5, BuildKeepsInv, FailKeepsInv, GetKeepsInv, LoadKeepsInv, InvokeKeepsInv,
       OutOfStepsKeepsInv DEF Step
  <1>6. CASE Deploy \/ build_workflow \/ Connect  BY <1>6, LifeKeepsInv
  <1>7. ASSUME NEW r \in Requests, run_agent(r) \/ \E t \in Threads : run_research(r, t)
        PROVE  Inv'
    BY <1>7, ArriveKeepsInv
  <1> QED  BY <1>2, <1>3, <1>5, <1>6, <1>7 DEF Next

\* The invariant holds initially.
LEMMA InvInit ==
    ASSUME Init  PROVE Inv
  <1>1. /\ main = [tools |-> None, saver |-> None] /\ research = [tools |-> None, app |-> FALSE]
        /\ thread = [t \in Threads |-> "absent"]
    BY DEF Init, Fresh
  <1>2. MaxStarts \in Nat /\ MaxVersion \in Nat /\ 0 \in 0..RESEARCH_RECURSION_LIMIT
    BY ApplicationAssumption
  <1>3. /\ Idle \in RequestState /\ Idle.stage = "idle" /\ Idle.research = FALSE /\ Idle.steps = 0
    BY <1>2 DEF Idle, RequestState, Stages, Lists
  <1>4. \A r \in Requests : req[r] = Idle  BY DEF Init
  <1>5. TypeOK
    <2>1. req \in [Requests -> RequestState]  BY <1>3 DEF Init
    <2>2. world \in [starts : 0..MaxStarts, tools : Versions]
      BY <1>2 DEF Init, Versions
    <2>3. /\ main \in [tools : Lists, saver : {"memory", "postgres", None}]
          /\ research \in [tools : Lists, app : BOOLEAN]
      BY <1>1 DEF Lists
    <2> QED  BY <1>1, <2>1, <2>2, <2>3 DEF Init, TypeOK, Lists
  <1>6. GlobalsAreSound  BY <1>1 DEF Init, GlobalsAreSound
  <1>7. \A r \in Requests : RequestIsSound(r)
    BY <1>3, <1>4 DEF RequestIsSound, Resting, Ended, Looping
  <1>8. \A t \in Threads : TranscriptIsSound(t)
    BY <1>1 DEF TranscriptIsSound
  <1> QED  BY <1>5, <1>6, <1>7, <1>8 DEF Inv

-----------------------------------------------------------------------------
\* Globals, threads and requests stay well typed; above all, no step goes past the limit.
THEOREM ApplicationTypeCorrect == Spec => []TypeOK
  <1>1. Inv => TypeOK  BY DEF Inv
  <1> QED  BY InvInit, InvStep, <1>1, PTL DEF Spec

\* No main run is answered from the volatile saver the graph is first compiled with.
THEOREM AnswersAreDurable == Spec => []AnsweredRunsAreDurable
  <1>1. Inv => AnsweredRunsAreDurable  BY DEF Inv, RequestIsSound, AnsweredRunsAreDurable
  <1> QED  BY InvInit, InvStep, <1>1, PTL DEF Spec

\* Every request that got past get_tools is bound to the list in the cache.
THEOREM OneList == Spec => []OneToolList
  <1>1. Inv => OneToolList  BY DEF Inv, RequestIsSound, OneToolList
  <1> QED  BY InvInit, InvStep, <1>1, PTL DEF Spec

\* A transcript ends in unanswered tool calls only while somebody is about to answer
\* them, and is broken only where two requests shared a thread, for every even limit.
THEOREM TranscriptsGoOn == Spec => []TranscriptsCanGoOn
  <1>1. Inv => TranscriptsCanGoOn
    BY DEF Inv, TranscriptIsSound, TranscriptsCanGoOn, InLoop, Looping
  <1> QED  BY InvInit, InvStep, <1>1, PTL DEF Spec
================================================================================
