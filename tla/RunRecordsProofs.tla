--------------------------- MODULE RunRecordsProofs ---------------------------
(***************************************************************************)
(* /run and its database for any number of requests and any pool: rows     *)
(* tell how their runs ended, connections come back, and the sandbox's     *)
(* audit implements AuditTrail.                                            *)
(***************************************************************************)
EXTENDS RunRecords, TLAPS

Results == {"success", "error", None}

\* What the stage of a request says about its row, its container and its event.
\* While the graph runs nothing is committed and the status is as it was added;
\* at the commit the status agrees with the ending; the sandbox is called once.
RequestIsSound(r) ==
    /\ req[r].stage \in InGraph \union {"idle"} => req[r].status = "running"
    /\ req[r].stage # "closed" => row[r] = None
    /\ req[r].stage = "idle" => req[r].heard = None
    /\ req[r].stage = "answered" =>
          /\ req[r].status = "completed" <=> req[r].ended = "finished"
          /\ req[r].status = "failed" => req[r].stream /\ req[r].ended = "recursion"
          /\ req[r].status = "running" => req[r].stream /\ req[r].ended = "left"
    /\ row[r] # None =>
          /\ row[r] = "completed" <=> req[r].ended = "finished"
          /\ row[r] = "failed" => req[r].stream /\ req[r].ended = "recursion"
          /\ row[r] = "running" => req[r].stream /\ req[r].ended = "left"

SandboxIsSound(r) ==
    /\ req[r].heard # None => box[r].result # None
    /\ event[r] # None => box[r].result # None
    /\ box[r].stage = "exited" => box[r].result # None
    /\ req[r].stage \in {"sandbox", "audit", "auditing"} =>
          req[r].heard = None /\ event[r] = None
    /\ req[r].stage \in {"audit", "auditing"} => box[r].result # None

Inv == /\ TypeOK
       /\ \A r \in Requests : RequestIsSound(r) /\ SandboxIsSound(r)
       /\ ConnectionsComeBack

Trailed == Trail!Next \/ UNCHANGED <<Executed, Recorded, ShownOutput>>

-----------------------------------------------------------------------------
(* What a step makes of a request.                                         *)

Becomes(r, stage, stream, status, ended, heard) ==
    /\ req' \in [Requests -> RequestState]
    /\ \A q \in Requests \ {r} : req'[q] = req[q]
    /\ req'[r].stage = stage /\ req'[r].stream = stream /\ req'[r].status = status
    /\ req'[r].ended = ended /\ req'[r].heard = heard

LEMMA Replaced ==
    ASSUME TypeOK, NEW r \in Requests, NEW rec \in RequestState, req' = [req EXCEPT ![r] = rec]
    PROVE  Becomes(r, rec.stage, rec.stream, rec.status, rec.ended, rec.heard)
  BY DEF TypeOK, Becomes

LEMMA GoToBecomes ==
    ASSUME TypeOK, NEW r \in Requests, NEW s \in Stages, GoTo(r, s)
    PROVE  Becomes(r, s, req[r].stream, req[r].status, req[r].ended, req[r].heard)
  <1> DEFINE rec == [req[r] EXCEPT !.stage = s]
  <1>1. req[r] \in RequestState  BY DEF TypeOK
  <1>2. /\ rec \in RequestState /\ rec.stage = s /\ rec.stream = req[r].stream
        /\ rec.status = req[r].status /\ rec.ended = req[r].ended /\ rec.heard = req[r].heard
    BY <1>1 DEF RequestState
  <1>3. req' = [req EXCEPT ![r] = rec]  BY DEF GoTo
  <1> HIDE DEF rec
  <1> QED  BY <1>2, <1>3, Replaced

LEMMA BeginBecomes ==
    ASSUME TypeOK, NEW r \in Requests, NEW stream \in BOOLEAN, NEW admin \in BOOLEAN,
           Begin(r, stream, admin)
    PROVE  Becomes(r, "begin", stream, "running", None, None)
  <1> DEFINE rec == [Idle EXCEPT !.stage = "begin", !.stream = stream, !.admin = admin]
  <1>1. /\ rec \in RequestState /\ rec.stage = "begin" /\ rec.stream = stream
        /\ rec.status = "running" /\ rec.ended = None /\ rec.heard = None
    BY DEF Idle, RequestState, Stages
  <1>2. req' = [req EXCEPT ![r] = rec]  BY DEF Begin
  <1> HIDE DEF rec
  <1> QED  BY <1>1, <1>2, Replaced

LEMMA EndRunBecomes ==
    ASSUME TypeOK, NEW r \in Requests, NEW ended \in {"finished", "recursion", "error", "left"},
           NEW status \in {"running", "completed", "failed"},
           NEW stage \in {"answered", "raised"}, EndRun(r, ended, status, stage)
    PROVE  Becomes(r, stage, req[r].stream, status, ended, req[r].heard)
  <1> DEFINE rec == [req[r] EXCEPT !.ended = ended, !.status = status, !.stage = stage]
  <1>1. req[r] \in RequestState  BY DEF TypeOK
  <1>2. /\ rec \in RequestState /\ rec.stage = stage /\ rec.stream = req[r].stream
        /\ rec.status = status /\ rec.ended = ended /\ rec.heard = req[r].heard
    BY <1>1 DEF RequestState, Stages
  <1>3. req' = [req EXCEPT ![r] = rec]  BY DEF EndRun
  <1> HIDE DEF rec
  <1> QED  BY <1>2, <1>3, Replaced

LEMMA HearBecomes ==
    ASSUME TypeOK, NEW r \in Requests, NEW result \in Results, Hear(r, result)
    PROVE  Becomes(r, "worker", req[r].stream, req[r].status, req[r].ended, result)
  <1> DEFINE rec == [req[r] EXCEPT !.heard = result, !.stage = "worker"]
  <1>1. req[r] \in RequestState  BY DEF TypeOK
  <1>2. /\ rec \in RequestState /\ rec.stage = "worker" /\ rec.stream = req[r].stream
        /\ rec.status = req[r].status /\ rec.ended = req[r].ended /\ rec.heard = result
    BY <1>1 DEF RequestState, Stages, Results
  <1>3. req' = [req EXCEPT ![r] = rec]  BY DEF Hear
  <1> HIDE DEF rec
  <1> QED  BY <1>2, <1>3, Replaced

LEMMA CancelBecomes ==
    ASSUME TypeOK, NEW r \in Requests, Cancel(r)
    PROVE  Becomes(r, "closed", req[r].stream, req[r].status, "cancelled", req[r].heard)
  <1> DEFINE rec == [req[r] EXCEPT !.ended = "cancelled", !.stage = "closed"]
  <1>1. req[r] \in RequestState  BY DEF TypeOK
  <1>2. /\ rec \in RequestState /\ rec.stage = "closed" /\ rec.stream = req[r].stream
        /\ rec.status = req[r].status /\ rec.ended = "cancelled" /\ rec.heard = req[r].heard
    BY <1>1 DEF RequestState, Stages
  <1>3. req' = [req EXCEPT ![r] = rec]  BY DEF Cancel
  <1> HIDE DEF rec
  <1> QED  BY <1>2, <1>3, Replaced

-----------------------------------------------------------------------------
(* Steps that leave the sandbox alone: the graph run and get_db.           *)

\* The request moves on; what the model has heard stays as it was.
LEMMA PlainStep ==
    ASSUME Inv, NEW r \in Requests, NEW stage \in Stages, NEW stream, NEW status, NEW ended,
           NEW heard, Becomes(r, stage, stream, status, ended, heard),
           UNCHANGED <<box, event>>,
           row' \in [Requests -> {"running", "completed", "failed", None}],
           \A q \in Requests \ {r} : row'[q] = row[q],
           heard = req[r].heard,
           stage # "closed" => row'[r] = None,
           stage # "sandbox",
           stage \in InGraph \union {"idle"} => status = "running",
           stage # "idle",
           stage = "audit" => req[r].stage = "sandbox" /\ box[r].result # None,
           stage = "auditing" => req[r].stage = "audit",
           stage = "answered" =>
              /\ status = "completed" <=> ended = "finished"
              /\ status = "failed" => stream /\ ended = "recursion"
              /\ status = "running" => stream /\ ended = "left",
           row'[r] # None =>
              /\ row'[r] = "completed" <=> ended = "finished"
              /\ row'[r] = "failed" => stream /\ ended = "recursion"
              /\ row'[r] = "running" => stream /\ ended = "left",
           conns' \subseteq Requests \X {"session", "audit"},
           ConnectionsComeBack'
    PROVE  Inv' /\ Trailed
  <1>1. TypeOK'  BY DEF Inv, TypeOK, Becomes
  <1>2. RequestIsSound(r)'  BY DEF RequestIsSound, Becomes
  <1>3. SandboxIsSound(r)'
    BY DEF Inv, SandboxIsSound, Becomes
  <1>4. ASSUME NEW q \in Requests, q # r  PROVE RequestIsSound(q)' /\ SandboxIsSound(q)'
    BY <1>4 DEF Inv, RequestIsSound, SandboxIsSound, Becomes
  <1>5. Inv'  BY <1>1, <1>2, <1>3, <1>4 DEF Inv
  <1>6. \A q \in Requests : req'[q].heard = req[q].heard  BY DEF Becomes
  <1>7. UNCHANGED <<Executed, Recorded, ShownOutput>>
    BY <1>6 DEF Executed, Recorded, ShownOutput
  <1> QED  BY <1>5, <1>7 DEF Trailed

\* The connections of the others are untouched, and r keeps none it should not have.
LEMMA ConnsStep ==
    ASSUME Inv, NEW r \in Requests, NEW stage, NEW stream, NEW status, NEW ended, NEW heard,
           Becomes(r, stage, stream, status, ended, heard),
           conns' \subseteq conns \union {Session(r), AuditSession(r)},
           Session(r) \in conns' \/ AuditSession(r) \in conns' => stage \notin {"idle", "closed"},
           AuditSession(r) \in conns' => stage = "auditing"
    PROVE  /\ conns' \subseteq Requests \X {"session", "audit"}
           /\ ConnectionsComeBack'
  <1>1. conns' \subseteq Requests \X {"session", "audit"}
    BY DEF Inv, TypeOK, Session, AuditSession
  <1>2. ASSUME NEW c \in conns'
        PROVE  /\ req'[c[1]].stage \notin {"idle", "closed"}
               /\ c[2] = "audit" => req'[c[1]].stage = "auditing"
    <2>1. PICK q \in Requests, k \in {"session", "audit"} : c = <<q, k>>  BY <1>1, <1>2
    <2>2. CASE q = r
      BY <1>2, <2>1, <2>2 DEF Becomes, Session, AuditSession
    <2>3. CASE q # r
      <3>1. c \in conns  BY <1>2, <2>1, <2>3 DEF Session, AuditSession
      <3>2. req'[q] = req[q]  BY <2>3 DEF Becomes
      <3> QED  BY <2>1, <3>1, <3>2 DEF Inv, ConnectionsComeBack
    <2> QED  BY <2>2, <2>3
  <1> QED  BY <1>1, <1>2 DEF ConnectionsComeBack

\* A request whose stage is not "auditing" has no second connection.
LEMMA NoAudit ==
    ASSUME Inv, NEW r \in Requests
    PROVE  /\ req[r].stage # "auditing" => AuditSession(r) \notin conns
           /\ req[r].stage \in {"idle", "closed"} => Session(r) \notin conns
  BY DEF Inv, ConnectionsComeBack, AuditSession, Session

LEMMA ArrivalStep ==
    ASSUME Inv, NEW r \in Requests, NEW stream \in BOOLEAN, NEW admin \in BOOLEAN,
           Begin(r, stream, admin)
    PROVE  Inv' /\ Trailed
  <1>1. /\ TypeOK /\ RequestIsSound(r) /\ req[r].stage = "idle"
        /\ UNCHANGED <<conns, row, box, event>>
    BY DEF Inv, Begin
  <1>2. Becomes(r, "begin", stream, "running", None, None)  BY <1>1, BeginBecomes
  <1>3. /\ conns' \subseteq Requests \X {"session", "audit"}
        /\ ConnectionsComeBack'
    BY <1>1, <1>2, NoAudit, ConnsStep
  <1>4. req[r].heard = None /\ row[r] = None  BY <1>1 DEF RequestIsSound
  <1> QED  BY <1>1, <1>2, <1>3, <1>4, PlainStep DEF Stages, TypeOK

\* The steps inside the graph that only change the stage and perhaps take a connection.
LEMMA AdvanceStep ==
    ASSUME Inv, NEW r \in Requests,
           Retrieve(r) \/ Query(r) \/ ThreadReturns(r) \/ AuditConnects(r)
    PROVE  Inv' /\ Trailed
  <1>1. TypeOK /\ RequestIsSound(r) /\ SandboxIsSound(r)  BY DEF Inv
  <1>2. ASSUME NEW s \in {"worker", "query", "audit", "auditing"}, GoTo(r, s),
               req[r].stage \in InGraph,
               UNCHANGED <<row, box, event>>,
               conns' \subseteq conns \union {Session(r), AuditSession(r)},
               AuditSession(r) \in conns' => s = "auditing",
               s = "audit" => req[r].stage = "sandbox" /\ box[r].result # None,
               s = "auditing" => req[r].stage = "audit"
        PROVE  Inv' /\ Trailed
    <2>1. Becomes(r, s, req[r].stream, req[r].status, req[r].ended, req[r].heard)
      BY <1>1, <1>2, GoToBecomes DEF Stages
    <2>2. /\ conns' \subseteq Requests \X {"session", "audit"}
          /\ ConnectionsComeBack'
      BY <1>2, <2>1, ConnsStep
    <2>3. req[r].status = "running" /\ row[r] = None
      BY <1>1, <1>2 DEF RequestIsSound, InGraph
    <2>4. /\ s \in Stages /\ s \notin {"idle", "sandbox", "answered", "closed"}
          /\ row' \in [Requests -> {"running", "completed", "failed", None}] /\ row'[r] = None
          /\ \A q \in Requests \ {r} : row'[q] = row[q]
      BY <1>1, <1>2, <2>3 DEF Stages, TypeOK
    <2>5. UNCHANGED <<box, event>>  BY <1>2
    <2> QED  BY <1>2, <2>1, <2>2, <2>3, <2>4, <2>5, PlainStep
  <1>3. CASE Retrieve(r)
    BY <1>2, <1>3, NoAudit DEF Retrieve, InGraph
  <1>4. CASE Query(r)
    <2>1. AuditSession(r) \notin conns'
      BY <1>4, NoAudit DEF Query, AuditSession, Session
    <2> QED  BY <1>2, <1>4, <2>1 DEF Query, InGraph
  <1>5. CASE ThreadReturns(r)
    BY <1>2, <1>5, NoAudit DEF ThreadReturns, InGraph
  <1>6. CASE AuditConnects(r)
    BY <1>2, <1>6 DEF AuditConnects, InGraph
  <1> QED  BY <1>3, <1>4, <1>5, <1>6

\* The run is over; get_db has its turn.
LEMMA EndStep ==
    ASSUME Inv, NEW r \in Requests,
           Finish(r) \/ OutOfSteps(r) \/ NodeFails(r) \/ ClientLeaves(r)
    PROVE  Inv' /\ Trailed
  <1>1. TypeOK /\ RequestIsSound(r) /\ SandboxIsSound(r)  BY DEF Inv
  <1>2. ASSUME NEW ended \in {"finished", "recursion", "error", "left"},
               NEW status \in {"running", "completed", "failed"},
               NEW stage \in {"answered", "raised"},
               EndRun(r, ended, status, stage),
               req[r].stage \in InGraph,
               stage = "answered" =>
                  /\ status = "completed" <=> ended = "finished"
                  /\ status = "failed" => req[r].stream /\ ended = "recursion"
                  /\ status = "running" => req[r].stream /\ ended = "left"
        PROVE  Inv' /\ Trailed
    <2>1. Becomes(r, stage, req[r].stream, status, ended, req[r].heard)
      BY <1>1, <1>2, EndRunBecomes
    <2>2. conns' = conns \ {AuditSession(r)} /\ UNCHANGED <<row, box, event>>
      BY <1>2 DEF EndRun
    <2>3. /\ conns' \subseteq Requests \X {"session", "audit"}
          /\ ConnectionsComeBack'
      BY <2>1, <2>2, ConnsStep
    <2>4. row[r] = None  BY <1>1, <1>2 DEF RequestIsSound, InGraph
    <2>5. stage \in Stages /\ stage \notin InGraph \union {"idle", "closed"}
      BY DEF Stages, InGraph
    <2> QED  BY <1>1, <1>2, <2>1, <2>2, <2>3, <2>4, <2>5, PlainStep DEF TypeOK
  <1>3. req[r].stage \in InGraph =>
           req[r].status = "running" /\ req[r].stream \in BOOLEAN
    BY <1>1 DEF RequestIsSound, TypeOK, RequestState
  <1>4. CASE Finish(r)
    BY <1>2, <1>4 DEF Finish, InGraph
  <1>5. CASE OutOfSteps(r)
    <2>1. CASE req[r].stream
      BY <1>2, <1>5, <2>1 DEF OutOfSteps, InGraph
    <2>2. CASE ~req[r].stream
      BY <1>2, <1>5, <2>2 DEF OutOfSteps, InGraph
    <2> QED  BY <2>1, <2>2
  <1>6. CASE NodeFails(r)
    <2>1. req[r].stage \in InGraph  BY <1>6 DEF NodeFails, InGraph
    <2>2. PICK status \in {"running", "failed"} : EndRun(r, "error", status, "raised")
      BY <1>6 DEF NodeFails
    <2> QED  BY <1>2, <2>1, <2>2
  <1>7. CASE ClientLeaves(r)
    <2>1. req[r].stage \in InGraph /\ req[r].stream  BY <1>7 DEF ClientLeaves
    <2>2. EndRun(r, "left", "running", "answered")  BY <1>3, <1>7, <2>1 DEF ClientLeaves
    <2> QED  BY <1>2, <2>1, <2>2
  <1> QED  BY <1>4, <1>5, <1>6, <1>7

\* get_db closes the session.
LEMMA CloseStep ==
    ASSUME Inv, NEW r \in Requests, Commit(r) \/ Rollback(r) \/ Cancel(r)
    PROVE  Inv' /\ Trailed
  <1>1. TypeOK /\ RequestIsSound(r)  BY DEF Inv
  <1>2. Close(r) /\ UNCHANGED <<box, event>>  BY DEF Commit, Rollback, Cancel
  <1>3. ASSUME NEW ended, Becomes(r, "closed", req[r].stream, req[r].status, ended, req[r].heard),
               row' \in [Requests -> {"running", "completed", "failed", None}],
               \A q \in Requests \ {r} : row'[q] = row[q],
               row'[r] # None =>
                  /\ row'[r] = "completed" <=> ended = "finished"
                  /\ row'[r] = "failed" => req[r].stream /\ ended = "recursion"
                  /\ row'[r] = "running" => req[r].stream /\ ended = "left"
        PROVE  Inv' /\ Trailed
    <2>1. /\ conns' \subseteq Requests \X {"session", "audit"}
          /\ ConnectionsComeBack'
      BY <1>2, <1>3, ConnsStep DEF Close
    <2> QED  BY <1>1, <1>2, <1>3, <2>1, PlainStep DEF Stages, InGraph
  <1>4. CASE Commit(r)
    <2>1. Becomes(r, "closed", req[r].stream, req[r].status, req[r].ended, req[r].heard)
      BY <1>1, <1>4, GoToBecomes DEF Commit, Stages
    <2>2. req[r].status \in {"running", "completed", "failed"}
      BY <1>1 DEF TypeOK, RequestState
    <2>3. row' = [row EXCEPT ![r] = req[r].status] /\ req[r].stage = "answered"
      BY <1>4 DEF Commit
    <2>4. /\ row' \in [Requests -> {"running", "completed", "failed", None}]
          /\ row'[r] = req[r].status
          /\ \A q \in Requests \ {r} : row'[q] = row[q]
      BY <1>1, <2>2, <2>3 DEF TypeOK
    <2>5. /\ row'[r] = "completed" <=> req[r].ended = "finished"
          /\ row'[r] = "failed" => req[r].stream /\ req[r].ended = "recursion"
          /\ row'[r] = "running" => req[r].stream /\ req[r].ended = "left"
      BY <1>1, <2>3, <2>4 DEF RequestIsSound
    <2> QED  BY <1>3, <2>1, <2>4, <2>5
  <1>5. CASE Rollback(r)
    <2>1. Becomes(r, "closed", req[r].stream, req[r].status, req[r].ended, req[r].heard)
      BY <1>1, <1>5, GoToBecomes DEF Rollback, Stages
    <2>2. row' = row /\ row[r] = None
      BY <1>1, <1>5 DEF Rollback, RequestIsSound
    <2> QED  BY <1>1, <1>3, <2>1, <2>2 DEF TypeOK
  <1>6. CASE Cancel(r)
    <2>1. Becomes(r, "closed", req[r].stream, req[r].status, "cancelled", req[r].heard)
      BY <1>1, <1>6, CancelBecomes
    <2>2. row' = row /\ row[r] = None
      BY <1>1, <1>6 DEF Cancel, RequestIsSound, InGraph
    <2> QED  BY <1>1, <1>3, <2>1, <2>2 DEF TypeOK
  <1> QED  BY <1>4, <1>5, <1>6

-----------------------------------------------------------------------------
(* The sandbox.                                                            *)

\* What a step makes of a container.
BoxBecomes(r, stage, result) ==
    /\ box' \in [Requests -> BoxState]
    /\ \A q \in Requests \ {r} : box'[q] = box[q]
    /\ box'[r].stage = stage /\ box'[r].result = result

LEMMA BoxReplaced ==
    ASSUME TypeOK, NEW r \in Requests, NEW b \in BoxState, box' = [box EXCEPT ![r] = b]
    PROVE  BoxBecomes(r, b.stage, b.result)
  BY DEF TypeOK, BoxBecomes

\* A container that gets, or keeps, its result is a deed of the audit trail.
LEMMA BoxStep ==
    ASSUME Inv, NEW r \in Requests, NEW stage, NEW result, BoxBecomes(r, stage, result),
           UNCHANGED <<row, event>>,
           \A q \in Requests : req'[q].heard = req[q].heard,
           box[r].result # None => result # None
    PROVE  Trailed
  <1>1. Recorded' = Recorded /\ ShownOutput' = ShownOutput
    BY DEF Recorded, ShownOutput
  <1>2. CASE result = None
    <2>1. Executed' = Executed  BY <1>2 DEF Executed, BoxBecomes
    <2> QED  BY <1>1, <2>1 DEF Trailed
  <1>3. CASE result # None
    <2>1. Executed' = Executed \union {r}  BY <1>3 DEF Executed, BoxBecomes
    <2>2. Trail!Do(r)  BY <1>1, <2>1 DEF Trail!Do
    <2> QED  BY <2>2 DEF Trailed, Trail!Next
  <1> QED  BY <1>2, <1>3

\* The container and its thread go on without the request.
LEMMA ContainerStep ==
    ASSUME Inv, NEW r \in Requests, RunContainer(r)
    PROVE  Inv' /\ Trailed
  <1>1. TypeOK /\ SandboxIsSound(r) /\ box[r] \in BoxState  BY DEF Inv, TypeOK
  <1>2. UNCHANGED <<req, conns, row, event>>
    BY DEF RunContainer, ContainerEnds, Remove, RemoveFails
  <1>3. ASSUME NEW stage \in {"exited", "removed", "leaked"}, NEW result \in {"success", "error"},
               BoxBecomes(r, stage, result)
        PROVE  Inv' /\ Trailed
    <2>1. result # None  BY NoneIsNoStatus
    <2>2. TypeOK'  BY <1>1, <1>2, <1>3 DEF TypeOK, BoxBecomes
    <2>3. SandboxIsSound(r)'  BY <1>1, <1>2, <1>3, <2>1 DEF SandboxIsSound, BoxBecomes
    <2>4. ASSUME NEW q \in Requests, q # r  PROVE SandboxIsSound(q)'
      BY <1>2, <1>3, <2>4 DEF Inv, SandboxIsSound, BoxBecomes
    <2>5. ConnectionsComeBack' /\ \A q \in Requests : RequestIsSound(q)'
      BY <1>2 DEF Inv, ConnectionsComeBack, RequestIsSound
    <2>6. Trailed  BY <1>2, <1>3, <2>1, BoxStep
    <2> QED  BY <2>2, <2>3, <2>4, <2>5, <2>6 DEF Inv
  <1>4. CASE ContainerEnds(r)
    <2>1. PICK result \in {"success", "error"} :
             box' = [box EXCEPT ![r] = [stage |-> "exited", result |-> result]]
      BY <1>4 DEF ContainerEnds
    <2> DEFINE b == [stage |-> "exited", result |-> result]
    <2>2. b \in BoxState /\ b.stage = "exited" /\ b.result = result  BY DEF BoxState
    <2>3. box' = [box EXCEPT ![r] = b]  BY <2>1
    <2> HIDE DEF b
    <2>4. BoxBecomes(r, "exited", result)  BY <1>1, <2>2, <2>3, BoxReplaced
    <2> QED  BY <1>3, <2>4
  <1>5. CASE Remove(r)
    <2> DEFINE b == [box[r] EXCEPT !.stage = "removed"]
    <2>1. b \in BoxState /\ b.stage = "removed" /\ b.result = box[r].result
      BY <1>1 DEF BoxState
    <2>2. box' = [box EXCEPT ![r] = b]  BY <1>5 DEF Remove
    <2>3. box[r].result \in {"success", "error"}
      BY <1>1, <1>5 DEF Remove, RemovalDue, SandboxIsSound, BoxState
    <2> HIDE DEF b
    <2>4. BoxBecomes(r, "removed", box[r].result)  BY <1>1, <2>1, <2>2, BoxReplaced
    <2> QED  BY <1>3, <2>3, <2>4
  <1>6. CASE RemoveFails(r)
    <2> DEFINE b == [stage |-> "leaked", result |-> "error"]
    <2>1. b \in BoxState /\ b.stage = "leaked" /\ b.result = "error"  BY DEF BoxState
    <2>2. box' = [box EXCEPT ![r] = b]  BY <1>6 DEF RemoveFails
    <2> HIDE DEF b
    <2>3. BoxBecomes(r, "leaked", "error")  BY <1>1, <2>1, <2>2, BoxReplaced
    <2> QED  BY <1>3, <2>3
  <1> QED  BY <1>4, <1>5, <1>6 DEF RunContainer

\* The call starts a container or fails to.
LEMMA CallStep ==
    ASSUME Inv, NEW r \in Requests, CallSandbox(r)
    PROVE  Inv' /\ Trailed
  <1>1. /\ TypeOK /\ RequestIsSound(r) /\ SandboxIsSound(r) /\ box[r] \in BoxState
        /\ req[r].stage = "worker" /\ UNCHANGED <<conns, row, event>>
    BY DEF Inv, TypeOK, CallSandbox
  <1>2. Becomes(r, "sandbox", req[r].stream, req[r].status, req[r].ended, req[r].heard)
    BY <1>1, GoToBecomes DEF CallSandbox, Stages
  <1>3. box[r].stage = "none" /\ box[r].result = None  BY DEF CallSandbox
  <1>4. BoxBecomes(r, "started", None) \/ BoxBecomes(r, "none", "error")
    <2> DEFINE b1 == [box[r] EXCEPT !.stage = "started"]
               b2 == [box[r] EXCEPT !.result = "error"]
    <2>1. /\ b1 \in BoxState /\ b1.stage = "started" /\ b1.result = None
          /\ b2 \in BoxState /\ b2.stage = "none" /\ b2.result = "error"
      BY <1>1, <1>3 DEF BoxState
    <2>2. box' = [box EXCEPT ![r] = b1] \/ box' = [box EXCEPT ![r] = b2]
      BY DEF CallSandbox
    <2> HIDE DEF b1, b2
    <2> QED  BY <1>1, <2>1, <2>2, BoxReplaced
  <1>5. req[r].heard = None /\ event[r] = None  BY <1>1, <1>3 DEF SandboxIsSound
  <1>6. TypeOK'  BY <1>1, <1>2, <1>4 DEF TypeOK, Becomes, BoxBecomes
  <1>7. RequestIsSound(r)'  BY <1>1, <1>2 DEF RequestIsSound, Becomes, InGraph
  <1>8. SandboxIsSound(r)'
    BY <1>1, <1>2, <1>4, <1>5 DEF SandboxIsSound, Becomes, BoxBecomes
  <1>9. ASSUME NEW q \in Requests, q # r  PROVE RequestIsSound(q)' /\ SandboxIsSound(q)'
    BY <1>1, <1>2, <1>4, <1>9 DEF Inv, RequestIsSound, SandboxIsSound, Becomes, BoxBecomes
  <1>10. ConnectionsComeBack'  BY <1>1, <1>2, NoAudit, ConnsStep
  <1>11. \A q \in Requests : req'[q].heard = req[q].heard  BY <1>2 DEF Becomes
  <1>12. Trailed  BY <1>1, <1>3, <1>4, <1>11, BoxStep
  <1> QED  BY <1>6, <1>7, <1>8, <1>9, <1>10, <1>12 DEF Inv

\* The tool's answer reaches the model: with its row, or as an error.
LEMMA HearStep ==
    ASSUME Inv, NEW r \in Requests, Audit(r) \/ AuditFails(r)
    PROVE  Inv' /\ Trailed
  <1>1. /\ TypeOK /\ RequestIsSound(r) /\ SandboxIsSound(r)
        /\ req[r].stage \in {"audit", "auditing"}
    BY DEF Inv, Audit, AuditFails, AuditRaises
  <1>2. /\ box[r].result \in {"success", "error"}
        /\ req[r].heard = None /\ event[r] = None
        /\ req[r].status = "running" /\ row[r] = None
    BY <1>1 DEF SandboxIsSound, RequestIsSound, TypeOK, BoxState, InGraph
  <1>3. ASSUME NEW result \in {"success", "error"}, Hear(r, result),
               event' \in [Requests -> {"ok", "error", None}],
               \A q \in Requests \ {r} : event'[q] = event[q]
        PROVE  Inv'
    <2>1. Becomes(r, "worker", req[r].stream, req[r].status, req[r].ended, result)
      BY <1>1, <1>3, HearBecomes DEF Results
    <2>2. conns' = conns \ {AuditSession(r)} /\ UNCHANGED <<row, box>>  BY <1>3 DEF Hear
    <2>3. TypeOK'
      <3>1. conns' \subseteq Requests \X {"session", "audit"}  BY <1>1, <2>2 DEF TypeOK
      <3> QED  BY <1>1, <1>3, <2>1, <2>2, <3>1 DEF TypeOK, Becomes
    <2>4. RequestIsSound(r)'  BY <1>2, <2>1, <2>2 DEF RequestIsSound, Becomes
    <2>5. SandboxIsSound(r)'
      BY <1>1, <1>2, <2>1, <2>2, NoneIsNoStatus DEF SandboxIsSound, Becomes
    <2>6. ASSUME NEW q \in Requests, q # r  PROVE RequestIsSound(q)' /\ SandboxIsSound(q)'
      BY <1>3, <2>1, <2>2, <2>6 DEF Inv, RequestIsSound, SandboxIsSound, Becomes
    <2>7. ConnectionsComeBack'  BY <2>1, <2>2, ConnsStep
    <2> QED  BY <2>3, <2>4, <2>5, <2>6, <2>7 DEF Inv
  <1>4. CASE Audit(r)
    <2> DEFINE outcome == IF box[r].result = "success" THEN "ok" ELSE "error"
    <2>1. /\ event' = [event EXCEPT ![r] = outcome] /\ Hear(r, box[r].result)
          /\ outcome \in {"ok", "error"}
      BY <1>4 DEF Audit
    <2> HIDE DEF outcome
    <2>2. /\ event' \in [Requests -> {"ok", "error", None}] /\ event'[r] # None
          /\ \A q \in Requests \ {r} : event'[q] = event[q]
      BY <1>1, <2>1, NoneIsNoStatus DEF TypeOK
    <2>3. Inv'  BY <1>2, <1>3, <2>1, <2>2
    <2>4. Becomes(r, "worker", req[r].stream, req[r].status, req[r].ended, box[r].result)
      BY <1>1, <1>2, <2>1, HearBecomes DEF Results
    <2>5. box' = box  BY <2>1 DEF Hear
    <2>6. Executed' = Executed /\ r \in Executed
      BY <1>2, <2>5, NoneIsNoStatus DEF Executed
    <2>7. Recorded' = Recorded \union {r}  BY <2>2 DEF Recorded
    <2>8. ShownOutput' \in {ShownOutput, ShownOutput \union {r}}
      <3>1. CASE box[r].result = "success"
        BY <2>4, <3>1 DEF ShownOutput, Becomes
      <3>2. CASE box[r].result # "success"
        <4>1. \A q \in Requests : req'[q].heard = "success" <=> req[q].heard = "success"
          BY <1>2, <2>4, <3>2, NoneIsNoStatus DEF Becomes
        <4> QED  BY <4>1 DEF ShownOutput
      <3> QED  BY <3>1, <3>2
    <2>9. Trail!Record(r)  BY <2>6, <2>7, <2>8 DEF Trail!Record
    <2> QED  BY <2>3, <2>9 DEF Trailed, Trail!Next
  <1>5. CASE AuditFails(r)
    <2>1. Hear(r, "error") /\ event' = event /\ box' = box  BY <1>5 DEF AuditFails, Hear
    <2>2. Inv'  BY <1>1, <1>3, <2>1 DEF TypeOK
    <2>3. Becomes(r, "worker", req[r].stream, req[r].status, req[r].ended, "error")
      BY <1>1, <2>1, HearBecomes DEF Results
    <2>4. \A q \in Requests : req'[q].heard = "success" <=> req[q].heard = "success"
      BY <1>2, <2>3, NoneIsNoStatus DEF Becomes
    <2>5. UNCHANGED <<Executed, Recorded, ShownOutput>>
      BY <2>1, <2>4 DEF Executed, Recorded, ShownOutput
    <2> QED  BY <2>2, <2>5 DEF Trailed
  <1> QED  BY <1>4, <1>5

-----------------------------------------------------------------------------
\* Every step keeps the invariant and is a step of AuditTrail or none.
LEMMA InvStep ==
    ASSUME Inv, [Next]_vars
    PROVE  Inv' /\ Trailed
  <1>1. CASE UNCHANGED vars
    <2>1. Inv'
      BY <1>1 DEF vars, Inv, TypeOK, RequestIsSound, SandboxIsSound, ConnectionsComeBack
    <2> QED  BY <1>1, <2>1 DEF vars, Trailed, Executed, Recorded, ShownOutput
  <1>2. ASSUME NEW r \in Requests, Serve(r)  PROVE Inv' /\ Trailed
    BY <1>2, AdvanceStep, EndStep, CloseStep, CallStep, HearStep DEF Serve
  <1>3. ASSUME NEW r \in Requests, NEW admin \in BOOLEAN,
               run_agent(r, admin) \/ run_agent_stream(r, admin)
        PROVE  Inv' /\ Trailed
    BY <1>3, ArrivalStep DEF run_agent, run_agent_stream
  <1>4. CASE Next
    BY <1>2, <1>3, <1>4, ContainerStep, EndStep, CloseStep DEF Next
  <1> QED  BY <1>1, <1>4

\* The invariant holds before any request.
LEMMA InvInit ==
    ASSUME Init  PROVE Inv
  <1>1. /\ Idle \in RequestState /\ Idle.stage = "idle" /\ Idle.status = "running"
        /\ Idle.heard = None
    BY DEF Idle, RequestState, Stages
  <1>2. TypeOK  BY <1>1 DEF Init, TypeOK, BoxState
  <1>3. \A r \in Requests : req[r] = Idle /\ row[r] = None /\ event[r] = None
                            /\ box[r].stage = "none"
    BY DEF Init
  <1>4. \A r \in Requests : RequestIsSound(r) /\ SandboxIsSound(r)
    BY <1>1, <1>3 DEF RequestIsSound, SandboxIsSound
  <1>5. ConnectionsComeBack  BY DEF Init, ConnectionsComeBack
  <1> QED  BY <1>2, <1>4, <1>5 DEF Inv

\* Requests, pool, rows and containers stay well typed.
THEOREM RecordsTypeCorrect == Spec => []TypeOK
  <1>1. Inv => TypeOK  BY DEF Inv
  <1> QED  BY InvInit, InvStep, <1>1, PTL DEF Spec

\* A committed AgentExecution row agrees with how its run ended, however the
\* commits, rollbacks, cancellations and lost clients of any number of runs fall.
THEOREM RowsAgree == Spec => []RowsTellTheOutcome
  <1>1. Inv => RowsTellTheOutcome  BY DEF Inv, RequestIsSound, RowsTellTheOutcome
  <1> QED  BY InvInit, InvStep, <1>1, PTL DEF Spec

\* Only requests that are being served hold connections, for any pool size.
THEOREM ConnectionsReturn == Spec => []ConnectionsComeBack
  <1>1. Inv => ConnectionsComeBack  BY DEF Inv
  <1> QED  BY InvInit, InvStep, <1>1, PTL DEF Spec

\* The sandbox implements the audit trail: a row tells of an execution, and the
\* model is shown an output only with its row committed.
THEOREM SandboxAudited == Spec => ImplementsAuditTrail
  <1>1. Init => Trail!Init
    <2>1. Idle.heard = None  BY DEF Idle
    <2>2. ASSUME Init  PROVE Executed = {} /\ Recorded = {} /\ ShownOutput = {}
      BY <2>1, <2>2, NoneIsNoStatus DEF Init, Executed, Recorded, ShownOutput
    <2> QED  BY <2>2 DEF Trail!Init
  <1>2. Inv /\ [Next]_vars => [Trail!Next]_Trail!tvars
    BY InvStep DEF Trailed, Trail!tvars
  <1> QED  BY InvInit, InvStep, <1>1, <1>2, PTL DEF Spec, ImplementsAuditTrail, Trail!Spec
================================================================================
