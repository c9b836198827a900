------------------------------- MODULE FileTools -------------------------------
(***************************************************************************)
(* The filesystem MCP server: read_text_file, write_text_file and          *)
(* list_directory (app/mcp/fs_server.py) behind resolve_in_root            *)
(* (app/mcp/paths.py), with the file_audit_events rows.  The file is read  *)
(* or written in a worker thread, so calls overlap there as the operating  *)
(* system lets them; a cancellation is delivered when the thread is done.  *)
(*                                                                         *)
(* A location is the sequence of names from the top of the disk.  What a   *)
(* file holds is the set of the calls whose bytes are in it: opening it    *)
(* for a write empties it, and a shorter write over a longer one leaves    *)
(* the tail.                                                               *)
(***************************************************************************)
EXTENDS Naturals, Sequences, FiniteSets

Seqs == INSTANCE SequencesExt

CONSTANTS
    Calls,          \* tool calls, each served at most once
    Paths,          \* the path arguments: [abs |-> from "/"?, parts |-> names]
    ROOT,           \* settings.agent_files_dir, resolved
    Links,          \* symbolic links: location -> the location it finally leads to
    Directories,    \* locations that are directories
    Present,        \* locations of the files there are from the start
    Before,         \* the writer of those files
    None

ASSUME NoneIsNoCall == None \notin Calls /\ Before \notin Calls
ASSUME NoneIsNoAction == None \notin {"read", "write", "create"}
ASSUME NoneIsNoSet == \A S \in SUBSET (Calls \union {Before}) : S # None

VARIABLES
    files,      \* per location: whose bytes it holds, or None
    call        \* the tool calls

vars == <<files, call>>

-----------------------------------------------------------------------------
(* Paths.                                                                  *)

\* No ".." in it and no link on the way: what resolve() returns.
Real(l) == /\ l \in Seq(STRING)
           /\ \A i \in 1..Len(l) : l[i] # ".." /\ SubSeq(l, 1, i) \notin DOMAIN Links

ASSUME PathsAssumption == \A p \in Paths : p.parts \in Seq(STRING)
ASSUME RealPlaces == Real(ROOT) /\ \A l \in DOMAIN Links : Real(Links[l])

Follow(l) == IF l \in DOMAIN Links THEN Links[l] ELSE l

Enter(l, name) == IF name # ".." THEN Follow(Append(l, name))
                  ELSE IF l = << >> THEN l ELSE SubSeq(l, 1, Len(l) - 1)

\* One name after the other, each from where the ones before it have led.
Walk(from, names) ==
    LET at[i \in 0..Len(names)] == IF i = 0 THEN from ELSE Enter(at[i - 1], names[i])
    IN at[Len(names)]

\* (ROOT / relative_path).resolve(): an absolute argument replaces ROOT.
resolve(p) == Walk(IF p.abs THEN << >> ELSE ROOT, p.parts)

\* Where the operating system gets to when it is given a location to open.
Opened(l) == Walk(<< >>, l)

Inside(l) == Seqs!IsPrefix(ROOT, l)

resolve_in_root_Lexical(p) ==
    LET Climb(l, name) == IF name # ".." THEN Append(l, name)
                          ELSE IF l = << >> THEN l ELSE SubSeq(l, 1, Len(l) - 1)
        l == Seqs!FoldLeft(Climb, IF p.abs THEN << >> ELSE ROOT, p.parts)
    IN IF Inside(l) THEN l ELSE None

\* None: it raises ValueError.
resolve_in_root(p) == LET candidate == resolve(p) IN
                      IF Inside(candidate) THEN candidate ELSE None

Locations == {Opened(resolve(p)) : p \in Paths}

-----------------------------------------------------------------------------
\* thread: handed to the worker thread; open: emptied, not yet written;
\* audit: the thread is done, the row is being written.
Stages == {"idle", "thread", "open", "audit", "returned", "raised", "cancelled"}

CallState == [stage : Stages, op : {"read", "write", "list", None},
              at : Locations \union {None},
              existed : BOOLEAN,                           \* read before the write
              acted : BOOLEAN,                             \* history: read or wrote
              row : {"read", "write", "create", None}]     \* FileAuditEvent.action

Idle == [stage |-> "idle", op |-> None, at |-> None, existed |-> FALSE,
         acted |-> FALSE, row |-> None]

TypeOK == /\ files \in [Locations -> (SUBSET (Calls \union {Before})) \union {None}]
          /\ call \in [Calls -> CallState]

Init == /\ files = [l \in Locations |-> IF l \in Present THEN {Before} ELSE None]
        /\ call = [c \in Calls |-> Idle]

GoTo(c, stage) == call' = [call EXCEPT ![c].stage = stage]

ToAudit(c) == call' = [call EXCEPT ![c].stage = "audit", ![c].acted = TRUE]

exists_Assumed(l) == TRUE

exists(l) == l \in Directories \/ files[l] # None

\* Up to the first await; the size and the path are refused before any I/O.
Start(c, op, p, refused) == LET target == resolve_in_root(p) IN
    /\ call[c].stage = "idle"
    /\ call' = [call EXCEPT ![c] =
          IF refused \/ target = None THEN [Idle EXCEPT !.stage = "raised"]
          ELSE [Idle EXCEPT !.stage = "thread", !.op = op, !.at = Opened(target),
                            !.existed = op = "write" /\ exists(Opened(target))]]
    /\ UNCHANGED files

read_text_file(c, p) == Start(c, "read", p, FALSE)
write_text_file(c, p, too_long) == Start(c, "write", p, too_long)

\* Reads the names under a directory at once, and leaves no row.
list_directory(c, p) == LET target == resolve_in_root(p) IN
    /\ call[c].stage = "idle"
    /\ call' = [call EXCEPT ![c] =
          IF target = None THEN [Idle EXCEPT !.stage = "raised", !.op = "list"]
          ELSE [Idle EXCEPT !.op = "list", !.at = Opened(target),
                            !.stage = IF Opened(target) \in Directories THEN "returned" ELSE "raised"]]
    /\ UNCHANGED files

\* target.read_text() raises when there is no such file, and also on one that is a
\* directory, is closed to it or is not UTF-8.
ReadText(c) ==
    /\ call[c].stage = "thread" /\ call[c].op = "read"
    /\ \/ GoTo(c, "raised")
       \/ files[call[c].at] # None /\ ToAudit(c)
    /\ UNCHANGED files

\* target.write_bytes(): open(mode="wb") empties the file, then the bytes go in.
OpenForWrite(c) == LET l == call[c].at IN
    /\ call[c].stage = "thread" /\ call[c].op = "write" /\ l \notin Directories
    /\ files' = [files EXCEPT ![l] = {}]
    /\ GoTo(c, "open")

WriteBytes(c) == LET l == call[c].at IN
    /\ call[c].stage = "open"
    /\ \E tail \in {{}, files[l]} : files' = [files EXCEPT ![l] = {c} \union tail]
    /\ ToAudit(c)

\* A directory, a full disk, a refused permission; the file may be empty by now.
WriteFails(c) == /\ call[c].stage \in {"thread", "open"} /\ call[c].op = "write"
                 /\ GoTo(c, "raised")
                 /\ UNCHANGED files

action_Renamed(c) == IF call[c].existed THEN "update" ELSE "create"

action(c) == IF call[c].op = "read" THEN "read"
             ELSE IF call[c].existed THEN "write" ELSE "create"

\* session.commit(), then the tool returns.
Audit(c) == /\ call[c].stage = "audit"
            /\ call' = [call EXCEPT ![c].row = action(c), ![c].stage = "returned"]
            /\ UNCHANGED files

AuditFails_Swallowed(c) == /\ call[c].stage = "audit"
                           /\ GoTo(c, "returned")
                           /\ UNCHANGED files

AuditFails(c) == /\ call[c].stage = "audit"
                 /\ GoTo(c, "raised")
                 /\ UNCHANGED files

Cancel(c) == /\ call[c].stage = "audit"
             /\ GoTo(c, "cancelled")
             /\ UNCHANGED files

Next == \E c \in Calls :
           \/ \E p \in Paths : \/ read_text_file(c, p) \/ list_directory(c, p)
                               \/ \E too_long \in BOOLEAN : write_text_file(c, p, too_long)
           \/ ReadText(c) \/ OpenForWrite(c) \/ WriteBytes(c) \/ WriteFails(c)
           \/ Audit(c) \/ AuditFails(c) \/ Cancel(c)

Spec == Init /\ [][Next]_vars
-----------------------------------------------------------------------------
(***************************************************************************)
(* "the call raises before any I/O if the path escapes the configured      *)
(* root" (paths.py): whatever mixture of "..", absolute parts and links a  *)
(* path is made of, what the operating system opens lies under ROOT, and   *)
(* no file elsewhere changes.                                              *)
(***************************************************************************)
JailHolds ==
    /\ \A c \in Calls : call[c].at # None => Inside(call[c].at)
    /\ \A l \in Locations : ~Inside(l) => files[l] \in {None, {Before}}

(***************************************************************************)
(* The audit tells who made a file, although existed is read before the    *)
(* write and two first writers may both read FALSE: a new file all whose   *)
(* writers returned has a "create" row, and a "write" row on a new file    *)
(* means that somebody else had been there before.                         *)
(***************************************************************************)
Writers(l) == {c \in Calls : call[c].at = l /\ call[c].op = "write"}
CreatorsAreRecorded ==
    \A l \in Locations \ Present :
       /\ files[l] # None /\ (\A c \in Writers(l) : call[c].stage = "returned")
             => \E c \in Writers(l) : call[c].row = "create"
       /\ \A c \in Writers(l) : call[c].row = "write" =>
             \E q \in Writers(l) \ {c} : ~call[q].existed

(***************************************************************************)
(* "every read and write logged" as far as the code keeps it: the model    *)
(* gets no content and no confirmation without a committed row, and no row *)
(* stands for a read or write that did not happen.                         *)
(***************************************************************************)
Performed == {c \in Calls : call[c].acted}
Recorded == {c \in Calls : call[c].row # None}
Told == {c \in Calls : call[c].op # "list" /\ call[c].stage = "returned"}
Trail == INSTANCE AuditTrail WITH done <- Performed, recorded <- Recorded, told <- Told
ImplementsAuditTrail == Trail!Spec
================================================================================
