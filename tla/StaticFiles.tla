----------------------------- MODULE StaticFiles -----------------------------
(***************************************************************************)
(* StaticFiles::handler (Middlewares/StaticFiles.cpp) with MMap::map_file, *)
(* over a file system that others change between any two calls of stat,    *)
(* opendir and open, and a client that may be gone before the end of a     *)
(* file.  A listing is one body: what its rows say is not modelled.        *)
(***************************************************************************)
EXTENDS Naturals, Sequences, SequencesExt

CONSTANTS
    MaxChanges     \* bound: changes of what is at the path

VARIABLES
    request,   \* has its decoded path "..", and the list_files of the middleware
    what,      \* what is at the path
    seen,      \* ghost: all that was there since the request came
    step,      \* the next call of the handler
    client,    \* "reads" or "gone"
    out        \* the bodies the client gets, with the status that goes first

vars == <<request, what, seen, step, client, out>>

(* What can be at a path, and errno when it is taken for what it is not. *)
Kinds == {"file", "empty", "dir", "denied", "guarded", "absent"}
Errno == [file |-> "ENOTDIR", empty |-> "ENOTDIR", dir |-> "EISDIR",
          denied |-> "EACCES", guarded |-> "EPERM", absent |-> "ENOENT"]

StatusOf(errno) ==
    CASE errno = "ENOENT" -> 404 [] errno = "EPERM" -> 403 [] OTHER -> 500

Init ==
    /\ request \in [dots : BOOLEAN, list_files : BOOLEAN]
    /\ what \in Kinds /\ seen = <<what>>
    /\ step = "check" /\ client = "reads" /\ out = <<>>

(* send: headers go once, and nothing reaches a client that is gone. *)
Sent(status, body) ==
    IF client = "gone" THEN out
    ELSE Append(out, [status |-> IF out = <<>> THEN status ELSE 0, body |-> body])

(* A response that ends the handler. *)
Answer(status, body) == out' = Sent(status, body) /\ step' = "done"

CheckPath ==
    /\ step = "check"
    /\ \/ request.dots /\ Answer(200, "teapot")
       \/ ~request.dots /\ step' = "stat" /\ UNCHANGED out
    /\ UNCHANGED <<request, what, seen, client>>

StatPath ==
    /\ step = "stat"
    /\ IF what \in {"file", "empty", "dir"} THEN step' = "opendir" /\ UNCHANGED out
       ELSE Answer(StatusOf(Errno[what]), "status_page")
    /\ UNCHANGED <<request, what, seen, client>>

OpenDir ==
    /\ step = "opendir"
    /\ \/ what = "dir" /\ request.list_files /\ step' = "list" /\ UNCHANGED out
       \/ what = "dir" /\ ~request.list_files /\ Answer(403, "status_page")
       \/ Errno[what] = "ENOTDIR" /\ step' = "open" /\ UNCHANGED out
       \/ /\ what # "dir" /\ Errno[what] # "ENOTDIR"
          /\ Answer(StatusOf(Errno[what]), "status_page")
    /\ UNCHANGED <<request, what, seen, client>>

(* generate_file_page *)
SendPage ==
    /\ step = "list"
    /\ Answer(200, "page")
    /\ UNCHANGED <<request, what, seen, client>>

\* Mutant: the handler goes on after the exception of send_file.
SendFileFailedGoesOn ==
    out' = Append(Sent(500, "status_page"), [status |-> 0, body |-> "status_page"])
SendFileFailed == out' = Sent(500, "status_page")

(* send_file maps the file, which cannot be done with an empty one, and sends
   its headers. *)
OpenFile ==
    /\ step = "open"
    /\ IF what = "file" THEN step' = "sending" /\ out' = Sent(200, "file")
       ELSE step' = "done" /\ SendFileFailed
    /\ UNCHANGED <<request, what, seen, client>>

(* A blocking write of a piece; its error is caught as any other. *)
SendPiece ==
    /\ step = "sending"
    /\ IF client = "gone" THEN step' = "done" /\ SendFileFailed
       ELSE step' \in {"sending", "done"} /\ UNCHANGED out
    /\ UNCHANGED <<request, what, seen, client>>

Change ==
    /\ Len(seen) <= MaxChanges
    /\ what' \in Kinds \ {what} /\ seen' = Append(seen, what')
    /\ UNCHANGED <<request, step, client, out>>

ClientLeaves ==
    /\ client = "reads" /\ client' = "gone"
    /\ UNCHANGED <<request, what, seen, step, out>>

Next ==
    \/ CheckPath \/ StatPath \/ OpenDir \/ SendPage \/ OpenFile \/ SendPiece
    \/ Change \/ ClientLeaves

Spec == Init /\ [][Next]_vars
-----------------------------------------------------------------------------
(* What must have been at the path for an answer; a file that becomes another
   thing before it is opened is answered as an error of the server. *)
Justifies(kind, answer) ==
    \/ answer.body = "file" /\ kind = "file"
    \/ answer.body = "page" /\ kind = "dir" /\ request.list_files
    \/ /\ answer.body = "status_page"
       /\ \/ answer.status = 404 /\ kind = "absent"
          \/ answer.status = 403 /\ (kind = "guarded" \/ (kind = "dir" /\ ~request.list_files))
          \/ answer.status = 500 /\ (kind \in {"denied", "empty"} \/ Len(seen) > 1)

(* However the file system changes meanwhile, a client that stays gets exactly
   one response, and it tells something that was at the path while it waited;
   of a path with ".." it learns nothing. *)
AnswerIsTrue ==
    /\ Len(out) <= 1
    /\ step = "done" /\ client = "reads" => Len(out) = 1
    /\ out # <<>> =>
          IF request.dots THEN out[1].body = "teapot"
          ELSE \E i \in DOMAIN seen : Justifies(seen[i], out[1])
=============================================================================
