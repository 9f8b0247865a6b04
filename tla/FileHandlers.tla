---------------------------- MODULE FileHandlers ----------------------------
(* StaticFileHandler and UploadHandler as the reactors run them: each reactor  *)
(* handles one request at a time to its end, and nothing but the file system   *)
(* orders the system calls of two of them.  All requests name one file, or     *)
(* a directory, or a path that no handler accepts.                             *)
EXTENDS Integers, Sequences, FiniteSets

\* Bodies: what may be uploaded, sequences of bytes; MaxRequests bounds how many
\* requests are handled; BufferSize: what an ofstream holds back until its end;
\* MaxOpen: how many descriptors the process may have for files.
CONSTANTS Reactors, Bodies, MaxRequests, BufferSize, MaxOpen, Absent, Nobody

Methods == {"GET", "HEAD", "DELETE", "POST"}
Requests == [method : Methods, target : {"file", "directory", "refused"}, body : {<<>>}]
              \union [method : {"POST"}, target : {"file"}, body : Bodies]

\* What the theorems assume of the constants: a body is made of bytes, and a file
\* that is not there is neither a number nor what a file may hold.
Byte == UNION {{body[i] : i \in DOMAIN body} : body \in Bodies}
Parameters == /\ IsFiniteSet(Reactors) /\ MaxOpen \in Nat
              /\ Bodies \subseteq Seq(Byte)
              /\ Absent \notin Nat /\ Absent \notin Seq(Byte)

\* dir: the inode the name stands for, data: the contents of the inodes;
\* handler: the handler each reactor is in, fds: the inodes of the descriptors
\* that responses hold; diskFull: the kernel's.
VARIABLES dir, data, handler, fds, diskFull, handled

vars == <<dir, data, handler, fds, diskFull, handled>>

File == IF dir = Absent THEN Absent ELSE data[dir]

Idle == [at |-> "idle", req |-> Nobody, inode |-> Absent, size |-> 0, answer |-> 0,
         seen |-> {}, others |-> {}]

Init ==
  /\ dir = Absent
  /\ data = <<>>
  /\ handler = [r \in Reactors |-> Idle]
  /\ fds = <<>>
  /\ diskFull = FALSE
  /\ handled = 0

-----------------------------------------------------------------------------
(* What every handler under way has seen of the file, and whom it overlapped   *)
(* with; both only serve the properties.                                       *)

Running(r) == handler[r].at \notin {"idle", "answered"}

\* The handlers after r has moved to h and the file has become what now is.
Moves(r, h, now) ==
  handler' = [q \in Reactors |->
                LET g == IF q = r THEN h ELSE handler[q]
                IN  IF q = r \/ Running(q) THEN [g EXCEPT !.seen = @ \union {now}] ELSE g]

At(r, step) == handler[r].at = step

Answers(h, code) == [h EXCEPT !.at = "answered", !.answer = code]

Start(r) ==
  /\ At(r, "idle") \/ At(r, "answered")
  /\ handled < MaxRequests
  /\ handled' = handled + 1
  /\ \E req \in Requests :
       handler' = [q \in Reactors |->
                     IF q = r THEN [Idle EXCEPT !.at = "route", !.req = req, !.seen = {File},
                                                !.others = {p \in Reactors \ {r} : Running(p)}]
                     ELSE IF Running(q) THEN [handler[q] EXCEPT !.others = @ \union {r}]
                     ELSE handler[q]]
  /\ UNCHANGED <<dir, data, fds, diskFull>>

-----------------------------------------------------------------------------
(* StaticFileHandler *)

Static(r) == handler[r].req.method # "POST"

\* resolveSafePath and getFileInfo: what the path is, and its size.
GetFileInfo(r) ==
  LET h == handler[r]
  IN  /\ At(r, "route")
      /\ Static(r)
      /\ Moves(r,
           CASE h.req.target = "refused" -> Answers(h, 400)
             [] h.req.target = "directory" -> Answers(h, 403)
             [] h.req.target = "file" /\ dir = Absent -> Answers(h, 404)
             [] OTHER -> LET known == [h EXCEPT !.size = Len(data[dir])]
                         IN  IF h.req.method = "HEAD" THEN Answers(known, 200)
                             ELSE [known EXCEPT !.at = h.req.method],
           File)
      /\ UNCHANGED <<dir, data, fds, diskFull, handled>>

\* openFileForReading: any error but a lack of permission is the server's fault.
\* The descriptor goes into the response, and nobody closes it.
OpenFile(r) ==
  LET h == handler[r]
      fails == dir = Absent \/ Len(fds) = MaxOpen
  IN  /\ At(r, "GET")
      /\ Moves(r, IF fails THEN Answers(h, 500) ELSE [Answers(h, 200) EXCEPT !.inode = dir], File)
      /\ fds' = IF fails THEN fds ELSE Append(fds, dir)
      /\ UNCHANGED <<dir, data, diskFull, handled>>

\* Mutant: who finds nothing to remove has removed it.
RemoveAnyhow(r) ==
  LET h == handler[r]
  IN  /\ At(r, "DELETE")
      /\ dir' = Absent
      /\ Moves(r, Answers(h, 204), Absent)
      /\ UNCHANGED <<data, fds, diskFull, handled>>

\* remove: false without an error where the name is gone already.
RemoveFile(r) ==
  LET h == handler[r]
  IN  /\ At(r, "DELETE")
      /\ dir' = Absent
      /\ Moves(r, Answers(h, IF dir = Absent THEN 500 ELSE 204), Absent)
      /\ UNCHANGED <<data, fds, diskFull, handled>>

-----------------------------------------------------------------------------
(* UploadHandler *)

NewInode == Len(data) + 1

\* Mutant: a file that is there keeps what it holds.
Kept == IF dir = Absent THEN Append(data, <<>>) ELSE data

Emptied == IF dir = Absent THEN Append(data, <<>>) ELSE [data EXCEPT ![dir] = <<>>]

\* The ofstream creates the file, or empties the one that is there.
OpenForWriting(r) ==
  LET h == handler[r]
      inode == IF dir = Absent THEN NewInode ELSE dir
  IN  /\ At(r, "route")
      /\ ~Static(r)
      /\ IF h.req.target = "file"
         THEN /\ dir' = inode
              /\ data' = Emptied
              /\ Moves(r, [h EXCEPT !.at = "write", !.inode = inode], <<>>)
         ELSE /\ Moves(r, Answers(h, IF h.req.target = "refused" THEN 400 ELSE 500), File)
              /\ UNCHANGED <<dir, data>>
      /\ UNCHANGED <<fds, diskFull, handled>>

\* The contents of a file when body is written at its beginning.
Over(old, body) == body \o SubSeq(old, Len(body) + 1, Len(old))

Put(r) == [data EXCEPT ![handler[r].inode] = Over(@, handler[r].req.body)]

\* What the name stands for once inode i holds this.
FileWith(contents) == IF dir = Absent THEN Absent ELSE contents[dir]

\* write: a body that fits into the buffer stays there, and never fails here.
Write(r) ==
  LET h == handler[r]
  IN  /\ At(r, "write")
      /\ IF Len(h.req.body) <= BufferSize
         THEN Moves(r, [h EXCEPT !.at = "flush"], File) /\ UNCHANGED data
         ELSE IF diskFull
         THEN Moves(r, [h EXCEPT !.at = "undo"], File) /\ UNCHANGED data
         ELSE data' = Put(r) /\ Moves(r, Answers(h, 201), FileWith(Put(r)))
      /\ UNCHANGED <<dir, fds, diskFull, handled>>

\* The file that could not be written is removed, by its name.
Undo(r) ==
  /\ At(r, "undo")
  /\ dir' = Absent
  /\ Moves(r, Answers(handler[r], 500), Absent)
  /\ UNCHANGED <<data, fds, diskFull, handled>>

\* The destructor writes the rest after the answer is made; nobody asks whether
\* that went well.
Flush(r) ==
  /\ At(r, "flush")
  /\ IF diskFull THEN Moves(r, Answers(handler[r], 201), File) /\ UNCHANGED data
     ELSE data' = Put(r) /\ Moves(r, Answers(handler[r], 201), FileWith(Put(r)))
  /\ UNCHANGED <<dir, fds, diskFull, handled>>

-----------------------------------------------------------------------------

DiskFills == ~diskFull /\ diskFull' = TRUE /\ UNCHANGED <<dir, data, handler, fds, handled>>

Next ==
  \/ \E r \in Reactors : \/ Start(r) \/ GetFileInfo(r) \/ OpenFile(r) \/ RemoveFile(r)
                         \/ OpenForWriting(r) \/ Write(r) \/ Undo(r) \/ Flush(r)
  \/ DiskFills

Spec == Init /\ [][Next]_vars

-----------------------------------------------------------------------------

\* Every answer was true at some moment while its request was handled, although
\* a handler looks and acts in separate system calls: of a file that is not
\* there it was not there, a size was its size, and who removed it found it,
\* so that a file is removed at most once for each time it was created.
\* An error of the server means that the file went away meanwhile, that it is
\* no file, that the disk is full, or that earlier answers have used up the
\* descriptors, which never come back (StaticFileHandler.cc:74).
AnswersHadTheirMoment ==
  /\ Cardinality({r \in Reactors : handler[r].answer = 204}) <= Len(data)
  /\ \A r \in Reactors : At(r, "answered") =>
       LET h == handler[r]
           contents == h.seen \ {Absent}
       IN  CASE h.answer = 404 -> Absent \in h.seen
             [] h.answer = 200 -> \E c \in contents : Len(c) = h.size
             [] h.answer = 204 -> Absent \in h.seen /\ contents # {}
             [] h.answer = 201 -> <<>> \in contents
             [] h.answer = 500 -> \/ h.req.target = "directory"
                                  \/ diskFull /\ h.req.method = "POST"
                                  \/ Len(fds) = MaxOpen /\ h.req.method = "GET"
                                  \/ Absent \in h.seen /\ contents # {}
             [] OTHER -> h.req.target # "file"

\* With nobody else about, an upload that was answered with 201 is the file, if
\* the disk had room (UploadHandler.cc:45).
LoneUploadStep ==
  \A r \in Reactors :
    (Running(r) /\ handler'[r].at = "answered" /\ handler'[r].answer = 201
       /\ handler[r].others = {} /\ ~diskFull)
    => File' = handler[r].req.body
===============================================================================
