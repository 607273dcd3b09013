----------------------------- MODULE CatFileBatch -----------------------------
(***************************************************************************)
(* Repo.BatchCatFile of src/internal/gitx/gitx.go: many objects read by    *)
(* one `git cat-file --batch`.  A goroutine writes the requests while the  *)
(* caller reads the answers; between them are two pipes and git, and each  *)
(* of the five may be full, empty or gone.                                 *)
(*                                                                         *)
(* A request is one piece of a pipe; an answer is a header and, for an     *)
(* object git has, its bytes, a piece each.                                *)
(***************************************************************************)
EXTENDS Naturals, Sequences

CONSTANTS Requests,   \* how many objects are asked for
          Stores,     \* what the repository may hold: [1..Requests -> Kinds]
          BufferCap,  \* bound: requests in the bufio.Writer
          PipeCap     \* bound: pieces in a pipe

VARIABLES
  store,    \* what the repository has for each request
  written,  \* requests formatted so far
  buffer,   \* those not handed to the pipe yet
  writer,   \* the goroutine: writing, or ended
  stdin,    \* the pipe to git
  git,      \* the process
  unsent,   \* the pieces of the answer git is writing
  stdout,   \* the pipe from git
  caller,   \* where BatchCatFile is
  answers,  \* the responses read so far, in order
  err,      \* the error it will return
  garbled   \* git has written something no header looks like

batchVars == <<store, written, buffer, writer, stdin, git, unsent, stdout,
               caller, answers, err, garbled>>

(* What `rev:path` is: a blob here, a tree (where the path is a file on     *)
(* the other side of the diff), nothing, a submodule's commit, or a blob   *)
(* that a promisor remote has yet to send.                                 *)
Kinds == {"blob", "tree", "missing", "submodule", "promised"}

ASSUME BatchAssumption == /\ Requests \in Nat
                          /\ Stores \subseteq [1..Requests -> Kinds]
                          /\ BufferCap \in Nat /\ PipeCap \in Nat

Absent     == 0
Content(r) == r    \* the bytes of request r's object, a tree's raw ones

Expected(r) == IF store[r] \in {"blob", "tree", "promised"} THEN Content(r)
                                                          ELSE Absent

Header(kind)  == [k |-> kind]
Body(r)       == [k |-> "content", r |-> r]

BatchInit ==
  /\ store \in Stores
  /\ written = 0
  /\ buffer = <<>>
  /\ writer = "unstarted"
  /\ stdin = <<>>
  /\ git = "unstarted"
  /\ unsent = <<>>
  /\ stdout = <<>>
  /\ caller = "start"
  /\ answers = <<>>
  /\ err = "none"
  /\ garbled = FALSE

(* cmd.Start and the writer goroutine; or the error of either pipe or of   *)
(* the start, with no process behind it.                                   *)
Start ==
  /\ caller = "start"
  /\ \/ /\ git' = "serving"
        /\ writer' = "writing"
        /\ caller' = "header"
        /\ UNCHANGED err
     \/ /\ caller' = "returned"
        /\ err' = "start"
        /\ UNCHANGED <<git, writer>>
  /\ UNCHANGED <<store, written, buffer, stdin, unsent, stdout, answers, garbled>>

-----------------------------------------------------------------------------
(* The writer. *)

Format ==
  /\ writer = "writing"
  /\ written < Requests
  /\ Len(buffer) < BufferCap
  /\ written' = written + 1
  /\ buffer' = Append(buffer, written + 1)
  /\ UNCHANGED <<store, writer, stdin, git, unsent, stdout, caller, answers, err,
                 garbled>>

(* A full buffer, or the last Flush, blocks until the pipe has room; with  *)
(* git gone it is EPIPE, and the goroutine ends.                           *)
Flush ==
  /\ writer = "writing"
  /\ buffer # <<>>
  /\ Len(buffer) = BufferCap \/ written = Requests
  /\ IF git = "serving"
       THEN /\ Len(stdin) < PipeCap
            /\ stdin' = Append(stdin, Head(buffer))
            /\ buffer' = Tail(buffer)
            /\ UNCHANGED writer
       ELSE /\ writer' = "failed"
            /\ UNCHANGED <<stdin, buffer>>
  /\ UNCHANGED <<store, written, git, unsent, stdout, caller, answers, err, garbled>>

CloseStdin ==
  /\ writer = "writing"
  /\ written = Requests
  /\ buffer = <<>>
  /\ writer' = "closed"
  /\ UNCHANGED <<store, written, buffer, stdin, git, unsent, stdout, caller, answers,
                 err, garbled>>

-----------------------------------------------------------------------------
(* git, as the code uses it.  It reads a request only once the answer      *)
(* before it is in the pipe.                                               *)

AnswerTo(r) ==
  IF store[r] \in {"blob", "tree"} THEN <<Header(store[r]), Body(r)>>
  ELSE IF store[r] = "submodule" THEN <<Header("submodule")>>
  ELSE <<Header("missing")>>    \* --batch does not fetch a promised blob

GitReads ==
  /\ git = "serving"
  /\ unsent = <<>>
  /\ stdin # <<>>
  /\ stdin' = Tail(stdin)
  /\ \/ unsent' = AnswerTo(Head(stdin)) /\ UNCHANGED garbled
     \/ unsent' = <<Header("garbled"), Body(Head(stdin))>> /\ garbled' = TRUE
  /\ UNCHANGED <<store, written, buffer, writer, git, stdout, caller, answers, err>>

GitWrites ==
  /\ git = "serving"
  /\ unsent # <<>>
  /\ Len(stdout) < PipeCap
  /\ stdout' = Append(stdout, Head(unsent))
  /\ unsent' = Tail(unsent)
  /\ UNCHANGED <<store, written, buffer, writer, stdin, git, caller, answers, err,
                 garbled>>

GitExits ==
  /\ git = "serving"
  /\ unsent = <<>> /\ stdin = <<>>
  /\ writer \in {"closed", "failed"}
  /\ git' = "exited"
  /\ UNCHANGED <<store, written, buffer, writer, stdin, unsent, stdout, caller, answers,
                 err, garbled>>

(* It crashes, or the context ends and exec.CommandContext kills it.       *)
GitDies ==
  /\ git = "serving"
  /\ git' = "killed"
  /\ UNCHANGED <<store, written, buffer, writer, stdin, unsent, stdout, caller, answers,
                 err, garbled>>

-----------------------------------------------------------------------------
(* The caller: readCatFileBatchResponses, then the rest of BatchCatFile.   *)

(* Mutant of Reading: every request is written before an answer is read.   *)
ReadingAfterWriting == caller \in {"header", "content"} /\ writer # "writing"

Reading == caller \in {"header", "content"}

(* Whatever the type in a header of three fields, bytes follow it.         *)
ReadHeader ==
  /\ Reading /\ caller = "header"
  /\ Len(answers) < Requests
  /\ stdout # <<>>
  /\ stdout' = Tail(stdout)
  /\ LET kind == Head(stdout).k
     IN  \/ /\ kind \in {"missing", "submodule"}
            /\ answers' = Append(answers, Absent)
            /\ UNCHANGED <<caller, err>>
         \/ /\ kind \in {"blob", "tree"}
            /\ caller' = "content"
            /\ UNCHANGED <<answers, err>>
         \/ /\ kind = "garbled"
            /\ caller' = "join"
            /\ err' = "read"
            /\ UNCHANGED answers
  /\ UNCHANGED <<store, written, buffer, writer, stdin, git, unsent, garbled>>

ReadContent ==
  /\ Reading /\ caller = "content"
  /\ stdout # <<>>
  /\ stdout' = Tail(stdout)
  /\ answers' = Append(answers, Content(Head(stdout).r))
  /\ caller' = "header"
  /\ UNCHANGED <<store, written, buffer, writer, stdin, git, unsent, err, garbled>>

ReadEOF ==
  /\ Reading
  /\ Len(answers) < Requests
  /\ stdout = <<>>
  /\ git # "serving"
  /\ caller' = "join"
  /\ err' = "read"
  /\ UNCHANGED <<store, written, buffer, writer, stdin, git, unsent, stdout, answers,
                 garbled>>

AllRead ==
  /\ caller = "header"
  /\ Len(answers) = Requests
  /\ caller' = "join"
  /\ UNCHANGED <<store, written, buffer, writer, stdin, git, unsent, stdout, answers, err,
                 garbled>>

WriterEnded == writer \in {"closed", "failed"}

(* writeErr := <-writeErrCh: whatever became of the answers. *)
Join ==
  /\ caller = "join"
  /\ WriterEnded
  /\ caller' = "wait"
  /\ UNCHANGED <<store, written, buffer, writer, stdin, git, unsent, stdout, answers, err,
                 garbled>>

(* cmd.Wait waits for the exit before it closes the pipes.  A read error   *)
(* comes before a write error, and that before git's own status.           *)
Wait ==
  /\ caller = "wait"
  /\ git \in {"exited", "killed"}
  /\ git' = "reaped"
  /\ err' = IF err # "none" THEN err
            ELSE IF writer = "failed" THEN "write"
            ELSE IF git = "killed" THEN "git"
            ELSE "none"
  /\ caller' = IF err' = "none" THEN "retry" ELSE "returned"
  /\ UNCHANGED <<store, written, buffer, writer, stdin, unsent, stdout, answers, garbled>>

(* Mutant of Misses: a submodule's path is known too. *)
MissesOfKnown == {i \in DOMAIN answers : answers[i] = Absent /\ store[i] # "missing"}

(* What git knows although --batch did not have it. *)
Misses == {i \in DOMAIN answers : answers[i] = Absent /\ store[i] = "promised"}

(* The singular cat-file fetches what the batch missed, or fails; and so   *)
(* may the look at the tree that tells a miss from an absent path.         *)
Retry ==
  /\ caller = "retry"
  /\ caller' = "returned"
  /\ \/ /\ answers' = [i \in DOMAIN answers |->
                         IF i \in Misses THEN Content(i) ELSE answers[i]]
        /\ UNCHANGED err
     \/ /\ \E i \in DOMAIN answers : answers[i] = Absent
        /\ err' = "retry"
        /\ UNCHANGED answers
  /\ UNCHANGED <<store, written, buffer, writer, stdin, git, unsent, stdout, garbled>>

WriterStep == Format \/ Flush \/ CloseStdin
GitStep    == GitReads \/ GitWrites \/ GitExits
CallerStep == \/ Start \/ ReadHeader \/ ReadContent \/ ReadEOF \/ AllRead
              \/ Join \/ Wait \/ Retry

BatchNext == WriterStep \/ GitStep \/ GitDies \/ CallerStep
=============================================================================
