-------------------------------- MODULE LogDir --------------------------------
(***************************************************************************)
(* The last part of uiom_cleanup: the directory "log" is made, cleaned and *)
(* filled with the files of the session (utils_make_dir,                   *)
(* utils_delete_files_from_dir, utils_copy_files_of_dir and                *)
(* utils_copy_file of utils.c).  Every call of the file system may fail,   *)
(* the fclose of a copy too, whose result nobody looks at.                 *)
(*                                                                         *)
(* A file is its session and its length in chunks: a chunk is what the     *)
(* stream of a copy may still hold back when it is closed.  readdir        *)
(* returns the entries of a directory in any order.                        *)
(***************************************************************************)
EXTENDS Integers, FiniteSets

CONSTANTS Names,    \* names of files and directories
          MaxChunks \* bound: chunks in a file

ASSUME ConstantsAssumption == IsFiniteSet(Names) /\ MaxChunks \in Nat

File(session, n) == [session |-> session, chunks |-> n]
Files   == [session : {"old", "new"}, chunks : 0..MaxChunks]
absent  == [session |-> "none", chunks |-> 0]
subdir  == [session |-> "dir", chunks |-> 0]
Entries == Files \cup {absent, subdir}

VARIABLES
    pc,      \* where uiom_cleanup is
    src,     \* the session's directory, log-<date>
    log,     \* the directory "log"
    exists,  \* there is a directory "log"
    todo,    \* entries the readdir under way has still to return
    file,    \* the file utils_copy_file copies
    pending, \* its chunks not yet copied
    skipped, \* entries a loop has passed over after a failed stat or readdir
    cut,     \* history: copies that lost their end when they were closed
    delRet,  \* what utils_delete_files_from_dir has returned
    copyRet  \* what utils_copy_files_of_dir has returned

vars == <<pc, src, log, exists, todo, file, pending, skipped, cut, delRet, copyRet>>

Pcs == {"make_dir", "open_log", "delete", "open_src", "check_dest", "copy",
        "open_files", "chunks", "done"}

Present(dir) == {n \in Names : dir[n] # absent}

IsFile(e) == e \in Files

\* The session's directory holds what the loggers have written to it; "log"
\* what the last session, or anybody else, has left there.
Init == /\ pc = "make_dir"
        /\ src \in [Names -> [session : {"new"}, chunks : 0..MaxChunks] \cup {absent, subdir}]
        /\ log \in [Names -> [session : {"old"}, chunks : {MaxChunks}] \cup {absent, subdir}]
        /\ exists \in BOOLEAN
        /\ ~exists => log = [n \in Names |-> absent]
        /\ todo = {}
        /\ file \in Names
        /\ pending = 0
        /\ skipped = {}
        /\ cut = {}
        /\ delRet = "OK"
        /\ copyRet = "OK"

Goes(from, to) == pc = from /\ pc' = to

-----------------------------------------------------------------------------

\* utils_make_dir("log"): what it returns is ignored.
MakeDir ==
    /\ Goes("make_dir", "open_log")
    /\ \/ exists' = TRUE
       \/ UNCHANGED exists
    /\ UNCHANGED <<src, log, todo, file, pending, skipped, cut, delRet, copyRet>>

\* utils_delete_files_from_dir
OpenLog ==
    /\ pc = "open_log"
    /\ \/ exists /\ pc' = "delete" /\ todo' = Present(log) /\ UNCHANGED delRet
       \/ pc' = "open_src" /\ delRet' = "OPEN_DIR_ERR" /\ UNCHANGED todo
    /\ UNCHANGED <<src, log, exists, file, pending, skipped, cut, copyRet>>

\* An entry whose status cannot be read is passed over, and a readdir that
\* fails looks like the end of the directory.
PassOver(at) ==
    /\ pc = at
    /\ \E S \in {todo} \cup {{n} : n \in todo} :
          todo' = todo \ S /\ skipped' = skipped \cup S
    /\ todo # {}
    /\ UNCHANGED <<pc, src, log, exists, file, pending, cut, delRet, copyRet>>

\* Fault: the loop ends at the first directory.
DeleteEntry_break ==
    /\ pc = "delete"
    /\ \E n \in todo :
          \/ log[n] = subdir /\ todo' = {} /\ UNCHANGED <<pc, log, delRet>>
          \/ /\ IsFile(log[n])
             /\ log' = [log EXCEPT ![n] = absent]
             /\ todo' = todo \ {n}
             /\ UNCHANGED <<pc, delRet>>
          \/ /\ IsFile(log[n])
             /\ pc' = "open_src"
             /\ delRet' = "DELETE_FILE_ERR"
             /\ UNCHANGED <<log, todo>>
    /\ UNCHANGED <<src, exists, file, pending, skipped, cut, copyRet>>

\* Directories are left alone, files unlinked up to the first failure.
DeleteEntry ==
    /\ pc = "delete"
    /\ \E n \in todo :
          \/ log[n] = subdir /\ todo' = todo \ {n} /\ UNCHANGED <<pc, log, delRet>>
          \/ /\ IsFile(log[n])
             /\ log' = [log EXCEPT ![n] = absent]
             /\ todo' = todo \ {n}
             /\ UNCHANGED <<pc, delRet>>
          \/ /\ IsFile(log[n])
             /\ pc' = "open_src"
             /\ delRet' = "DELETE_FILE_ERR"
             /\ UNCHANGED <<log, todo>>
    /\ UNCHANGED <<src, exists, file, pending, skipped, cut, copyRet>>

Deleted ==
    /\ Goes("delete", "open_src")
    /\ todo = {}
    /\ UNCHANGED <<src, log, exists, todo, file, pending, skipped, cut, delRet, copyRet>>

-----------------------------------------------------------------------------
(* utils_copy_files_of_dir                                                 *)

Return(code) == pc' = "done" /\ copyRet' = code

OpenSrc ==
    /\ pc = "open_src"
    /\ \/ /\ pc' = "check_dest"
          /\ todo' = Present(src)
          /\ skipped' = {}
          /\ UNCHANGED copyRet
       \/ Return("OPEN_DIR_ERR") /\ UNCHANGED <<todo, skipped>>
    /\ UNCHANGED <<src, log, exists, file, pending, cut, delRet>>

\* A destination that cannot be opened is made.
CheckDest ==
    /\ pc = "check_dest"
    /\ \/ exists /\ pc' = "copy" /\ UNCHANGED <<exists, copyRet>>
       \/ ~exists /\ exists' = TRUE /\ pc' = "copy" /\ UNCHANGED copyRet
       \/ Return("MAKE_DIR_ERR") /\ UNCHANGED exists
    /\ UNCHANGED <<src, log, todo, file, pending, skipped, cut, delRet>>

\* Fault: the directory is read from its beginning after every file.
NextEntry_again ==
    /\ pc = "copy"
    /\ \E n \in todo : IF src[n] = subdir
                        THEN todo' = todo \ {n} /\ UNCHANGED <<pc, file>>
                        ELSE pc' = "open_files" /\ file' = n /\ UNCHANGED todo
    /\ UNCHANGED <<src, log, exists, pending, skipped, cut, delRet, copyRet>>

NextEntry ==
    /\ pc = "copy"
    /\ \E n \in todo :
          /\ todo' = todo \ {n}
          /\ IF src[n] = subdir
               THEN UNCHANGED <<pc, file>>
               ELSE pc' = "open_files" /\ file' = n
    /\ UNCHANGED <<src, log, exists, pending, skipped, cut, delRet, copyRet>>

\* Fault: "ab" keeps what a file that could not be deleted holds.
OpenFiles_append ==
    /\ pc = "open_files"
    /\ \/ /\ log[file] # subdir
          /\ log' = [log EXCEPT ![file] = File("new", @.chunks)]
          /\ pending' = src[file].chunks
          /\ pc' = "chunks"
          /\ UNCHANGED copyRet
       \/ Return("COPY_FILE_ERR") /\ UNCHANGED <<log, pending>>
    /\ UNCHANGED <<src, exists, todo, file, skipped, cut, delRet>>

\* utils_copy_file: "wb" truncates the destination, and cannot open a
\* directory.
OpenFiles ==
    /\ pc = "open_files"
    /\ \/ /\ log[file] # subdir
          /\ log' = [log EXCEPT ![file] = File("new", 0)]
          /\ pending' = src[file].chunks
          /\ pc' = "chunks"
          /\ UNCHANGED copyRet
       \/ Return("COPY_FILE_ERR") /\ UNCHANGED <<log, pending>>
    /\ UNCHANGED <<src, exists, todo, file, skipped, cut, delRet>>

\* Fault: the loop does not end with the file.
CopyChunk_endless ==
    /\ pc = "chunks"
    /\ pending > -2
    /\ log' = [log EXCEPT ![file].chunks = @ + 1]
    /\ pending' = pending - 1
    /\ UNCHANGED <<pc, src, exists, todo, file, skipped, cut, delRet, copyRet>>

\* A chunk is read and written.
CopyChunk ==
    /\ pc = "chunks"
    /\ pending > 0
    /\ log' = [log EXCEPT ![file].chunks = @ + 1]
    /\ pending' = pending - 1
    /\ UNCHANGED <<pc, src, exists, todo, file, skipped, cut, delRet, copyRet>>

\* Fault: a file that could not be copied is passed over.
CopyFails_continue ==
    /\ Goes("chunks", "copy")
    /\ UNCHANGED <<src, log, exists, todo, file, pending, skipped, cut, delRet, copyRet>>

\* The fclose of the copy cannot write what the stream has held back.
LosesEnd ==
    /\ log[file].chunks > 0
    /\ log' = [log EXCEPT ![file].chunks = @ - 1]

\* fread or fwrite fails: the copy is closed and the loop over the files ends,
\* too.
CopyFails ==
    /\ pc = "chunks"
    /\ Return("COPY_FILE_ERR")
    /\ UNCHANGED log \/ LosesEnd
    /\ UNCHANGED <<src, exists, todo, file, pending, skipped, cut, delRet>>

\* Fault: a short read counts as the end of the file.
FileCopied_short ==
    /\ Goes("chunks", "copy")
    /\ pending <= 1
    /\ UNCHANGED <<src, log, exists, todo, file, pending, skipped, cut, delRet, copyRet>>

\* UTILS_OK is returned whatever fclose says, and the loop goes on.
FileCopied ==
    /\ Goes("chunks", "copy")
    /\ pending = 0
    /\ \/ UNCHANGED <<log, cut>>
       \/ LosesEnd /\ cut' = cut \cup {file}
    /\ UNCHANGED <<src, exists, todo, file, pending, skipped, delRet, copyRet>>

AllCopied ==
    /\ pc = "copy"
    /\ todo = {}
    /\ Return("OK")
    /\ UNCHANGED <<src, log, exists, todo, file, pending, skipped, cut, delRet>>

Finished == pc = "done" /\ UNCHANGED vars

-----------------------------------------------------------------------------

Next == \/ MakeDir \/ OpenLog
        \/ PassOver("delete") \/ DeleteEntry \/ Deleted
        \/ OpenSrc \/ CheckDest
        \/ PassOver("copy") \/ NextEntry
        \/ OpenFiles \/ CopyChunk \/ CopyFails \/ FileCopied \/ AllCopied
        \/ Finished

Spec == Init /\ [][Next]_vars

\* The clean-up is sequential code that nothing holds up.
FairSpec == Spec /\ WF_vars(Next)

-----------------------------------------------------------------------------
(* Properties.                                                             *)

SrcFiles == {n \in Names : IsFile(src[n])}

\* Every variable has its type.
TypeOK ==
    /\ pc \in Pcs
    /\ src \in [Names -> Entries]
    /\ log \in [Names -> Entries]
    /\ exists \in BOOLEAN
    /\ todo \subseteq Names
    /\ file \in Names
    /\ pending \in 0..MaxChunks
    /\ skipped \subseteq Names
    /\ cut \subseteq Names
    /\ delRet \in {"OK", "OPEN_DIR_ERR", "DELETE_FILE_ERR"}
    /\ copyRet \in {"OK", "OPEN_DIR_ERR", "MAKE_DIR_ERR", "COPY_FILE_ERR"}

\* A clean-up that reports no error and passed nothing over has emptied "log"
\* of files.
CleanedUp ==
    pc = "open_src" /\ delRet = "OK" /\ skipped = {}
       => \A n \in Names : ~IsFile(log[n])

\* The copy of a file that lost its end.
WithoutEnd(f) == File("new", f.chunks - 1)

\* A copy that reports no error has copied every file it has not passed over,
\* to the last chunk and over whatever had that name, except that a copy whose
\* fclose failed (utils.c:437) lacks its end, and nothing but its end: that
\* failure is reported as UTILS_OK.
OkMeansCopied ==
    pc = "done" /\ copyRet = "OK"
       => \A n \in SrcFiles \ skipped :
             log[n] = IF n \in cut THEN WithoutEnd(src[n]) ELSE src[n]

\* Each truncated copy is one of a failure: at most one, the one it was working
\* on, of an error that is reported; any number of closings that failed, which
\* are not reported, but each took no more than the end.  Every other file of
\* the session in "log" is whole.
TruncatedByFailure ==
    \A n \in Names :
       log[n].session = "new" /\ log[n] # src[n]
          => \/ n = file /\ (pc = "chunks" \/ copyRet = "COPY_FILE_ERR")
             \/ n \in cut /\ log[n] = WithoutEnd(src[n])

\* The chunks of the session's files in a directory, and of a file with any
\* other name nothing.
OfSession(dir) ==
    [n \in Names |-> IF dir[n].session = "new" THEN dir[n].chunks ELSE 0]

\* A copy that reported no error, passed nothing over, and whose files could
\* all be closed.
Complete == pc = "done" /\ copyRet = "OK" /\ skipped = {} /\ cut = {}

Session == INSTANCE LogSession
          WITH Streams  <- Names,
               phase    <- "closed",
               recorded <- OfSession(src),
               logDir   <- IF pc \in {"make_dir", "open_log", "delete"} THEN "previous"
                           ELSE IF pc # "done" THEN "cleared"
                           ELSE IF Complete THEN "complete"
                           ELSE "partial",
               copied   <- IF Complete THEN OfSession(log) ELSE [n \in Names |-> 0]

\* The clean-up is what LogSession, and with it Tflog, takes as two steps.
\* Nothing is published before the clearing is over; and unless an error was
\* reported, an entry passed over or a closing failed, it is exactly what the
\* session recorded, file by file.
PublishesSession == [][Session!Clear \/ Session!Publish]_(Session!svars)

\* The clean-up comes to an end, whatever fails.
Ends == <>(pc = "done")
=============================================================================
