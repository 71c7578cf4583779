----------------------------- MODULE LogDirProofs -----------------------------
(***************************************************************************)
(* What the clean-up of the directory "log" reports is true, for any       *)
(* names, file lengths and failures: a clean-up without error has emptied  *)
(* it, a copy without error is complete but for the ends that failed       *)
(* closings lost, and every truncated file is due to one failure.          *)
(***************************************************************************)
EXTENDS LogDir, TLAPS

Copying == {"check_dest", "copy", "open_files", "chunks"}

\* An error code is set when the function that reports it returns.
Codes ==
    /\ pc \in {"make_dir", "open_log", "delete"} => delRet = "OK"
    /\ pc \in {"make_dir", "open_log"} => skipped = {}
    /\ pc \in {"make_dir", "open_log", "delete", "open_src"} => cut = {}
    /\ pc # "done" => copyRet = "OK"

\* Entries of the session's directory are the session's.
SrcIsNew == \A n \in Names : IsFile(src[n]) => src[n].session = "new"

\* The loop of the deletion has before it what it has not deleted.
Deleting ==
    pc = "delete" => \A n \in Names : IsFile(log[n]) => n \in todo \cup skipped

\* The loop of the copy has before it entries that exist, ...
TodoExists == pc \in Copying => \A n \in todo : src[n] # absent

\* ... and is at work on a file.
FileExists == pc \in {"open_files", "chunks"} => IsFile(src[file])

\* A file is copied once: what has lost its end is neither before the loop nor
\* at work.
CutIsOver ==
    /\ pc \in Copying => cut \cap todo = {}
    /\ pc \in {"open_files", "chunks"} => file \notin cut /\ file \notin todo

\* The copy under way has as many chunks as are no longer pending.
Partial == pc = "chunks" => log[file] = File("new", src[file].chunks - pending)

\* What is neither before it nor passed over has been copied, up to an end that
\* was lost.
CopyOf(n) == IF n \in cut THEN WithoutEnd(src[n]) ELSE src[n]

CopiedSoFar ==
    pc \in Copying =>
       \A n \in SrcFiles :
          \/ n \in todo \cup skipped
          \/ n = file /\ pc \in {"open_files", "chunks"}
          \/ log[n] = CopyOf(n)

LogDirInv ==
    /\ TypeOK
    /\ Codes
    /\ SrcIsNew
    /\ Deleting
    /\ TodoExists
    /\ FileExists
    /\ CutIsOver
    /\ Partial
    /\ CopiedSoFar
    /\ CleanedUp
    /\ OkMeansCopied
    /\ TruncatedByFailure

-----------------------------------------------------------------------------

\* An entry is a file, a directory or not there.
LEMMA EntryKinds ==
  /\ \A e : IsFile(e) => e # absent /\ e # subdir
  /\ \A e \in Entries : IsFile(e) \/ e = absent \/ e = subdir
  /\ absent \in Entries /\ absent.session # "new"
BY DEF IsFile, Files, Entries, absent, subdir

\* A copy is a file, and its session the new one.
LEMMA CopyIsFile ==
  ASSUME NEW n \in 0..MaxChunks
  PROVE  /\ File("new", n) \in Entries
         /\ IsFile(File("new", n))
         /\ File("new", n).session = "new"
         /\ File("new", n).chunks = n
BY DEF File, IsFile, Files, Entries

\* A chunk more.
LEMMA OneMore ==
  ASSUME NEW f, NEW n, f = File("new", n), n \in Int
  PROVE  [f EXCEPT !.chunks = @ + 1] = File("new", n + 1)
BY DEF File

\* A chunk less.
LEMMA OneLess ==
  ASSUME NEW f, NEW n, f = File("new", n), n \in Int
  PROVE  [f EXCEPT !.chunks = @ - 1] = File("new", n - 1)
BY DEF File

\* A file of the new session is known by its length.
LEMMA FileIsItsLength ==
  ASSUME NEW f, IsFile(f), f.session = "new"
  PROVE  /\ f = File("new", f.chunks)
         /\ f.chunks \in 0..MaxChunks
BY DEF File, IsFile, Files

\* What a failed closing leaves of the copy at work: all but its end.
LEMMA EndLost ==
  ASSUME log \in [Names -> Entries], file \in Names, LosesEnd,
         log[file].session = "new"
  PROVE  /\ log' \in [Names -> Entries]
         /\ \A n \in Names \ {file} : log'[n] = log[n]
         /\ log'[file] = WithoutEnd(log[file])
         /\ log'[file].session = "new"
<1>1. /\ IsFile(log[file])
      /\ log[file] = File("new", log[file].chunks)
      /\ log[file].chunks \in 1..MaxChunks
  <2>1. IsFile(log[file])
    BY EntryKinds DEF LosesEnd, absent, subdir
  <2>2. log[file] = File("new", log[file].chunks) /\ log[file].chunks \in 0..MaxChunks
    BY <2>1, FileIsItsLength
  <2> QED
    BY <2>1, <2>2, ConstantsAssumption DEF LosesEnd
<1>2. log[file].chunks - 1 \in 0..MaxChunks /\ log[file].chunks \in Int
  BY <1>1, ConstantsAssumption
<1>3. [log[file] EXCEPT !.chunks = @ - 1] = WithoutEnd(log[file])
  BY <1>1, <1>2, OneLess DEF WithoutEnd
<1>4. WithoutEnd(log[file]) \in Entries /\ WithoutEnd(log[file]).session = "new"
  BY <1>2, CopyIsFile DEF WithoutEnd
<1>5. log' = [log EXCEPT ![file] = WithoutEnd(log[file])]
  BY <1>3 DEF LosesEnd
<1> QED
  BY <1>4, <1>5

\* The directory is made, or not.
LEMMA MakeDirStep == LogDirInv /\ MakeDir => LogDirInv'
<1> SUFFICES ASSUME LogDirInv, MakeDir
             PROVE  LogDirInv'
  OBVIOUS
<1> USE DEF LogDirInv
<1>1. TypeOK'
  BY DEF MakeDir, Goes, TypeOK, Pcs
<1>2. Codes' /\ SrcIsNew'
  BY DEF MakeDir, Goes, SrcIsNew, Codes
<1>3. Deleting'
  BY DEF MakeDir, Goes, Deleting
<1>4. TodoExists' /\ FileExists' /\ CutIsOver'
  BY DEF MakeDir, Goes, Copying, TodoExists, FileExists, CutIsOver, Codes
<1>5. Partial' /\ CopiedSoFar'
  BY DEF MakeDir, Goes, Copying, Partial, CopyOf, CopiedSoFar
<1>6. CleanedUp' /\ OkMeansCopied'
  BY DEF MakeDir, Goes, CleanedUp, OkMeansCopied
<1>7. TruncatedByFailure'
  BY DEF MakeDir, Goes, TruncatedByFailure
<1> QED
  BY <1>1, <1>2, <1>3, <1>4, <1>5, <1>6, <1>7

\* What is in "log" is before the loop.
LEMMA OpenLogStep == LogDirInv /\ OpenLog => LogDirInv'
<1> SUFFICES ASSUME LogDirInv, OpenLog
             PROVE  LogDirInv'
  OBVIOUS
<1> USE DEF LogDirInv
<1>1. TypeOK'
  BY DEF OpenLog, Present, TypeOK, Pcs
<1>2. Codes' /\ SrcIsNew'
  BY DEF OpenLog, SrcIsNew, Codes
<1>3. Deleting'
  BY EntryKinds DEF OpenLog, Present, Deleting
<1>4. TodoExists' /\ FileExists' /\ CutIsOver'
  BY DEF OpenLog, Copying, TodoExists, FileExists, CutIsOver, Codes
<1>5. Partial' /\ CopiedSoFar'
  BY DEF OpenLog, Copying, Partial, CopyOf, CopiedSoFar
<1>6. CleanedUp' /\ OkMeansCopied'
  BY DEF OpenLog, CleanedUp, OkMeansCopied
<1>7. TruncatedByFailure'
  BY DEF OpenLog, TruncatedByFailure
<1> QED
  BY <1>1, <1>2, <1>3, <1>4, <1>5, <1>6, <1>7

\* An entry passed over is remembered as such.
LEMMA PassOverDeleteStep == LogDirInv /\ PassOver("delete") => LogDirInv'
<1> SUFFICES ASSUME LogDirInv, PassOver("delete")
             PROVE  LogDirInv'
  OBVIOUS
<1> USE DEF LogDirInv
<1>1. TypeOK'
  BY DEF PassOver, TypeOK
<1>2. Codes' /\ SrcIsNew'
  BY DEF PassOver, SrcIsNew, Codes
<1>3. Deleting'
  BY DEF PassOver, Deleting
<1>4. TodoExists' /\ FileExists' /\ CutIsOver'
  BY DEF PassOver, TodoExists, FileExists, CutIsOver, Copying, Codes
<1>5. Partial' /\ CopiedSoFar'
  BY DEF PassOver, Partial, CopyOf, CopiedSoFar, SrcFiles
<1>6. CleanedUp' /\ OkMeansCopied'
  BY DEF PassOver, CleanedUp, OkMeansCopied
<1>7. TruncatedByFailure'
  BY DEF PassOver, TruncatedByFailure
<1> QED
  BY <1>1, <1>2, <1>3, <1>4, <1>5, <1>6, <1>7

\* A file is deleted, a directory left alone.
LEMMA DeleteEntryStep == LogDirInv /\ DeleteEntry => LogDirInv'
<1> SUFFICES ASSUME LogDirInv, DeleteEntry
             PROVE  LogDirInv'
  OBVIOUS
<1> USE DEF LogDirInv
<1>0. PICK n \in todo : log' = log \/ log' = [log EXCEPT ![n] = absent]
  BY DEF DeleteEntry
<1>1. TypeOK'
  <2>1. log' \in [Names -> Entries]
    BY <1>0, EntryKinds DEF TypeOK
  <2> QED
    BY <2>1 DEF DeleteEntry, TypeOK, Pcs
<1>2. Codes' /\ SrcIsNew'
  BY DEF DeleteEntry, SrcIsNew, Codes
<1>3. Deleting'
  BY EntryKinds DEF DeleteEntry, TypeOK, Deleting
<1>4. TodoExists' /\ FileExists' /\ CutIsOver'
  BY DEF DeleteEntry, Copying, TodoExists, FileExists, CutIsOver, Codes
<1>5. Partial' /\ CopiedSoFar'
  BY DEF DeleteEntry, Copying, Partial, CopyOf, CopiedSoFar
<1>6. CleanedUp' /\ OkMeansCopied'
  BY DEF DeleteEntry, CleanedUp, OkMeansCopied
<1>7. TruncatedByFailure'
  <2>1. \A m \in Names : log'[m] = log[m] \/ log'[m] = absent
    BY <1>0 DEF TypeOK
  <2> QED
    BY <2>1, EntryKinds DEF DeleteEntry, TruncatedByFailure, Codes
<1> QED
  BY <1>1, <1>2, <1>3, <1>4, <1>5, <1>6, <1>7

\* With nothing before the loop no file is left.
LEMMA DeletedStep == LogDirInv /\ Deleted => LogDirInv'
<1> SUFFICES ASSUME LogDirInv, Deleted
             PROVE  LogDirInv'
  OBVIOUS
<1> USE DEF LogDirInv
<1>1. TypeOK'
  BY DEF Deleted, Goes, TypeOK, Pcs
<1>2. Codes' /\ SrcIsNew'
  BY DEF Deleted, Goes, SrcIsNew, Codes
<1>3. Deleting'
  BY DEF Deleted, Goes, Deleting
<1>4. TodoExists' /\ FileExists' /\ CutIsOver'
  BY DEF Deleted, Goes, TodoExists, FileExists, CutIsOver, Copying, Codes
<1>5. Partial' /\ CopiedSoFar'
  BY DEF Deleted, Goes, Copying, Partial, CopyOf, CopiedSoFar
<1>6. CleanedUp' /\ OkMeansCopied'
  BY DEF Deleted, Goes, Deleting, CleanedUp, OkMeansCopied
<1>7. TruncatedByFailure'
  BY DEF Deleted, Goes, TruncatedByFailure
<1> QED
  BY <1>1, <1>2, <1>3, <1>4, <1>5, <1>6, <1>7

\* What is in the session's directory is before the loop.
LEMMA OpenSrcStep == LogDirInv /\ OpenSrc => LogDirInv'
<1> SUFFICES ASSUME LogDirInv, OpenSrc
             PROVE  LogDirInv'
  OBVIOUS
<1> USE DEF LogDirInv
<1>1. TypeOK'
  BY DEF OpenSrc, Present, Return, TypeOK, Pcs
<1>2. Codes' /\ SrcIsNew'
  BY DEF OpenSrc, Return, SrcIsNew, Codes
<1>3. Deleting'
  BY DEF OpenSrc, Return, Deleting
<1>4. TodoExists' /\ FileExists' /\ CutIsOver'
  BY DEF OpenSrc, Present, Return, TodoExists, FileExists, Copying, CutIsOver, Codes
<1>5. Partial' /\ CopiedSoFar'
  BY EntryKinds DEF OpenSrc, Present, Return, Partial, CopyOf, CopiedSoFar, Copying, SrcFiles
<1>6. CleanedUp' /\ OkMeansCopied'
  BY DEF OpenSrc, Return, CleanedUp, OkMeansCopied
<1>7. TruncatedByFailure'
  BY DEF OpenSrc, TruncatedByFailure, Codes
<1> QED
  BY <1>1, <1>2, <1>3, <1>4, <1>5, <1>6, <1>7

\* The destination exists, or nothing is copied.
LEMMA CheckDestStep == LogDirInv /\ CheckDest => LogDirInv'
<1> SUFFICES ASSUME LogDirInv, CheckDest
             PROVE  LogDirInv'
  OBVIOUS
<1> USE DEF LogDirInv
<1>1. TypeOK'
  BY DEF CheckDest, Return, TypeOK, Pcs
<1>2. Codes' /\ SrcIsNew'
  BY DEF CheckDest, Return, SrcIsNew, Codes
<1>3. Deleting'
  BY DEF CheckDest, Return, Deleting
<1>4. TodoExists' /\ FileExists' /\ CutIsOver'
  BY DEF CheckDest, Return, Copying, TodoExists, FileExists, CutIsOver, Codes
<1>5. Partial' /\ CopiedSoFar'
  BY DEF CheckDest, Return, Copying, Partial, CopyOf, CopiedSoFar, SrcFiles
<1>6. CleanedUp' /\ OkMeansCopied'
  BY DEF CheckDest, Return, CleanedUp, OkMeansCopied
<1>7. TruncatedByFailure'
  BY DEF CheckDest, TruncatedByFailure, Codes
<1> QED
  BY <1>1, <1>2, <1>3, <1>4, <1>5, <1>6, <1>7

\* An entry passed over is remembered as such.
LEMMA PassOverCopyStep == LogDirInv /\ PassOver("copy") => LogDirInv'
<1> SUFFICES ASSUME LogDirInv, PassOver("copy")
             PROVE  LogDirInv'
  OBVIOUS
<1> USE DEF LogDirInv
<1>1. TypeOK'
  BY DEF PassOver, TypeOK
<1>2. Codes' /\ SrcIsNew'
  BY DEF PassOver, SrcIsNew, Codes
<1>3. Deleting'
  BY DEF PassOver, Deleting
<1>4. TodoExists' /\ FileExists' /\ CutIsOver'
  BY DEF PassOver, TodoExists, FileExists, CutIsOver, Copying, Codes
<1>5. Partial' /\ CopiedSoFar'
  BY DEF PassOver, Partial, CopyOf, CopiedSoFar, SrcFiles
<1>6. CleanedUp' /\ OkMeansCopied'
  BY DEF PassOver, CleanedUp, OkMeansCopied
<1>7. TruncatedByFailure'
  BY DEF PassOver, TruncatedByFailure
<1> QED
  BY <1>1, <1>2, <1>3, <1>4, <1>5, <1>6, <1>7

\* The loop goes on with a file.
LEMMA NextEntryStep == LogDirInv /\ NextEntry => LogDirInv'
<1> SUFFICES ASSUME LogDirInv, NextEntry
             PROVE  LogDirInv'
  OBVIOUS
<1> USE DEF LogDirInv
<1>1. TypeOK'
  BY DEF NextEntry, TypeOK, Pcs
<1>2. Codes' /\ SrcIsNew'
  BY DEF NextEntry, SrcIsNew, Codes
<1>3. Deleting'
  BY DEF NextEntry, Deleting
<1>4. TodoExists' /\ FileExists' /\ CutIsOver'
  BY EntryKinds DEF NextEntry, TypeOK, Copying, TodoExists, FileExists, CutIsOver, Codes
<1>5. Partial' /\ CopiedSoFar'
  BY EntryKinds DEF NextEntry, Partial, CopyOf, CopiedSoFar, Copying, SrcFiles, TypeOK
<1>6. CleanedUp' /\ OkMeansCopied'
  BY DEF NextEntry, CleanedUp, OkMeansCopied
<1>7. TruncatedByFailure'
  BY DEF NextEntry, TruncatedByFailure, Codes
<1> QED
  BY <1>1, <1>2, <1>3, <1>4, <1>5, <1>6, <1>7

\* The destination is empty.
LEMMA OpenFilesStep == LogDirInv /\ OpenFiles => LogDirInv'
<1> SUFFICES ASSUME LogDirInv, OpenFiles
             PROVE  LogDirInv'
  OBVIOUS
<1> USE DEF LogDirInv
<1>0. /\ pc = "open_files" /\ file \in Names
      /\ src[file] = File("new", src[file].chunks)
      /\ src[file].chunks \in 0..MaxChunks
  BY FileIsItsLength DEF OpenFiles, FileExists, SrcIsNew, TypeOK
<1>01. /\ File("new", 0) \in Entries
       /\ 0 \in 0..MaxChunks
  BY CopyIsFile, ConstantsAssumption
<1>1. TypeOK'
  <2>1. log' \in [Names -> Entries]
    BY <1>0, <1>01 DEF OpenFiles, TypeOK
  <2> QED
    BY <1>0, <2>1 DEF OpenFiles, Return, TypeOK, Pcs
<1>2. Codes' /\ SrcIsNew'
  BY DEF OpenFiles, Return, SrcIsNew, Codes
<1>3. Deleting'
  BY DEF OpenFiles, Return, Deleting
<1>4. TodoExists' /\ FileExists' /\ CutIsOver'
  BY DEF OpenFiles, Return, Copying, TodoExists, FileExists, CutIsOver, Codes
<1>5. Partial' /\ CopiedSoFar'
  <2>1. CASE pc' = "done"
    BY <2>1 DEF Partial, CopyOf, CopiedSoFar, Copying
  <2>2. CASE pc' = "chunks"
    <3>1. /\ log' = [log EXCEPT ![file] = File("new", 0)]
          /\ pending' = src[file].chunks
          /\ UNCHANGED <<src, todo, file, skipped>>
      BY <2>2 DEF OpenFiles, Return
    <3>2. log'[file] = File("new", 0) /\ \A n \in Names \ {file} : log'[n] = log[n]
      BY <1>0, <3>1 DEF TypeOK
    <3>3. src[file].chunks - src[file].chunks = 0
      BY <1>0
    <3>4. Partial'
      BY <3>1, <3>2, <3>3 DEF Partial
    <3>5. CopiedSoFar'
      <4>1. cut' = cut
        BY DEF OpenFiles
      <4> QED
        BY <1>0, <2>2, <3>1, <3>2, <4>1 DEF CopiedSoFar, CopyOf, Copying, SrcFiles
    <3> QED
      BY <3>4, <3>5
  <2> QED
    BY <2>1, <2>2 DEF OpenFiles, Return
<1>6. CleanedUp' /\ OkMeansCopied'
  BY DEF OpenFiles, Return, CleanedUp, OkMeansCopied
<1>7. TruncatedByFailure'
  BY DEF OpenFiles, Return, TruncatedByFailure, TypeOK, Codes
<1> QED
  BY <1>1, <1>2, <1>3, <1>4, <1>5, <1>6, <1>7

\* A chunk is copied.
LEMMA CopyChunkStep == LogDirInv /\ CopyChunk => LogDirInv'
<1> SUFFICES ASSUME LogDirInv, CopyChunk
             PROVE  LogDirInv'
  OBVIOUS
<1> USE DEF LogDirInv
<1>0. /\ pc = "chunks" /\ file \in Names
      /\ src[file].chunks \in 0..MaxChunks
      /\ pending \in 0..MaxChunks /\ pending > 0
      /\ UNCHANGED <<pc, src, exists, todo, file, skipped, cut, delRet, copyRet>>
  BY FileIsItsLength DEF CopyChunk, FileExists, SrcIsNew, TypeOK
<1>01. /\ log[file] = File("new", src[file].chunks - pending)
       /\ [log[file] EXCEPT !.chunks = @ + 1] = File("new", src[file].chunks - pending + 1)
  BY <1>0, OneMore, ConstantsAssumption DEF Partial
<1>02. /\ log'[file] = File("new", src[file].chunks - pending')
       /\ log' = [log EXCEPT ![file] = log'[file]]
       /\ \A n \in Names \ {file} : log'[n] = log[n]
  <2>1. src[file].chunks - pending + 1 = src[file].chunks - pending'
    BY <1>0, ConstantsAssumption DEF CopyChunk
  <2> QED
    BY <1>0, <1>01, <2>1 DEF CopyChunk, TypeOK
<1>03. log[file].chunks \in Int /\ pending' \in 0..MaxChunks
  BY <1>0, <1>01, ConstantsAssumption DEF File, CopyChunk
<1>1. TypeOK'
  <2>1. src[file].chunks - pending' \in 0..MaxChunks
    <3>1. pending > src[file].chunks => log[file] \notin Entries
      BY <1>0, <1>01, ConstantsAssumption DEF File, Entries, Files, absent, subdir
    <3> QED
      BY <1>0, <3>1, ConstantsAssumption DEF CopyChunk, TypeOK
  <2>2. log' \in [Names -> Entries]
    BY <1>0, <1>02, <2>1, CopyIsFile DEF TypeOK
  <2> QED
    BY <1>0, <1>03, <2>2 DEF TypeOK
<1>2. Codes' /\ SrcIsNew'
  BY <1>0 DEF SrcIsNew, Codes
<1>3. Deleting'
  BY <1>0 DEF Deleting
<1>4. TodoExists' /\ FileExists' /\ CutIsOver'
  BY <1>0 DEF Copying, TodoExists, FileExists, CutIsOver, Codes
<1>5. Partial' /\ CopiedSoFar'
  BY <1>0, <1>02 DEF Partial, CopyOf, CopiedSoFar, Copying, SrcFiles
<1>6. CleanedUp' /\ OkMeansCopied'
  BY <1>0 DEF CleanedUp, OkMeansCopied
<1>7. TruncatedByFailure'
  BY <1>0, <1>02 DEF TruncatedByFailure
<1> QED
  BY <1>1, <1>2, <1>3, <1>4, <1>5, <1>6, <1>7

\* What is truncated is the file at work.
LEMMA CopyFailsStep == LogDirInv /\ CopyFails => LogDirInv'
<1> SUFFICES ASSUME LogDirInv, CopyFails
             PROVE  LogDirInv'
  OBVIOUS
<1> USE DEF LogDirInv
<1>0. UNCHANGED log \/ LosesEnd
  BY DEF CopyFails
<1>01. /\ log' \in [Names -> Entries]
       /\ \A n \in Names \ {file} : log'[n] = log[n]
  <2>1. file \in Names /\ log \in [Names -> Entries]
    BY DEF TypeOK
  <2>2. CASE LosesEnd
    <3>1. log[file].session = "new"
      BY DEF CopyFails, Partial, File
    <3> QED
      BY <2>1, <2>2, <3>1, EndLost
  <2> QED
    BY <1>0, <2>1, <2>2
<1>1. TypeOK'
  BY <1>01 DEF CopyFails, Return, TypeOK, Pcs
<1>2. Codes' /\ SrcIsNew'
  BY DEF CopyFails, Return, SrcIsNew, Codes
<1>3. Deleting'
  BY DEF CopyFails, Return, Deleting
<1>4. TodoExists' /\ FileExists' /\ CutIsOver'
  BY DEF CopyFails, Return, Copying, TodoExists, FileExists, CutIsOver, Codes
<1>5. Partial' /\ CopiedSoFar'
  BY DEF CopyFails, Return, Partial, CopyOf, CopiedSoFar, Copying, SrcFiles
<1>6. CleanedUp' /\ OkMeansCopied'
  BY DEF CopyFails, Return, CleanedUp, OkMeansCopied
<1>7. TruncatedByFailure'
  BY <1>01 DEF CopyFails, Return, TruncatedByFailure
<1> QED
  BY <1>1, <1>2, <1>3, <1>4, <1>5, <1>6, <1>7

\* Nothing is pending: the copy is whole, or its end is lost as it is closed.
LEMMA FileCopiedStep == LogDirInv /\ FileCopied => LogDirInv'
<1> SUFFICES ASSUME LogDirInv, FileCopied
             PROVE  LogDirInv'
  OBVIOUS
<1> USE DEF LogDirInv
<1>0. log[file] = src[file]
  <2>1. src[file].chunks \in 0..MaxChunks /\ src[file] = File("new", src[file].chunks)
    BY FileIsItsLength DEF FileCopied, Goes, FileExists, SrcIsNew, TypeOK
  <2> QED
    BY <2>1, ConstantsAssumption DEF FileCopied, Goes, Partial
<1>01. /\ pc = "chunks" /\ pc' = "copy" /\ file \in Names
       /\ log \in [Names -> Entries] /\ cut \subseteq Names
       /\ UNCHANGED <<src, exists, todo, file, pending, skipped, delRet, copyRet>>
  BY DEF FileCopied, Goes, TypeOK
\* The copy at work is whole, or it has lost its end and is one of those.
<1>02. /\ log' \in [Names -> Entries]
       /\ \A n \in Names \ {file} : log'[n] = log[n] /\ (n \in cut' <=> n \in cut)
       /\ log'[file] = IF file \in cut' THEN WithoutEnd(src[file]) ELSE src[file]
       /\ cut' \subseteq cut \cup {file}
  <2>1. CASE UNCHANGED <<log, cut>>
    BY <1>0, <1>01, <2>1 DEF CutIsOver
  <2>2. CASE LosesEnd /\ cut' = cut \cup {file}
    <3>1. log[file].session = "new"
      BY <1>01 DEF Partial, File
    <3>2. /\ log' \in [Names -> Entries]
          /\ \A n \in Names \ {file} : log'[n] = log[n]
          /\ log'[file] = WithoutEnd(log[file])
      BY <1>01, <2>2, <3>1, EndLost
    <3> QED
      BY <1>0, <1>01, <2>2, <3>2
  <2> QED
    BY <2>1, <2>2 DEF FileCopied
<1>1. TypeOK'
  BY <1>01, <1>02 DEF TypeOK, Pcs
<1>2. Codes' /\ SrcIsNew'
  BY <1>01 DEF SrcIsNew, Codes
<1>3. Deleting'
  BY <1>01 DEF Deleting
<1>4. TodoExists' /\ FileExists' /\ CutIsOver'
  BY <1>01, <1>02 DEF Copying, TodoExists, FileExists, CutIsOver, Codes
<1>5. Partial' /\ CopiedSoFar'
  BY <1>01, <1>02 DEF Partial, CopyOf, CopiedSoFar, Copying, SrcFiles
<1>6. CleanedUp' /\ OkMeansCopied'
  BY <1>01 DEF CleanedUp, OkMeansCopied
<1>7. TruncatedByFailure'
  BY <1>01, <1>02 DEF TruncatedByFailure, Codes
<1> QED
  BY <1>1, <1>2, <1>3, <1>4, <1>5, <1>6, <1>7

\* With nothing before the loop all is copied.
LEMMA AllCopiedStep == LogDirInv /\ AllCopied => LogDirInv'
<1> SUFFICES ASSUME LogDirInv, AllCopied
             PROVE  LogDirInv'
  OBVIOUS
<1> USE DEF LogDirInv
<1>1. TypeOK'
  BY DEF AllCopied, Return, TypeOK, Pcs
<1>2. Codes' /\ SrcIsNew'
  BY DEF AllCopied, Return, SrcIsNew, Codes
<1>3. Deleting'
  BY DEF AllCopied, Return, Deleting
<1>4. TodoExists' /\ FileExists' /\ CutIsOver'
  BY DEF AllCopied, Return, Copying, TodoExists, FileExists, CutIsOver, Codes
<1>5. Partial' /\ CopiedSoFar'
  BY DEF AllCopied, Return, Partial, CopyOf, CopiedSoFar, Copying, SrcFiles
<1>6. CleanedUp' /\ OkMeansCopied'
  BY DEF AllCopied, Return, CleanedUp, OkMeansCopied, CopiedSoFar, CopyOf, Copying, SrcFiles
<1>7. TruncatedByFailure'
  BY DEF AllCopied, Return, TruncatedByFailure, Codes
<1> QED
  BY <1>1, <1>2, <1>3, <1>4, <1>5, <1>6, <1>7

\* At the start nothing has been done.
LEMMA InitInv == Init => LogDirInv
<1> SUFFICES ASSUME Init
             PROVE  LogDirInv
  OBVIOUS
<1>1. TypeOK
  <2>1. \A n \in Names : src[n] \in Entries /\ log[n] \in Entries
    BY ConstantsAssumption DEF Init, Entries, Files
  <2> QED
    BY <2>1, ConstantsAssumption DEF Init, TypeOK, Pcs
<1>2. Codes /\ Deleting /\ TodoExists /\ FileExists /\ CutIsOver /\ Partial /\ CopiedSoFar
  BY DEF Init, Codes, Deleting, TodoExists, FileExists, CutIsOver, Partial, CopyOf, CopiedSoFar, Copying
<1>3. SrcIsNew
  BY DEF Init, SrcIsNew, IsFile, Files, absent, subdir
<1>4. CleanedUp /\ OkMeansCopied
  BY DEF Init, CleanedUp, OkMeansCopied
<1>5. TruncatedByFailure
  BY DEF Init, TruncatedByFailure, absent, subdir
<1> QED
  BY <1>1, <1>2, <1>3, <1>4, <1>5 DEF LogDirInv

\* The invariant of the clean-up.
THEOREM LogDirInvariance == Spec => []LogDirInv
<1>1. LogDirInv /\ [Next]_vars => LogDirInv'
  <2> SUFFICES ASSUME LogDirInv, [Next]_vars
               PROVE  LogDirInv'
    OBVIOUS
  <2>1. CASE UNCHANGED vars
    BY <2>1 DEF vars, LogDirInv, TypeOK, Codes, SrcIsNew, Deleting, TodoExists,
       FileExists, CutIsOver, Partial, CopyOf, CopiedSoFar, SrcFiles, CleanedUp, OkMeansCopied, TruncatedByFailure
  <2> QED
    BY <2>1, MakeDirStep, OpenLogStep, PassOverDeleteStep, DeleteEntryStep, DeletedStep,
       OpenSrcStep, CheckDestStep, PassOverCopyStep, NextEntryStep, OpenFilesStep,
       CopyChunkStep, CopyFailsStep, FileCopiedStep, AllCopiedStep DEF Next, Finished
<1> QED
  BY <1>1, InitInv, PTL DEF Spec

\* Every variable has its type: no copy grows longer than a file can be.
THEOREM LogDirTypeCorrect == Spec => []TypeOK
<1>1. LogDirInv => TypeOK
  BY DEF LogDirInv
<1> QED
  BY <1>1, LogDirInvariance, PTL

\* A clean-up that reports no error and passed nothing over has left no file.
THEOREM CleanUpIsTrue == Spec => []CleanedUp
<1>1. LogDirInv => CleanedUp
  BY DEF LogDirInv
<1> QED
  BY <1>1, LogDirInvariance, PTL

\* A copy that reports no error has every file it has not passed over, whole
\* but for the ends of those whose fclose failed unnoticed (utils.c:437).
THEOREM CopyIsTrue == Spec => []OkMeansCopied
<1>1. LogDirInv => OkMeansCopied
  BY DEF LogDirInv
<1> QED
  BY <1>1, LogDirInvariance, PTL

\* Each truncated copy is the one a reported failure stopped, or one whose
\* fclose failed unnoticed and that lacks its end only; no other is truncated.
THEOREM TruncatedKnown == Spec => []TruncatedByFailure
<1>1. LogDirInv => TruncatedByFailure
  BY DEF LogDirInv
<1> QED
  BY <1>1, LogDirInvariance, PTL

-----------------------------------------------------------------------------
(* The clean-up as two steps of LogSession.                                *)

\* What is called like no file of the session is not the session's.
OnlySession == \A n \in Names : log[n].session = "new" => IsFile(src[n])

\* Only files of the session are copied.
LEMMA OnlySessionStep ==
  LogDirInv /\ OnlySession /\ [Next]_vars => OnlySession'
<1> SUFFICES ASSUME LogDirInv, OnlySession, [Next]_vars
             PROVE  OnlySession'
  OBVIOUS
<1>1. src' = src
  BY DEF Next, vars, MakeDir, OpenLog, PassOver, DeleteEntry, Deleted, OpenSrc, CheckDest,
         NextEntry, OpenFiles, CopyChunk, CopyFails, FileCopied, AllCopied, Finished, Goes
<1>2. log \in [Names -> Entries] /\ file \in Names
  BY DEF LogDirInv, TypeOK
<1>3. CASE log' = log
  BY <1>1, <1>3 DEF OnlySession
<1>4. CASE DeleteEntry /\ log' # log
  <2>1. PICK n \in Names : log' = [log EXCEPT ![n] = absent]
    BY <1>4 DEF DeleteEntry, LogDirInv, TypeOK
  <2> QED
    BY <1>1, <1>2, <2>1, EntryKinds DEF OnlySession
<1>5. CASE OpenFiles /\ log' # log
  <2>1. log' = [log EXCEPT ![file] = File("new", 0)] /\ pc = "open_files"
    BY <1>5 DEF OpenFiles
  <2>2. IsFile(src[file])
    BY <2>1 DEF LogDirInv, FileExists
  <2> QED
    BY <1>1, <1>2, <2>1, <2>2 DEF OnlySession
<1>6. CASE CopyChunk
  <2>1. pc = "chunks" /\ log' = [log EXCEPT ![file].chunks = @ + 1]
    BY <1>6 DEF CopyChunk
  <2>2. IsFile(src[file])
    BY <2>1 DEF LogDirInv, FileExists
  <2>3. \A n \in Names : n # file => log'[n] = log[n]
    BY <1>2, <2>1
  <2> QED
    BY <1>1, <2>2, <2>3 DEF OnlySession
<1>7. CASE (CopyFails \/ FileCopied) /\ log' # log
  <2>1. pc = "chunks" /\ LosesEnd
    BY <1>7 DEF CopyFails, FileCopied, Goes
  <2>2. IsFile(src[file])
    BY <2>1 DEF LogDirInv, FileExists
  <2>3. \A n \in Names : n # file => log'[n] = log[n]
    BY <1>2, <2>1 DEF LosesEnd
  <2> QED
    BY <1>1, <2>2, <2>3 DEF OnlySession
<1> QED
  BY <1>3, <1>4, <1>5, <1>6, <1>7 DEF Next, vars, MakeDir, OpenLog, PassOver, Deleted,
     OpenSrc, CheckDest, NextEntry, AllCopied, Finished, Goes

Early == {"make_dir", "open_log", "delete"}
Late  == {"open_src"} \cup Copying

\* Clearing, then copying, then the end.
LEMMA Order ==
  ASSUME TypeOK, [Next]_vars
  PROVE  /\ src' = src
         /\ pc \in Early \cup Late \cup {"done"}
         /\ pc \in Early => pc' \in Early \cup {"open_src"}
         /\ pc \in Late => pc' \in Late \cup {"done"}
         /\ pc = "done" => UNCHANGED vars
<1>1. pc \in Early \cup Late \cup {"done"}
  BY DEF TypeOK, Pcs, Early, Late, Copying
<1>2. CASE UNCHANGED vars
  BY <1>1, <1>2 DEF vars
<1> QED
  BY <1>1, <1>2 DEF Next, MakeDir, OpenLog, PassOver, DeleteEntry, Deleted, OpenSrc,
     CheckDest, NextEntry, OpenFiles, CopyChunk, CopyFails, FileCopied, AllCopied, Finished,
     Goes, Return, Early, Late, Copying

\* A directory that has the files of the session, and of the session nothing
\* else, has all of it.
LEMMA SameSession ==
  ASSUME NEW s \in [Names -> Entries], NEW l,
         \A n \in Names : IsFile(s[n]) => l[n] = s[n],
         \A n \in Names : l[n].session = "new" => IsFile(s[n])
  PROVE  OfSession(l) = OfSession(s)
<1>1. ASSUME NEW n \in Names
      PROVE  (IF l[n].session = "new" THEN l[n].chunks ELSE 0)
                = (IF s[n].session = "new" THEN s[n].chunks ELSE 0)
  <2>1. CASE IsFile(s[n])
    BY <2>1
  <2>2. CASE ~IsFile(s[n])
    <3>1. s[n].session # "new"
      BY <2>2, EntryKinds DEF subdir
    <3>2. l[n].session # "new"
      BY <2>2
    <3> QED
      BY <3>1, <3>2
  <2> QED
    BY <2>1, <2>2
<1> QED
  BY <1>1, Zenon DEF OfSession

\* Every step is one of LogSession or a stutter.
LEMMA SessionStep ==
  ASSUME LogDirInv, LogDirInv', OnlySession', [Next]_vars
  PROVE  [Session!Clear \/ Session!Publish]_(Session!svars)
<1>1. /\ src' = src
      /\ pc \in Early \cup Late \cup {"done"}
      /\ pc \in Early => pc' \in Early \cup {"open_src"}
      /\ pc \in Late => pc' \in Late \cup {"done"}
      /\ pc = "done" => UNCHANGED vars
  BY Order DEF LogDirInv
<1>2. OfSession(src)' = OfSession(src)
  BY <1>1 DEF OfSession
<1>3. CASE pc \in Early /\ pc' \in Early
  BY <1>2, <1>3 DEF Early, Session!svars, Complete
<1>4. CASE pc \in Early /\ pc' = "open_src"
  BY <1>2, <1>4 DEF Early, Session!Clear, Complete
<1>5. CASE pc \in Late /\ pc' \in Late
  BY <1>2, <1>5 DEF Late, Copying, Session!svars, Complete
<1>6. CASE pc \in Late /\ pc' = "done"
  <2>1. CASE Complete'
    <3>1. OfSession(log)' = OfSession(src)'
      <4> DEFINE l == log'
                 r == src'
      <4>1. r \in [Names -> Entries]
        BY DEF LogDirInv, TypeOK
      <4>2. \A n \in Names : IsFile(r[n]) => l[n] = r[n]
        BY <2>1 DEF LogDirInv, OkMeansCopied, SrcFiles, Complete
      <4>3. \A n \in Names : l[n].session = "new" => IsFile(r[n])
        BY DEF OnlySession
      <4> HIDE DEF l, r
      <4>4. OfSession(l) = OfSession(r)
        BY <4>1, <4>2, <4>3, SameSession
      <4> QED
        BY <4>4 DEF l, r, OfSession
    <3> QED
      BY <1>2, <1>6, <2>1, <3>1 DEF Late, Copying, Session!Publish, Complete
  <2>2. CASE ~Complete'
    BY <1>2, <1>6, <2>2 DEF Late, Copying, Session!Publish, Complete
  <2> QED
    BY <2>1, <2>2
<1>7. CASE pc = "done"
  <2>1. UNCHANGED vars
    BY <1>1, <1>7
  <2>2. UNCHANGED <<pc, log, copyRet, skipped, cut>> /\ OfSession(log)' = OfSession(log)
    BY <2>1 DEF vars, OfSession
  <2> QED
    BY <1>2, <2>2 DEF Session!svars, Complete
<1> QED
  BY <1>1, <1>3, <1>4, <1>5, <1>6, <1>7

\* The clean-up, with every call of the file system that may fail, implements
\* the two steps that LogSession and Tflog take it as: nothing is published
\* before the clearing is over; and unless an error was reported, an entry
\* passed over or the fclose of a copy failed, it is exactly what was recorded
\* (uiom_cleanup).
THEOREM CleanUpPublishes == Spec => PublishesSession
<1>1. Init => OnlySession
  BY DEF Init, OnlySession, absent, subdir
<1>2. LogDirInv /\ LogDirInv' /\ OnlySession /\ [Next]_vars
        => OnlySession' /\ [Session!Clear \/ Session!Publish]_(Session!svars)
  BY OnlySessionStep, SessionStep
<1> QED
  BY <1>1, <1>2, LogDirInvariance, PTL DEF Spec, PublishesSession
=============================================================================
