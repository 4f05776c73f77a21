------------------------------ MODULE FileUpload -----------------------------
(***************************************************************************)
(* protocol-playground: file-sender streams a file in chunks of 64 bytes   *)
(* to UploadFile of the invoicer, which writes them to a file named after  *)
(* the original and a time stamp.  The layout of the stamp formats the     *)
(* day, the month and the second, so uploads of one file in the same       *)
(* second of any minute of a day have the same path, and os.Create         *)
(* truncates what is there.                                                *)
(***************************************************************************)
EXTENDS Naturals, Sequences, FiniteSets

CONSTANTS FuUploads,   \* runs of file-sender, all for one file name
          FuStamps,    \* formatted time stamps
          FuSizes      \* lengths of the file in chunks

VARIABLES
  fuUp,        \* the invoicer runs
  fuFile,      \* the content each sender uploads
  fuSender,    \* "idle", "sending", "waiting", "match", "mismatch" or "failed"
  fuSent,      \* chunks sent
  fuStream,    \* chunks on the stream, and "EOF"
  fuHandler,   \* "recv", "done" or "failed"
  fuPath,      \* the path of the handler's open file, or FuNoPath
  fuOffset,    \* the write offset of that file, which is bytesRec as well
  fuDisk,      \* the files of uploadDir
  fuCreated    \* history: the uploads that created a path

fuSrv == <<fuHandler, fuPath, fuOffset, fuDisk, fuCreated>>
fuVars == <<fuUp, fuFile, fuSender, fuSent, fuStream, fuHandler, fuPath, fuOffset, fuDisk,
            fuCreated>>

FuNoPath == "no file"
ASSUME FuAssumption == FuSizes \subseteq Nat /\ FuNoPath \notin FuStamps

FuEOF == <<"EOF">>
FuContent(u, n) == [i \in 1..n |-> <<u, i>>]

FuInit(up) ==
  /\ fuUp \in up
  /\ \E n \in [FuUploads -> FuSizes] : fuFile = [u \in FuUploads |-> FuContent(u, n[u])]
  /\ fuSender = [u \in FuUploads |-> "idle"] /\ fuSent = [u \in FuUploads |-> 0]
  /\ fuStream = [u \in FuUploads |-> <<>>] /\ fuHandler = [u \in FuUploads |-> "recv"]
  /\ fuPath = [u \in FuUploads |-> FuNoPath] /\ fuOffset = [u \in FuUploads |-> 0]
  /\ fuDisk = [p \in FuStamps |-> <<>>] /\ fuCreated = [p \in FuStamps |-> {}]
-----------------------------------------------------------------------------
(* UploadFile of file-sender.                                              *)
FuOpen(u) ==
  /\ fuUp /\ fuSender[u] = "idle" /\ fuSender' = [fuSender EXCEPT ![u] = "sending"]
  /\ UNCHANGED <<fuUp, fuFile, fuSent, fuStream, fuSrv>>

FuSendChunk(u) ==
  /\ fuSender[u] = "sending" /\ fuSent[u] < Len(fuFile[u]) /\ fuHandler[u] = "recv"
  /\ fuSent' = [fuSent EXCEPT ![u] = @ + 1]
  /\ fuStream' = [fuStream EXCEPT ![u] = Append(@, fuFile[u][fuSent[u] + 1])]
  /\ UNCHANGED <<fuUp, fuFile, fuSender, fuSrv>>

FuCloseSend(u) ==
  /\ fuSender[u] = "sending" /\ fuSent[u] = Len(fuFile[u]) /\ fuHandler[u] = "recv"
  /\ fuSender' = [fuSender EXCEPT ![u] = "waiting"]
  /\ fuStream' = [fuStream EXCEPT ![u] = Append(@, FuEOF)]
  /\ UNCHANGED <<fuUp, fuFile, fuSent, fuSrv>>

\* The handler has failed: Send or CloseAndRecv returns an error.
FuSendFails(u) ==
  /\ fuSender[u] \in {"sending", "waiting"} /\ fuHandler[u] = "failed"
  /\ fuSender' = [fuSender EXCEPT ![u] = "failed"]
  /\ UNCHANGED <<fuUp, fuFile, fuSent, fuStream, fuSrv>>

\* Either way UploadFile of the sender returns nil.
FuCloseAndRecv(u) ==
  /\ fuSender[u] = "waiting" /\ fuHandler[u] = "done"
  /\ fuSender' = [fuSender EXCEPT ![u] =
       IF fuOffset[u] = Len(fuFile[u]) THEN "match" ELSE "mismatch"]
  /\ UNCHANGED <<fuUp, fuFile, fuSent, fuStream, fuSrv>>
-----------------------------------------------------------------------------
(* UploadFile of the invoicer.                                             *)
FuWrite(f, offset, c) ==
  [i \in 1..(IF Len(f) > offset THEN Len(f) ELSE offset + 1) |->
     IF i = offset + 1 THEN c ELSE IF i <= Len(f) THEN f[i] ELSE <<"hole">>]

FuReceived(u) == fuHandler[u] = "recv" /\ fuStream[u] # <<>>
FuNextChunk(u) == fuStream' = [fuStream EXCEPT ![u] = Tail(@)]

FuCreateAnd(u, p) ==
  /\ fuPath' = [fuPath EXCEPT ![u] = p]
  /\ fuOffset' = [fuOffset EXCEPT ![u] = @ + 1]
  /\ fuDisk' = [fuDisk EXCEPT ![p] = FuWrite(<<>>, 0, Head(fuStream[u]))]
  /\ fuCreated' = [fuCreated EXCEPT ![p] = @ \cup {u}]
  /\ UNCHANGED <<fuHandler>>

\* Mutant: the file is created again for every chunk.
FuCreatePerChunk(u) ==
  /\ FuReceived(u) /\ Head(fuStream[u]) # FuEOF
  /\ \E p \in FuStamps : fuPath[u] \in {p, FuNoPath} /\ FuCreateAnd(u, p)
  /\ FuNextChunk(u) /\ UNCHANGED <<fuUp, fuFile, fuSender, fuSent>>

FuCreate(u) ==
  /\ FuReceived(u) /\ Head(fuStream[u]) # FuEOF /\ fuPath[u] = FuNoPath
  /\ \E p \in FuStamps : FuCreateAnd(u, p)
  /\ FuNextChunk(u) /\ UNCHANGED <<fuUp, fuFile, fuSender, fuSent>>

FuWriteChunk(u) ==
  /\ FuReceived(u) /\ Head(fuStream[u]) # FuEOF /\ fuPath[u] # FuNoPath
  /\ fuDisk' = [fuDisk EXCEPT ![fuPath[u]] = FuWrite(@, fuOffset[u], Head(fuStream[u]))]
  /\ fuOffset' = [fuOffset EXCEPT ![u] = @ + 1]
  /\ FuNextChunk(u) /\ UNCHANGED <<fuUp, fuFile, fuSender, fuSent, fuHandler, fuPath, fuCreated>>

\* Recv or Create fails, or a later Write; the file stays as it is.
FuHandlerFails(u) ==
  /\ fuUp /\ fuHandler[u] = "recv" /\ fuSender[u] \in {"sending", "waiting"}
  /\ fuHandler' = [fuHandler EXCEPT ![u] = "failed"]
  /\ UNCHANGED <<fuUp, fuFile, fuSender, fuSent, fuStream, fuPath, fuOffset, fuDisk, fuCreated>>

\* The file has been created, and truncated, and its first Write fails.
FuFirstWriteFails(u) ==
  /\ FuReceived(u) /\ Head(fuStream[u]) # FuEOF /\ fuPath[u] = FuNoPath
  /\ fuHandler' = [fuHandler EXCEPT ![u] = "failed"]
  /\ \E p \in FuStamps :
       fuDisk' = [fuDisk EXCEPT ![p] = <<>>] /\ fuCreated' = [fuCreated EXCEPT ![p] = @ \cup {u}]
  /\ UNCHANGED <<fuUp, fuFile, fuSender, fuSent, fuStream, fuPath, fuOffset>>

FuReceiveEOF(u) ==
  /\ FuReceived(u) /\ Head(fuStream[u]) = FuEOF
  /\ fuHandler' = [fuHandler EXCEPT ![u] = "done"]
  /\ FuNextChunk(u)
  /\ UNCHANGED <<fuUp, fuFile, fuSender, fuSent, fuPath, fuOffset, fuDisk, fuCreated>>

FuNext ==
  \E u \in FuUploads :
    \/ FuOpen(u) \/ FuSendChunk(u) \/ FuCloseSend(u) \/ FuSendFails(u) \/ FuCloseAndRecv(u)
    \/ FuCreate(u) \/ FuWriteChunk(u) \/ FuHandlerFails(u) \/ FuFirstWriteFails(u)
    \/ FuReceiveEOF(u)

FuSpec == FuInit({TRUE}) /\ [][FuNext]_fuVars
-----------------------------------------------------------------------------
\* An upload that the sender reports as a total success has left its content on
\* disk, unless another upload got the same path: the writes of concurrent
\* uploads do not mix, an aborted one spoils only its own file, and an empty
\* file leaves nothing.  (UploadFile of file-sender and of the invoicer)
FuReportedIsStored ==
  \A u \in FuUploads :
    fuSender[u] = "match" =>
      \/ fuFile[u] = <<>> /\ fuPath[u] = FuNoPath
      \/ fuPath[u] # FuNoPath
         /\ (fuDisk[fuPath[u]] = fuFile[u] \/ fuCreated[fuPath[u]] # {u})

=============================================================================
