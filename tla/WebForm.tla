-------------------------------- MODULE WebForm --------------------------------
(***************************************************************************)
(* The multipart forms of the web server: ESP31BWebServer::_parseForm and  *)
(* what it calls (libraries/ESP31BWebServer/src/Parsing.cpp).  The loop    *)
(* task reads a form from the connection, a line or a byte at a time, and  *)
(* hands the bytes of a file to the sketch's upload handler; the peer may  *)
(* be gone at any time, or just send no more.                              *)
(*                                                                         *)
(* The peer makes up a form as it is read: the fields and files of a legal *)
(* form, so no file contains the delimiter CR LF - - Boundary; nor has one *)
(* a line that begins with Content-Disposition.  A header line or the line *)
(* after a delimiter is one item.  Once the form has begun, the lines of a *)
(* peer that is still there arrive within Stream's timeout.                *)
(*                                                                         *)
(* content, got, fields, swallowed, stale and overrun are not program      *)
(* state: the bytes of the file so far, those the handler has been given,  *)
(* the fields sent, whether a delimiter was taken for content, whether     *)
(* bytes that happened to be on the stack were taken for the peer's, and   *)
(* whether more fields came than there is room for.                        *)
(***************************************************************************)
EXTENDS Integers, Sequences, SequencesExt, FiniteSetsExt

CONSTANTS
  Boundary,   \* the bytes of the boundary
  Bytes,      \* the bytes a file may hold: CR, LF, "-" and others
  Query,      \* the arguments of the request's URL
  BufLen,     \* HTTP_UPLOAD_BUFLEN
  ARGS,       \* 32, the length of postArgs
  MaxFile,    \* bound on the bytes of a file
  MaxParts    \* bound on the parts of a form

ASSUME FormAssumption ==
  /\ Boundary \in Seq(Bytes) /\ Boundary # <<>>
  /\ "none" \notin Bytes
  /\ \A i \in 1..Len(Boundary) : Boundary[i] # "CR"  \* it comes from a header line
  /\ Query \in Seq(Int)
  /\ BufLen \in Nat \ {0} /\ ARGS \in Nat /\ MaxFile \in Nat /\ MaxParts \in Nat

VARIABLES
  open,       \* the connection is established
  sent,       \* what the peer is sending: "first", "part", "value", "file",
              \* "delim", or "over"
  at,         \* the bytes of the delimiter it has sent
  parts,      \* parts sent
  pc,         \* where _parseForm is
  byte,       \* argByte, or NONE when the next is to be read
  endBuf,     \* the bytes read after CR LF - -
  status,     \* _currentUpload.status
  buf,        \* _currentUpload.buf, its currentSize bytes
  totalSize,  \* _currentUpload.totalSize
  postArgs,   \* the fields collected, then all the arguments
  content, got, fields, swallowed, stale, overrun

peer == <<sent, at, parts, content, fields>>
upload == <<status, buf, totalSize, got>>
notes == <<swallowed, stale, overrun>>
vars == <<open, peer, pc, byte, endBuf, upload, postArgs, notes>>

CR == "CR"
LF == "LF"
DASH == "-"
FF == "FF"       \* what read() returns, -1, cut to a byte
NONE == "none"

Delimiter == <<CR, LF, DASH, DASH>> \o Boundary

Init ==
  /\ open = TRUE /\ sent = "first" /\ at = 0 /\ parts = 0
  /\ pc = "first" /\ byte = NONE /\ endBuf = <<>>
  /\ status = "none" /\ buf = <<>> /\ totalSize = 0 /\ got = <<>>
  /\ postArgs = <<>>
  /\ content = <<>> /\ fields = <<>> /\ swallowed = FALSE /\ stale = FALSE /\ overrun = FALSE

-----------------------------------------------------------------------------
(* The peer and the connection. *)

Disconnect ==
  /\ open /\ pc \notin {"true", "false"}
  /\ open' = FALSE
  /\ UNCHANGED <<peer, pc, byte, endBuf, upload, postArgs, notes>>

EndsWith(s, t) == Len(s) >= Len(t) /\ SubSeq(s, Len(s) - Len(t) + 1, Len(s)) = t

\* The peer's next byte is b.
Sends(b) ==
  \/ /\ sent = "file" /\ Len(content) < MaxFile /\ b \in Bytes
     /\ content' = Append(content, b) /\ ~EndsWith(content', Delimiter)
     /\ UNCHANGED <<sent, at, parts, fields>>
  \/ /\ sent \in {"file", "delim"} /\ at < Len(Delimiter) /\ b = Delimiter[at + 1]
     /\ sent' = "delim" /\ at' = at + 1
     /\ UNCHANGED <<parts, content, fields>>

\* After a delimiter comes the end of the form, or another part.
Continues(more) ==
  /\ more => parts < MaxParts
  /\ sent' = IF more THEN "part" ELSE "over"
  /\ UNCHANGED <<at, parts, content, fields>>

\* The delimiter has been sent in full.
AtLine == sent = "delim" /\ at = Len(Delimiter)

-----------------------------------------------------------------------------
(* _uploadReadByte, _uploadWriteByte *)

AwaitsByte == pc \in {"readfile", "cr", "crlf", "dash"} /\ byte = NONE

\* A byte comes; a peer that is connected and silent is waited for, for ever.
ReadByte ==
  /\ AwaitsByte /\ open
  /\ \E b \in Bytes : Sends(b) /\ byte' = b
  /\ UNCHANGED <<open, pc, endBuf, upload, postArgs, notes>>

\* (Mistake: a byte is waited for even when the connection is gone.)
ReadNothingWaits == AwaitsByte /\ ~open /\ UNCHANGED vars

\* The connection is gone.
ReadNothing ==
  /\ AwaitsByte /\ ~open
  /\ byte' = FF
  /\ UNCHANGED <<open, peer, pc, endBuf, upload, postArgs, notes>>

\* A full buffer goes to the handler before the next byte is stored.
Written(acc, b) ==
  IF Len(acc.buf) = BufLen
    THEN [buf |-> <<b>>, got |-> acc.got \o acc.buf, total |-> acc.total + BufLen]
    ELSE [acc EXCEPT !.buf = Append(@, b)]

\* _uploadWriteByte for each of the bytes: what has become of the first k.
WrittenOf(acc, bytes) ==
  LET after[k \in 0..Len(bytes)] == IF k = 0 THEN acc ELSE Written(after[k - 1], bytes[k])
  IN  after

Write(bytes) ==
  LET acc == WrittenOf([buf |-> buf, got |-> got, total |-> totalSize], bytes)[Len(bytes)]
  IN  buf' = acc.buf /\ got' = acc.got /\ totalSize' = acc.total

-----------------------------------------------------------------------------
(* Lines. *)

\* The form begins with its boundary, or nothing comes before the third timeout.
FirstLine ==
  /\ pc = "first"
  /\ \/ open /\ pc' = "part" /\ sent' = "part"
     \/ pc' = "false" /\ UNCHANGED sent
  /\ UNCHANGED <<open, at, parts, content, fields, byte, endBuf, upload, postArgs, notes>>

\* A line that is not a Content-Disposition, or, once the peer is gone, an empty
\* one: _parseForm reads on.
OtherLine ==
  /\ pc \in {"part", "value"}
  /\ UNCHANGED vars

\* The headers of a field.
FieldStarts ==
  /\ pc = "part" /\ open /\ sent = "part" /\ parts < MaxParts
  /\ pc' = "value"
  /\ sent' = "value" /\ parts' = parts + 1
  /\ UNCHANGED <<open, at, content, fields, byte, endBuf, upload, postArgs, notes>>

\* The value is over: the argument is stored without a look at the length of
\* postArgs.
FieldEnds(more) ==
  /\ pc = "value" /\ open /\ sent = "value"
  /\ sent' = IF more THEN "part" ELSE "over"
  /\ more => parts < MaxParts
  /\ fields' = Append(fields, parts)
  /\ postArgs' = Append(postArgs, parts)
  /\ overrun' = (overrun \/ Len(postArgs) >= ARGS)
  /\ pc' = IF more THEN "part" ELSE "merge"
  /\ UNCHANGED <<open, at, parts, content, byte, endBuf, upload, swallowed, stale>>

-----------------------------------------------------------------------------
(* Files. *)

\* The headers of a file: the handler is called with UPLOAD_FILE_START.
FileStarts ==
  /\ pc = "part" /\ open /\ sent = "part" /\ parts < MaxParts
  /\ sent' = "file" /\ at' = 0 /\ parts' = parts + 1 /\ content' = <<>>
  /\ status' = "WRITE" /\ buf' = <<>> /\ totalSize' = 0 /\ got' = <<>>
  /\ pc' = "readfile" /\ byte' = NONE
  /\ UNCHANGED <<open, fields, endBuf, postArgs, notes>>

\* _parseFormUploadAborted
Aborted ==
  /\ status' = "ABORTED" /\ pc' = "false"
  /\ UNCHANGED <<byte, buf, totalSize, got>>

\* To another state with the next byte to be read.
ReadNext(state) == pc' = state /\ byte' = NONE

\* (Mistake: the connection is not looked at.)
ReadFileBlindly ==
  /\ pc = "readfile" /\ byte # NONE
  /\ IF byte = CR THEN ReadNext("cr") /\ UNCHANGED upload
     ELSE Write(<<byte>>) /\ ReadNext("readfile") /\ UNCHANGED status
  /\ UNCHANGED <<open, peer, endBuf, postArgs, notes>>

\* The loop at label readfile.
ReadFile ==
  /\ pc = "readfile" /\ byte # NONE
  /\ IF byte = CR THEN ReadNext("cr") /\ UNCHANGED upload
     ELSE IF ~open THEN Aborted
     ELSE Write(<<byte>>) /\ ReadNext("readfile") /\ UNCHANGED status
  /\ UNCHANGED <<open, peer, endBuf, postArgs, notes>>

\* What has been held back is content after all, and argByte goes to readfile.
Back(held) == Write(held) /\ pc' = "readfile" /\ UNCHANGED <<byte, status>>

\* CR was read, and now argByte.
AfterCr ==
  /\ pc = "cr" /\ byte # NONE
  /\ IF ~open THEN Aborted
     ELSE IF byte = LF THEN ReadNext("crlf") /\ UNCHANGED upload
     ELSE Back(<<CR>>)
  /\ UNCHANGED <<open, peer, endBuf, postArgs, notes>>

AfterLf ==
  /\ pc = "crlf" /\ byte # NONE
  /\ IF ~open THEN Aborted
     ELSE IF byte = DASH THEN ReadNext("dash") /\ UNCHANGED upload
     ELSE Back(<<CR, LF>>)
  /\ UNCHANGED <<open, peer, endBuf, postArgs, notes>>

\* (Mistake: the first dash is forgotten.)
AfterDashLoses ==
  /\ pc = "dash" /\ byte # NONE
  /\ IF ~open THEN Aborted /\ UNCHANGED endBuf
     ELSE IF byte = DASH THEN ReadNext("end") /\ endBuf' = <<>> /\ UNCHANGED upload
     ELSE Back(<<CR, LF>>) /\ UNCHANGED endBuf
  /\ UNCHANGED <<open, peer, postArgs, notes>>

AfterDash ==
  /\ pc = "dash" /\ byte # NONE
  /\ IF ~open THEN Aborted /\ UNCHANGED endBuf
     ELSE IF byte = DASH THEN ReadNext("end") /\ endBuf' = <<>> /\ UNCHANGED upload
     ELSE Back(<<CR, LF, DASH>>) /\ UNCHANGED endBuf
  /\ UNCHANGED <<open, peer, postArgs, notes>>

\* readBytes(endBuf, boundary.length())
EndByte ==
  /\ pc = "end" /\ Len(endBuf) < Len(Boundary) /\ open
  /\ \E b \in Bytes : Sends(b) /\ endBuf' = Append(endBuf, b)
  /\ UNCHANGED <<open, pc, byte, upload, postArgs, notes>>

\* It times out, the peer gone or not: the rest of endBuf is what the stack held.
EndShort ==
  /\ pc = "end" /\ Len(endBuf) < Len(Boundary)
  /\ \E junk \in [1..Len(Boundary) - Len(endBuf) -> Bytes \cup {FF}] : endBuf' = endBuf \o junk
  /\ stale' = TRUE
  /\ UNCHANGED <<open, peer, pc, byte, upload, postArgs, swallowed, overrun>>

\* strstr finds the boundary: in endBuf or, as nothing terminates that, in what
\* the stack holds behind it.  The handler gets the rest, and UPLOAD_FILE_END.
FileEnds ==
  /\ pc = "end" /\ Len(endBuf) = Len(Boundary)
  /\ stale' = (stale \/ endBuf # Boundary)
  /\ got' = got \o buf /\ totalSize' = totalSize + Len(buf)
  /\ status' = "END"
  /\ pc' = "line"
  /\ UNCHANGED <<open, peer, byte, endBuf, buf, postArgs, swallowed, overrun>>

\* Not the boundary: it is all content.
NotTheBoundary ==
  /\ pc = "end" /\ Len(endBuf) = Len(Boundary) /\ endBuf # Boundary
  /\ Write(<<CR, LF, DASH, DASH>> \o endBuf)
  /\ ReadNext("readfile")
  /\ swallowed' = (swallowed \/ sent # "file")
  /\ UNCHANGED <<open, peer, endBuf, status, postArgs, stale, overrun>>

\* The line after the boundary: more parts, or the end of the form.  After a
\* boundary that only the stack held it is any piece of what the peer sends.
LineAfter ==
  /\ pc = "line"
  /\ \/ \E more \in BOOLEAN :
          /\ open /\ AtLine /\ Continues(more)
          /\ pc' = IF more THEN "part" ELSE "merge"
     \/ open /\ ~AtLine /\ pc' \in {"part", "merge"} /\ UNCHANGED peer
     \/ ~open /\ pc' = "part" /\ UNCHANGED peer
  /\ UNCHANGED <<open, byte, endBuf, upload, postArgs, notes>>

\* The rest of such a file, its delimiter included, is read as lines.
FileAsLines ==
  /\ pc = "part" /\ open /\ sent \in {"file", "delim"}
  /\ \E more \in BOOLEAN : Continues(more)
  /\ UNCHANGED <<open, pc, byte, endBuf, upload, postArgs, notes>>

-----------------------------------------------------------------------------
\* (Mistake: all of them, room or not.)
MergedAll == postArgs \o Query

\* The arguments of the URL come after the fields, as many as there is room for.
Merged == postArgs \o SubSeq(Query, 1, Min({ARGS - Len(postArgs), Len(Query)}))

MergeArgs ==
  /\ pc = "merge"
  /\ postArgs' = Merged
  /\ pc' = "true"
  /\ UNCHANGED <<open, peer, byte, endBuf, upload, notes>>

\* A swallowed delimiter leaves the peer waiting while the rest of the form goes
\* the way of the file: what it sends next is content to _parseForm.
SendsOn ==
  /\ pc \in {"readfile", "cr", "crlf", "dash", "end"} /\ open /\ AtLine
  /\ pc = "end" => Len(endBuf) < Len(Boundary)
  /\ Continues(FALSE)
  /\ UNCHANGED <<open, pc, byte, endBuf, upload, postArgs, notes>>

\* handleClient() has dealt with the request and takes the next.
NextRequest ==
  /\ pc \in {"true", "false"}
  /\ open' = TRUE /\ sent' = "first" /\ at' = 0 /\ parts' = 0
  /\ pc' = "first" /\ byte' = NONE /\ endBuf' = <<>>
  /\ status' = "none" /\ buf' = <<>> /\ totalSize' = 0 /\ got' = <<>>
  /\ postArgs' = <<>>
  /\ content' = <<>> /\ fields' = <<>> /\ swallowed' = FALSE /\ stale' = FALSE /\ overrun' = FALSE

\* The steps of a file that need nothing of the peer.
TaskStep ==
  \/ ReadNothing \/ ReadFile \/ AfterCr \/ AfterLf \/ AfterDash
  \/ EndShort \/ FileEnds \/ NotTheBoundary

PeerStep == ReadByte \/ EndByte \/ SendsOn

FieldStep == FieldStarts \/ \E more \in BOOLEAN : FieldEnds(more)

Next ==
  \/ Disconnect
  \/ FirstLine \/ OtherLine \/ FieldStep
  \/ FileStarts \/ TaskStep \/ PeerStep \/ LineAfter \/ FileAsLines \/ MergeArgs
  \/ NextRequest

Spec == Init /\ [][Next]_vars

\* The loop task runs.  Nothing is asked of the peer.
FairSpec == Spec /\ WF_vars(TaskStep)

-----------------------------------------------------------------------------
(* Correctness. *)

FormTypeOK ==
  /\ open \in BOOLEAN
  /\ sent \in {"first", "part", "value", "file", "delim", "over"}
  /\ at \in 0..Len(Delimiter) /\ parts \in 0..MaxParts
  /\ pc \in {"first", "part", "value", "readfile", "cr", "crlf", "dash", "end", "line",
              "merge", "true", "false"}
  /\ byte \in Bytes \cup {FF, NONE}
  /\ endBuf \in Seq(Bytes \cup {FF}) /\ Len(endBuf) <= Len(Boundary)
  /\ status \in {"none", "WRITE", "END", "ABORTED"}

\* The buffer never holds more than HTTP_UPLOAD_BUFLEN bytes, the handler has
\* had totalSize bytes, and when it is told of the end of a file these are the
\* bytes of that file, whatever looked like a delimiter in it.  Not covered: a
\* delimiter swallowed after a false one, and one made up of what the stack held.
UploadExact ==
  /\ FormTypeOK
  /\ Len(buf) <= BufLen
  /\ totalSize = Len(got)
  /\ status = "END" /\ ~swallowed /\ ~stale => got = content

\* Until then, and also when the upload is aborted, what the handler was given
\* is a prefix of the file; it is told of an abortion only when the peer is gone,
\* and a request that ends well leaves no upload unfinished.
GivenIsPrefix ==
  /\ status \in {"WRITE", "ABORTED"} /\ ~swallowed /\ ~stale => IsPrefix(got, content)
  /\ status = "ABORTED" => ~open /\ pc = "false"
  /\ pc \in {"merge", "true"} => status \in {"none", "END"}

\* The arguments handed to the sketch are the fields of the form, each once and
\* in order, also those before and after files, then those of the URL that there
\* is still room for: never more than the array holds.
FieldsCollected ==
  pc = "true" /\ ~overrun =>
    /\ Len(postArgs) <= ARGS
    /\ \E n \in 0..Len(Query) :
         /\ postArgs = fields \o SubSeq(Query, 1, n)
         /\ n < Len(Query) => Len(postArgs) = ARGS

\* Wherever in a file or a delimiter the peer goes, the handler is told of the
\* file's end or its abortion.  (A silent peer that stays is waited for.)
UploadReported == status = "WRITE" /\ ~open ~> status # "WRITE"
=============================================================================
