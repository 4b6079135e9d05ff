---------------------------- MODULE UploadChecks ----------------------------
(* What create_job (main.py) and security.py do with the files of one request *)
(* between the slot it takes and the job it makes: save in chunks, look at    *)
(* the content, walk an archive's entries, scan.  Sizes are in chunks.        *)
EXTENDS Naturals, Sequences, FiniteSets, FiniteSetsExt, Functions, SequencesExt

CONSTANTS
    Uploads,        \* the requests: sequences of files
    Operations,     \* what they ask for
    MaxFiles, MaxImage, MaxDocument, MaxJob,              \* settings.max_*
    MaxEntries, MaxUnpacked, MaxMediaFiles, MaxMedia, MaxMetadata,  \* MAX_OFFICE_*
    ScannerRequired \* settings.clamav_required

Archives == {".docx", ".xlsx", ".odt", ".ods"}

\* What a file can have is a matter of its format: an encrypted docx is an OLE
\* container, an encrypted odt has a manifest, and a PDF has no VBA.
FaultsFit(file) ==
    LET legacy == file.ext \in {".doc", ".xls"} \/ (file.ext \in Archives /\ "OLE-inside" \in file.faults)
        manifest == \E i \in DOMAIN file.entries : file.entries[i].name = "manifest"
    IN  /\ "encrypted" \in file.faults =>
             file.ext = ".pdf" \/ legacy \/ (file.ext \in {".odt", ".ods"} /\ manifest)
        /\ "macros" \in file.faults => legacy
        /\ "macro-type" \in file.faults => file.ext \in {".docx", ".xlsx"}
        /\ "scripts" \in file.faults => file.ext \in {".odt", ".ods"}
        /\ file.ext \notin Archives => file.entries = <<>>

Entries == [name : STRING, size : Nat, dense : BOOLEAN, media : BOOLEAN]
Files == [ext : STRING, chunks : Seq(Nat), faults : SUBSET STRING, entries : Seq(Entries)]

ASSUME UploadAssumption ==
    /\ {MaxFiles, MaxImage, MaxDocument, MaxJob} \subseteq Nat
    /\ {MaxEntries, MaxUnpacked, MaxMediaFiles, MaxMedia, MaxMetadata} \subseteq Nat
    /\ ScannerRequired \in BOOLEAN
    /\ \A files \in Uploads :
         files \in Seq(Files) /\ \A i \in DOMAIN files : FaultsFit(files[i])

VARIABLES
    uploads,    \* the files: [ext, chunks, faults, entries]
    op,
    at,         \* "start", "open", "save", "content", "entries", "structure", "scan",
                \* "accepted" or "refused"
    input,      \* the sizes of the files in the job's input directory
    read,       \* chunks of the current file that were read
    seen,       \* of the last archive: [file, pos, names, unpacked, media, mediaFiles, refused]
    replies,    \* the scanner's, to the files that were scanned
    code        \* why the request is refused

uploadVars == <<uploads, op, at, input, read, seen, replies, code>>

-----------------------------------------------------------------------------
(* The files                                                                   *)

ImageExtensions == {".png"}
WordExtensions == {".doc", ".docx", ".odt", ".rtf"}
SpreadsheetExtensions == {".xls", ".xlsx", ".ods", ".csv"}
AllowedExtensions ==
    CASE op = "ocr" -> ImageExtensions \cup {".pdf"}
      [] op = "document-convert" -> WordExtensions \cup {".pdf"}
      [] op = "word-to-excel" -> WordExtensions
      [] op = "excel-to-word" -> SpreadsheetExtensions
      [] op = "pdf-merge" -> {".pdf"}
      [] OTHER -> ImageExtensions

\* The code of the first of these checks that a file fails.
FirstFailed(file, checks) ==
    LET failed == {i \in DOMAIN checks : checks[i][1] \in file.faults}
    IN  IF failed = {} THEN "none" ELSE checks[Min(failed)][2]

LegacyChecks ==
    << <<"no-OLE", "INVALID">>, <<"many-streams", "COMPLEX">>, <<"encrypted", "PASSWORD">>,
       <<"unreadable", "INVALID">>, <<"macros", "MACROS">> >>

\* validate_signature up to the entries of an archive.
ContentCheck(file) ==
    FirstFailed(file,
        (IF file.ext \in WordExtensions \cup SpreadsheetExtensions
         THEN << <<"other-type", "INVALID">> >> ELSE <<>>) \o
        (CASE file.ext = ".pdf" ->
                << <<"signature", "INVALID">>, <<"unreadable", "INVALID">>,
                   <<"encrypted", "PASSWORD">>, <<"many-pages", "PAGES">> >>
           [] file.ext \in ImageExtensions ->
                << <<"many-pixels", "PIXELS">>, <<"unreadable", "INVALID">> >>
           [] file.ext \in Archives ->
                (IF "OLE-inside" \in file.faults THEN LegacyChecks ELSE <<>>)
                \o << <<"OLE-inside", "INVALID">>, <<"signature", "INVALID">> >>
           [] file.ext \in {".doc", ".xls"} -> << <<"signature", "INVALID">> >> \o LegacyChecks
           [] file.ext = ".rtf" -> << <<"signature", "INVALID">> >>
           [] OTHER -> <<>>))

\* The checks of an archive's parts once its entries are known.
Main(ext) == IF ext = ".docx" THEN "word/document" ELSE "xl/workbook"
SizeOf(file, name) == (CHOOSE e \in Range(file.entries) : e.name = name).size
StructureCheck(file, names) ==
    IF "macros" \in names THEN "MACROS"
    ELSE IF file.ext \in {".docx", ".xlsx"}
    THEN IF ~({Main(file.ext), "types"} \subseteq names) THEN "INVALID"
         ELSE IF SizeOf(file, "types") > MaxMetadata THEN "COMPLEX"
         ELSE FirstFailed(file,
                << <<"bad-XML", "INVALID">>, <<"macro-type", "MACROS">>, <<"other-main", "INVALID">> >>)
    ELSE IF ~({"mimetype", "content"} \subseteq names) \/ "other-main" \in file.faults THEN "INVALID"
    ELSE IF "manifest" \in names /\ SizeOf(file, "manifest") > MaxMetadata THEN "COMPLEX"
    ELSE IF "manifest" \in names /\ "encrypted" \in file.faults THEN "PASSWORD"
    ELSE FirstFailed(file,
            << <<"much-XML", "COMPLEX">>, <<"bad-XML", "INVALID">>, <<"scripts", "MACROS">> >>)

-----------------------------------------------------------------------------
(* The request                                                                 *)

NothingSeen(n) ==
    [file |-> n, pos |-> 0, names |-> {}, unpacked |-> 0, media |-> 0, mediaFiles |-> 0,
     refused |-> FALSE]
File == uploads[Len(input)]
Total == SumFunction(input)

UploadInit ==
    /\ uploads \in Uploads
    /\ op \in Operations
    /\ at = "start"
    /\ input = <<>>
    /\ read = 0
    /\ seen = NothingSeen(0)
    /\ replies = <<>>
    /\ code = "none"

\* The except clause deletes the job's directory.
Refuse(why) ==
    /\ at' = "refused" /\ code' = why
    /\ input' = <<>>

\* No files, too many, the options, the slot, the rate.
StartRequest ==
    /\ at = "start"
    /\ \/ Refuse("INVALID")
       \/ /\ Len(uploads) \in 1..MaxFiles
          /\ at' = "open" /\ UNCHANGED <<code, input>>
    /\ UNCHANGED <<uploads, op, read, seen, replies>>

OpenFile ==
    /\ at = "open"
    /\ IF uploads[Len(input) + 1].ext \notin AllowedExtensions
       THEN Refuse("FORMAT") /\ UNCHANGED read
       ELSE /\ at' = "save" /\ read' = 0
            /\ input' = Append(input, 0)
            /\ UNCHANGED code
    /\ UNCHANGED <<uploads, op, seen, replies>>

\* What the files before leave of a job's bytes.  (Wrong: all of them.)
RemainingWhole(earlier) == MaxJob
Remaining(earlier) == MaxJob - earlier
LimitOf(file) == IF file.ext \in ImageExtensions THEN MaxImage ELSE MaxDocument

SaveChunk ==
    LET current == Len(input)
        written == input[current] + File.chunks[read + 1]
    IN  /\ at = "save" /\ read < Len(File.chunks)
        /\ read' = read + 1
        /\ IF written > LimitOf(File) THEN Refuse("FILE-SIZE")
           ELSE IF written > Remaining(Total - input[current]) THEN Refuse("JOB-SIZE")
           ELSE input' = [input EXCEPT ![current] = written] /\ UNCHANGED <<at, code>>
        /\ UNCHANGED <<uploads, op, seen, replies>>

EndFile ==
    /\ at = "save" /\ read = Len(File.chunks)
    /\ IF input[Len(input)] = 0 THEN Refuse("INVALID")
       ELSE at' = "content" /\ UNCHANGED <<code, input>>
    /\ UNCHANGED <<uploads, op, read, seen, replies>>

\* validate_signature, and then the sizes an image operation allows (ImageJob!ValidImage).
CheckContent ==
    LET why == ContentCheck(File)
    IN  /\ at = "content"
        /\ IF why # "none" THEN Refuse(why)
           ELSE IF File.ext \notin Archives
           THEN \/ at' = "scan" /\ UNCHANGED <<code, input>>
                \/ File.ext \in ImageExtensions /\ Refuse("IMAGE-SIZE")
           ELSE IF Len(File.entries) > MaxEntries THEN Refuse("COMPLEX")
           ELSE at' = "entries" /\ UNCHANGED <<code, input>>
        /\ seen' = NothingSeen(Len(input))
        /\ UNCHANGED <<uploads, op, read, replies>>

\* (Wrong: the names of media entries are not noted.)
NotedOthers(names, entry) == IF entry.media THEN names ELSE names \cup {entry.name}
Noted(names, entry) == names \cup {entry.name}

CheckEntry ==
    LET entry == File.entries[seen.pos + 1]
        unpacked == seen.unpacked + entry.size
        media == seen.media + (IF entry.media THEN entry.size ELSE 0)
        mediaFiles == seen.mediaFiles + (IF entry.media THEN 1 ELSE 0)
        why == IF entry.name = "outside" THEN "INVALID"
               ELSE IF unpacked > MaxUnpacked \/ entry.dense THEN "COMPLEX"
               ELSE IF entry.name \in seen.names THEN "INVALID"
               ELSE IF mediaFiles > MaxMediaFiles \/ media > MaxMedia THEN "COMPLEX"
               ELSE "none"
    IN  /\ at = "entries" /\ seen.pos < Len(File.entries)
        /\ IF why # "none" THEN Refuse(why) ELSE UNCHANGED <<at, code, input>>
        /\ seen' = [seen EXCEPT !.pos = @ + 1, !.names = Noted(@, entry), !.unpacked = unpacked,
                                !.media = media, !.mediaFiles = mediaFiles,
                                !.refused = why # "none"]
        /\ UNCHANGED <<uploads, op, read, replies>>

CheckStructure ==
    LET why == StructureCheck(File, seen.names)
    IN  /\ at = "entries" /\ seen.pos = Len(File.entries)
        /\ IF why # "none" THEN Refuse(why) ELSE at' = "scan" /\ UNCHANGED <<code, input>>
        /\ UNCHANGED <<uploads, op, read, seen, replies>>

\* What comes back for a file: the scanner's word on it, a reply without one (an empty
\* reply, the status ERROR), or no reply at all (an exception).
Replies(file) == {IF "malware" \in file.faults THEN "FOUND" ELSE "OK", "no word", "none"}

\* A scanner that does not reply.  (Wrong: its reply is never required.)
PassedWithoutReplyAlways == TRUE
PassedWithoutReply == ~ScannerRequired

\* What refuses the file: FOUND, and no reply where one is required.  A reply without
\* a word on the file lets it pass.
ScanCheck(reply) ==
    CASE reply = "FOUND" -> "MALWARE"
      [] reply = "none" /\ ~PassedWithoutReply -> "SCANNER"
      [] OTHER -> "none"

\* The scan of a file; then the next file or the job.
Scan ==
    /\ at = "scan"
    /\ \E reply \in Replies(File) :
          /\ replies' = Append(replies, reply)
          /\ IF ScanCheck(reply) # "none" THEN Refuse(ScanCheck(reply))
             ELSE /\ at' = IF Len(input) = Len(uploads) THEN "accepted" ELSE "open"
                  /\ UNCHANGED <<code, input>>
    /\ UNCHANGED <<uploads, op, read, seen>>

UploadNext ==
    \/ StartRequest \/ OpenFile \/ SaveChunk \/ EndFile \/ CheckContent \/ CheckEntry
    \/ CheckStructure \/ Scan

-----------------------------------------------------------------------------
(* Properties                                                                  *)

\* SELF_HOSTING.md: the limits of a file and of a job.  They hold at every moment of
\* an upload, what is refused in the end included: no chunk is written that passes one.
UploadsWithinLimits ==
    /\ Total <= MaxJob
    /\ \A i \in DOMAIN input : input[i] <= LimitOf(uploads[i])

SumOver(entries, Value(_)) == SumFunction([i \in DOMAIN entries |-> Value(entries[i])])

\* An archive's limits, whatever the order of its entries.
ArchiveFits(entries) ==
    /\ Len(entries) <= MaxEntries
    /\ \A i, k \in DOMAIN entries : i # k => entries[i].name # entries[k].name
    /\ \A i \in DOMAIN entries : entries[i].name # "outside" /\ ~entries[i].dense
    /\ SumOver(entries, LAMBDA e : e.size) <= MaxUnpacked
    /\ SumOver(entries, LAMBDA e : IF e.media THEN e.size ELSE 0) <= MaxMedia
    /\ SumOver(entries, LAMBDA e : IF e.media THEN 1 ELSE 0) <= MaxMediaFiles

\* The walk over the entries comes to its end exactly if the archive as a whole is
\* within the limits: the running sums and the early returns do not depend on order.
WalkMatchesArchive ==
    seen.file # 0 =>
        LET entries == uploads[seen.file].entries
        IN  /\ seen.refused => ~ArchiveFits(entries)
            /\ at = "entries" /\ seen.pos = Len(entries) => ArchiveFits(entries)

\* README: encrypted and macro-bearing documents are rejected, files of another type
\* or with malware too.  No accepted request has such a file, the first or the last,
\* whatever its kind.  Of the scanner it promises less: each file was shown to it, none
\* it found something in is accepted, and none without a reply if one is required; so
\* malware comes through with a reply that has no word on it, or where none is required.
AcceptedUploadsAreSound ==
    at = "accepted" =>
        /\ Len(replies) = Len(uploads)
        /\ \A i \in DOMAIN uploads :
            /\ uploads[i].ext \in AllowedExtensions
            /\ uploads[i].faults \cap {"encrypted", "macros", "macro-type", "scripts"} = {}
            /\ \A e \in Range(uploads[i].entries) : e.name # "macros"
            /\ ScannerRequired => replies[i] # "none"
            /\ "malware" \in uploads[i].faults => replies[i] \in {"no word", "none"}

\* No request gets past its checks, in whatever order its files come.
UploadsAreChecked == UploadsWithinLimits /\ AcceptedUploadsAreSound
=============================================================================
