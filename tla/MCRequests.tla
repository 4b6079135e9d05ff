------------------------------ MODULE MCRequests ------------------------------
(* What happens to a request beside the job system: the slots and the hourly   *)
(* limit of its address, the checks of its files, an image job through the     *)
(* services, and the reports on it.  One of the five is checked in each         *)
(* behaviour.                                                                  *)
EXTENDS ActiveSlots, RateLimit, UploadChecks, ImageJob, MetricsReport, TLC

CONSTANTS
    Parts,  \* of "slots", "rate", "upload", "image" and "report"
    r1, r2, r3, r4, j1, j2, j3, refused1

VARIABLE part

-----------------------------------------------------------------------------
(* Four requests of one address, three of two files and one of one.            *)

SomeRequests == {r1, r2, r3, r4}
SomeUnits == [q \in SomeRequests |-> IF q = r4 THEN 1 ELSE 2]
SomeSymmetry == Permutations({r1, r2, r3})

-----------------------------------------------------------------------------
(* Image jobs: megapixels on both sides of every limit, for the factors 1, 2   *)
(* and 4.                                                                      *)

SomeSizes == {0, 2, 3, 8, 9, 12, 13, 32, 33, 50, 51, 100, 101}
Asked(ops, flags, colors) ==
    [op : ops, scale : {Default, 1, 2, 4}, model : {"standard", "photo", "clean"},
     face : {0, 50}, enhance : flags, remove : flags, color : colors,
     format : {"png", "jpeg"}, files : {<<n>> : n \in SomeSizes} \cup {<<2, 2>>, <<2, 101>>}]
SomeImages ==
    Asked({"image-pipeline"}, BOOLEAN, {"transparent", "blue"})
    \cup Asked({"upscale", "upscale-preview", "image-enhance", "remove-background"},
               {FALSE}, {"transparent"})

-----------------------------------------------------------------------------
(* A job and a refusal of different operations.                                *)

SomeOperationOf == [i \in {j1, refused1} |-> IF i = j1 THEN "upscale" ELSE "ocr"]

-----------------------------------------------------------------------------
(* Requests with every fault a kind of file can have, archives on both sides   *)
(* of every limit, and sizes on both sides of the limits of a file and a job.  *)

Plain(ext) == [ext |-> ext, chunks |-> <<1>>, faults |-> {}, entries |-> <<>>]
Part(name, size) == [name |-> name, size |-> size, dense |-> FALSE, media |-> FALSE]
Picture(name, size) == [Part(name, size) EXCEPT !.media = TRUE]

Container(ext) ==
    CASE ext = ".docx" -> <<Part("types", 1), Part("word/document", 1)>>
      [] ext = ".xlsx" -> <<Part("types", 1), Part("xl/workbook", 1)>>
      [] ext \in {".odt", ".ods"} -> <<Part("mimetype", 1), Part("content", 1)>>
      [] OTHER -> <<>>
Good(ext) == [Plain(ext) EXCEPT !.entries = Container(ext)]

FaultsOf(ext) ==
    {{"malware"}} \cup
    CASE ext = ".pdf" -> {{"signature"}, {"unreadable"}, {"encrypted"}, {"many-pages"}}
      [] ext = ".png" -> {{"many-pixels"}, {"unreadable"}}
      [] ext \in {".doc", ".xls"} ->
            {{"other-type"}, {"signature", "no-OLE"}, {"no-OLE"}, {"many-streams"}, {"encrypted"},
             {"unreadable"}, {"macros"}, {"encrypted", "macros"}}
      [] ext = ".rtf" -> {{"signature"}, {"other-type"}}
      [] ext = ".csv" -> {{"other-type"}}
      [] ext \in {".docx", ".xlsx"} ->
            {{"other-type"}, {"signature"}, {"OLE-inside", "encrypted"}, {"OLE-inside", "macros"},
             {"OLE-inside"}, {"bad-XML"}, {"macro-type"}, {"other-main"}, {"macro-type", "malware"}}
      [] OTHER -> {{"signature"}, {"bad-XML"}, {"other-main"}, {"much-XML"}, {"scripts"}}

AllExtensions == ImageExtensions \cup WordExtensions \cup SpreadsheetExtensions \cup {".pdf"}
Faulty == UNION {{[Good(ext) EXCEPT !.faults = f] : f \in FaultsOf(ext)} : ext \in AllExtensions}

\* What an archive has besides its main parts, before or after them.
Extras ==
    {<<Part("macros", 1)>>, <<Part("outside", 1)>>, <<Picture("image1", 1)>>, <<Picture("image1", 2)>>,
     <<Picture("image1", 1), Picture("image2", 1)>>, <<Picture("image1", 0), Picture("image1", 0)>>,
     <<Picture("image1", 0), Picture("image2", 0), Picture("image3", 0)>>,
     <<Part("a", 2)>>, <<Part("a", 2), Part("b", 1)>>, <<[Part("a", 1) EXCEPT !.dense = TRUE]>>,
     <<Part("a", 0), Part("b", 0), Part("c", 0)>>, <<Part("manifest", 1)>>, <<Part("manifest", 2)>>,
     <<Part("types", 1)>>, <<Part("content", 2)>>}
Archived ==
    UNION {{[Good(ext) EXCEPT !.entries = x \o @] : x \in Extras} : ext \in Archives}
    \cup UNION {{[Good(ext) EXCEPT !.entries = @ \o x] : x \in Extras} : ext \in Archives}
    \cup {[Good(ext) EXCEPT !.entries = <<Container(ext)[k]>>] : ext \in Archives, k \in 1..2}
    \cup {[Good(".docx") EXCEPT !.entries[1].size = 2],
          [Good(".odt") EXCEPT !.entries = @ \o <<Part("manifest", 1)>>, !.faults = {"encrypted"}]}

Sized(ext) == {[Good(ext) EXCEPT !.chunks = c] : c \in {<<>>, <<1, 1>>, <<2, 1>>, <<2, 2>>, <<1, 1, 1, 1>>}}

SomeUploads ==
    {<<>>} \cup {<<f>> : f \in Faulty \cup Archived}
    \cup {<<Good(".docx"), f>> : f \in Faulty \cup Archived}
    \cup {<<f, Good(".pdf")>> : f \in Faulty}
    \cup {<<f, g>> : f, g \in Sized(".pdf") \cup Sized(".docx") \cup Sized(".png")}
    \cup {<<Good(".png"), Good(".png"), Good(".png")>>}

-----------------------------------------------------------------------------
(* One part moves.                                                             *)

SlotsIdle == now = 0 /\ Nothing
UploadIdle == uploads = <<>> /\ op = (CHOOSE o \in Operations : TRUE) /\ UploadInit
ImageIdle == req = (CHOOSE r \in ImageRequests : TRUE) /\ cpuUrl = FALSE /\ ImageInit

Init ==
    /\ part \in Parts
    /\ RateInit /\ MetricsInit
    /\ IF part = "slots" THEN SlotsInit ELSE SlotsIdle
    /\ CASE part = "upload" -> ImageIdle /\ UploadInit
         [] part = "image" -> UploadIdle /\ ImageInit
         [] OTHER -> UploadIdle /\ ImageIdle

Next ==
    \/ part = "slots" /\ SlotsNext /\ UNCHANGED <<part, rateVars, uploadVars, imageVars, metricsVars>>
    \/ part = "rate" /\ RateNext /\ UNCHANGED <<part, slotsVars, uploadVars, imageVars, metricsVars>>
    \/ part = "upload" /\ UploadNext /\ UNCHANGED <<part, slotsVars, rateVars, imageVars, metricsVars>>
    \/ part = "image" /\ ImageNext /\ UNCHANGED <<part, slotsVars, rateVars, uploadVars, metricsVars>>
    \/ part = "report" /\ MetricsNext /\ UNCHANGED <<part, slotsVars, rateVars, uploadVars, imageVars>>

vars == <<part, slotsVars, rateVars, uploadVars, imageVars, metricsVars>>
Spec == Init /\ [][Next]_vars
===============================================================================
